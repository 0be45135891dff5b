------------------------- MODULE SwiftSafetyProofs -------------------------
(***************************************************************************)
(* Proofs about what Swift's quorums promise: what is executed in the      *)
(* first ballot has a majority's acks, and what was accepted in it is      *)
(* reported to the leader of whatever ballot follows; and about the paths  *)
(* that its hashes stand for, until a ballot is announced.                 *)
(***************************************************************************)
EXTENDS SwiftProofs, SequenceTheorems

USE NAssumption, CommandsAssumption, BallotAssumption, NilAssumption

\* p comes before q when the least replica that is in one of them only is in p.
LEMMA BeforeMeans ==
  ASSUME NEW p \in SUBSET Replicas, NEW q \in SUBSET Replicas, p # q
  PROVE  Before(p, q) <=> \E x \in p \ q : \A y \in Replicas : y < x => (y \in p <=> y \in q)
<1> DEFINE T == (p \ q) \cup (q \ p)
           low == Min(T)
<1>1. T \subseteq Nat /\ T # {}
  BY DEF Replicas
<1>2. PICK x \in T : \A y \in T : x <= y
  BY <1>1, Least
<1>3. low \in T /\ \A y \in T : low <= y
  BY <1>2 DEF Min
<1>6. Before(p, q) <=> low \in p
  BY DEF Before
<1> HIDE DEF low
<1>4. ASSUME Before(p, q)
      PROVE  \E z \in p \ q : \A y \in Replicas : y < z => (y \in p <=> y \in q)
  <2>1. low \in p \ q
    BY <1>3, <1>4, <1>6
  <2>2. \A y \in Replicas : y < low => y \notin T
    BY <1>1, <1>3 DEF Replicas
  <2> QED
    BY <2>1, <2>2
<1>5. ASSUME NEW z \in p \ q, \A y \in Replicas : y < z => (y \in p <=> y \in q)
      PROVE  Before(p, q)
  <2>1. z \in T /\ low <= z /\ low \in Replicas /\ z \in Replicas
    BY <1>3
  <2>2. ~ (low < z)
    BY <1>3, <1>5, <2>1
  <2>3. low = z
    BY <2>1, <2>2 DEF Replicas
  <2> QED
    BY <1>5, <1>6, <2>3
<1> QED
  BY <1>4, <1>5

\* Quorums are in a strict order.
LEMMA BeforeOrders ==
  ASSUME NEW p \in SUBSET Replicas, NEW q \in SUBSET Replicas, p # q
  PROVE  /\ Before(p, q) \/ Before(q, p)
         /\ ~ (Before(p, q) /\ Before(q, p))
         /\ \A s \in SUBSET Replicas :
              s # p /\ s # q /\ Before(p, q) /\ Before(q, s) => Before(p, s)
<1> DEFINE First(a, b, x) ==
             x \in a \ b /\ \A y \in Replicas : y < x => (y \in a <=> y \in b)
<1>1. \A a, b \in SUBSET Replicas : a # b => (Before(a, b) <=> \E x \in Replicas : First(a, b, x))
  BY BeforeMeans
<1>2. \A x, y \in Replicas : x < y \/ x = y \/ y < x
  BY DEF Replicas
<1>3. ~ (Before(p, q) /\ Before(q, p))
  <2> SUFFICES ASSUME NEW x \in Replicas, NEW y \in Replicas, First(p, q, x), First(q, p, y)
               PROVE  FALSE
    BY <1>1
  <2> QED
    BY <1>2
<1>4. Before(p, q) \/ Before(q, p)
  <2> DEFINE T == (p \ q) \cup (q \ p)
  <2>1. T \subseteq Nat /\ T # {}
    BY DEF Replicas
  <2>2. PICK x \in T : \A y \in T : x <= y
    BY <2>1, Least
  <2>3. \A y \in Replicas : y < x => y \notin T
    BY <2>1, <2>2 DEF Replicas
  <2> QED
    BY <1>1, <2>2, <2>3
<1>5. ASSUME NEW s \in SUBSET Replicas, s # p, s # q, Before(p, q), Before(q, s)
      PROVE  Before(p, s)
  <2>1. PICK x \in Replicas : First(p, q, x)
    BY <1>1, <1>5
  <2>2. PICK y \in Replicas : First(q, s, y)
    BY <1>1, <1>5
  <2>3. CASE x < y
    <3>1. First(p, s, x)
      BY <2>1, <2>2, <2>3 DEF Replicas
    <3> QED
      BY <1>1, <1>5, <3>1
  <2>4. CASE y < x
    <3>1. First(p, s, y)
      BY <2>1, <2>2, <2>4 DEF Replicas
    <3> QED
      BY <1>1, <1>5, <3>1
  <2>5. x # y
    BY <2>1, <2>2
  <2> QED
    BY <1>2, <2>3, <2>4, <2>5
<1> QED
  BY <1>3, <1>4, <1>5

\* Every number below that of the quorums is the index of one of them.
LEMMA Indexed ==
  ASSUME NEW S \in SUBSET SUBSET Replicas, IsFiniteSet(S), NEW k \in Nat, k < Cardinality(S)
  PROVE  \E q \in S : Index(q, S) = k
<1> DEFINE Fore(q) == {p \in S \ {q} : Before(p, q)}
           n == Cardinality(S)
           I(q) == Index(q, S)
           U == 0 .. n - 1
           f == [q \in S |-> I(q)]
<1>1. n \in Nat /\ n # 0
  <2>1. n \in Nat
    BY FS_CardinalityType
  <2> QED
    BY <2>1
<1>0. n - 1 \in Int
  BY <1>1
<1>2. \A q \in S : IsFiniteSet(Fore(q)) /\ I(q) = Cardinality(Fore(q)) /\ I(q) \in U
  <2> SUFFICES ASSUME NEW q \in S
               PROVE  IsFiniteSet(Fore(q)) /\ I(q) = Cardinality(Fore(q)) /\ I(q) \in U
    OBVIOUS
  <2> DEFINE F == Fore(q)
             R == S \ {q}
  <2>1. IsFiniteSet(R) /\ Cardinality(R) = n - 1
    BY FS_RemoveElement
  <2>2. F \subseteq R
    OBVIOUS
  <2>3. I(q) = Cardinality(F)
    BY DEF Index
  <2> HIDE DEF F, R, I, n
  <2>4. IsFiniteSet(F) /\ Cardinality(F) <= Cardinality(R)
    BY <2>1, <2>2, FS_Subset
  <2>5. Cardinality(F) \in Nat
    BY <2>4, FS_CardinalityType
  <2>6. I(q) \in U
    BY <1>1, <1>0, <2>1, <2>3, <2>4, <2>5
  <2> QED
    BY <2>3, <2>4, <2>6 DEF F
<1> HIDE DEF I, n
<1>9. U \subseteq Nat
  BY <1>0
<1>3. ASSUME NEW p \in S, NEW q \in S, p # q, Before(p, q) PROVE I(p) < I(q)
  <2>1. p \in SUBSET Replicas /\ q \in SUBSET Replicas
    OBVIOUS
  <2> DEFINE A == Fore(p)
             B == Fore(q)
  <2>2. A \subseteq B
    <3> SUFFICES ASSUME NEW s \in S, s # p, Before(s, p) PROVE s # q /\ Before(s, q)
      OBVIOUS
    <3>1. s # q
      BY <1>3, <2>1, BeforeOrders
    <3> QED
      BY <1>3, <3>1, BeforeOrders
  <2>3. p \in B /\ p \notin A
    BY <1>3
  <2>4. IsFiniteSet(B) /\ I(p) = Cardinality(A) /\ I(q) = Cardinality(B) /\ I(p) \in Nat /\ I(q) \in Nat
    BY <1>2, <1>9
  <2> HIDE DEF A, B
  <2>5. Cardinality(A) <= Cardinality(B) /\ Cardinality(A) # Cardinality(B)
    BY <2>2, <2>3, <2>4, FS_Subset
  <2> QED
    BY <2>4, <2>5
<1>4. \A p, q \in S : I(p) = I(q) => p = q
  <2> SUFFICES ASSUME NEW p \in S, NEW q \in S, p # q, I(p) = I(q) PROVE FALSE
    OBVIOUS
  <2>1. Before(p, q) \/ Before(q, p)
    BY BeforeOrders
  <2>2. I(p) \in Nat /\ I(q) \in Nat
    BY <1>2, <1>9
  <2>3. I(p) < I(q) \/ I(q) < I(p)
    BY <1>3, <2>1
  <2> QED
    BY <2>2, <2>3
<1>5. f \in Injection(S, U)
  BY <1>2, <1>4 DEF Injection, IsInjective
<1>6. IsFiniteSet(U) /\ Cardinality(U) = n
  <2>1. IsFiniteSet(0 .. n - 1) /\ Cardinality(0 .. n - 1) = IF 0 > n - 1 THEN 0 ELSE (n - 1) - 0 + 1
    BY <1>0, FS_Interval
  <2> QED
    BY <1>1, <2>1
<1> HIDE DEF U, f
<1>7. f \in Surjection(S, U)
  BY <1>5, <1>6, FS_Injection DEF n
<1>8. \A j \in U : \E q \in S : f[q] = j
  BY <1>7 DEF Surjection
<1>10. k \in U
  BY <1>0, <1>1 DEF U, n
<1> QED
  BY <1>8, <1>10 DEF f, I

\* The quorum of a ballot is a majority with its leader.
LEMMA QuorumOfBallot ==
  ASSUME NEW b \in Nat
  PROVE  AQ(b) \in SUBSET Replicas /\ Cardinality(AQ(b)) = Majority /\ Leader(b) \in AQ(b)
<1> DEFINE l == Leader(b)
           S == QuorumsOf(l)
           n == Cardinality(S)
           M == Majority
<1>1. l \in Replicas
  BY Group
<1>0. M \in Nat /\ M >= 1 /\ M <= N
  BY Group
<1> HIDE DEF l, M
<1>2. \E q \in SUBSET Replicas : Cardinality(q) = M /\ l \in q
  <2>1. CASE l < M
    <3> DEFINE q == 0 .. M - 1
    <3>1. M - 1 \in Int
      BY <1>0
    <3>2. Cardinality(q) = M
      BY <1>0, <3>1, FS_Interval
    <3>3. q \subseteq Replicas /\ l \in q
      BY <1>0, <1>1, <2>1, <3>1 DEF Replicas
    <3> QED
      BY <3>2, <3>3
  <2>2. CASE ~ (l < M)
    <3> DEFINE q == 0 .. M - 2
    <3>1. M - 2 \in Int
      BY <1>0
    <3>2. IsFiniteSet(q) /\ Cardinality(q) = M - 1
      BY <1>0, <3>1, FS_Interval
    <3>3. q \subseteq Replicas /\ l \notin q
      BY <1>0, <1>1, <2>2, <3>1 DEF Replicas
    <3> HIDE DEF q
    <3>4. Cardinality(q \cup {l}) = Cardinality(q) + 1
      BY <3>2, <3>3, FS_AddElement
    <3>5. Cardinality(q \cup {l}) = M
      BY <1>0, <3>2, <3>4
    <3> QED
      BY <1>1, <3>3, <3>5
  <2> QED
    BY <2>1, <2>2
<1>3. S # {}
  BY <1>2 DEF QuorumsOf, kSubset, M
<1>4. S \in SUBSET SUBSET Replicas /\ IsFiniteSet(S)
  <2>1. IsFiniteSet(SUBSET Replicas)
    BY Group, FS_SUBSET
  <2>2. S \in SUBSET SUBSET Replicas
    BY DEF QuorumsOf, kSubset
  <2> HIDE DEF S
  <2> QED
    BY <2>1, <2>2, FS_Subset
<1>5. \A q \in S : Cardinality(q) = M /\ l \in q
  BY DEF QuorumsOf, kSubset, M
<1>6. AQ(b) = CHOOSE q \in S : Index(q, S) = (b \div N) % n
  BY DEF AQ, l
<1> HIDE DEF S
<1>7. n \in Nat \ {0}
  <2>1. n \in Nat
    BY <1>4, FS_CardinalityType
  <2>2. n # 0
    BY <1>3, <1>4, FS_EmptySet
  <2> QED
    BY <2>1, <2>2
<1> DEFINE k == (b \div N) % n
<1>8. k \in Nat /\ k < n
  <2> HIDE DEF n
  <2>1. b \div N \in Nat
    BY Division
  <2>2. k \in 0 .. n - 1
    BY <1>7, <2>1, Division
  <2> HIDE DEF k
  <2> QED
    BY <1>7, <2>2
<1>9. AQ(b) = CHOOSE q \in S : Index(q, S) = k
  BY <1>6
<1> HIDE DEF k
<1>10. \E q \in S : Index(q, S) = k
  BY <1>4, <1>8, Indexed
<1>11. AQ(b) \in S
  BY <1>9, <1>10
<1> QED
  BY <1>4, <1>5, <1>11 DEF M, l

(***************************************************************************)
(* Acks and those who sent them.                                           *)
(***************************************************************************)
LEMMA QuorumSize ==
  ASSUME NEW n, n.ballot = 0, NEW path \in {"slow", "fast"}
  PROVE  QuorumFor(n, path).size = Majority /\ Majority \in Nat
<1>1. Cardinality(AQ(0)) = Majority /\ Majority \in Nat
  BY QuorumOfBallot, Group
<1> QED
  BY <1>1 DEF QuorumFor, SQ, FQ

\* Who has sent an ack has sent one ever after.
LEMMA AckersGrow ==
  ASSUME NEW r \in Replicas, NEW n \in Node, NEW m \in Node, NEW c \in Commands,
         Grown(n.acked[c], m.acked[c], n.ballot)
  PROVE  /\ AckersAt(n, r, c) \subseteq AckersAt(m, r, c)
         /\ AckersAt(m, r, c) \subseteq Replicas
         /\ Cardinality(AckersAt(n, r, c)) \in Nat /\ Cardinality(AckersAt(m, r, c)) \in Nat
         /\ Cardinality(AckersAt(n, r, c)) <= Cardinality(AckersAt(m, r, c))
<1> DEFINE A == AckersAt(n, r, c)
           B == AckersAt(m, r, c)
<1>1. n.acked[c] \in Seq(Ack) /\ m.acked[c] \in Seq(Ack)
  BY DEF Node
<1>2. n.acked[c] # <<>> => m.acked[c] # <<>>
  BY <1>1 DEF Grown
<1>3. A \subseteq B /\ B \subseteq Replicas
  BY <1>2 DEF AckersAt
<1> HIDE DEF A, B
<1>4. IsFiniteSet(B)
  BY <1>3, Group, FS_Subset
<1>5. Cardinality(A) <= Cardinality(B) /\ IsFiniteSet(A)
  BY <1>3, <1>4, FS_Subset
<1>6. Cardinality(A) \in Nat /\ Cardinality(B) \in Nat
  BY <1>4, <1>5, FS_CardinalityType
<1> QED
  BY <1>3, <1>5, <1>6 DEF A, B

\* Nothing new has been put into a set of acks, nor committed.
LEMMA BackedAlike ==
  ASSUME NEW r \in Replicas, NEW n, NEW m, Good(n, r), Good(m, r), After(n, m, r), AcksBacked(n, r),
         \A e \in Commands :
           /\ \A p \in {"slow", "fast"} :
                m.desc[e].acks[p] = n.desc[e].acks[p] \/ m.desc[e].acks[p] = NewMsgSet
           /\ m.desc[e].waiting \subseteq n.desc[e].waiting
           /\ r # 0 /\ n.ballot = 0 /\ (m.desc[e].phase = "COMMIT" \/ e \in Delivered(m)) =>
                n.desc[e].phase = "COMMIT" \/ e \in Delivered(n)
  PROVE  AcksBacked(m, r)
<1> SUFFICES ASSUME n.ballot = 0, NEW e \in Commands PROVE AckBacked(m, r, e)
  BY DEF AcksBacked, After, Same
<1> DEFINE A == AckersAt(n, r, e)
           B == AckersAt(m, r, e)
<1>1. A \subseteq B /\ Cardinality(A) \in Nat /\ Cardinality(B) \in Nat /\ Cardinality(A) <= Cardinality(B)
  BY AckersGrow DEF Good, After
<1>2. AckBacked(n, r, e)
  BY DEF AcksBacked
<1>3. Majority \in Nat
  BY Group
<1>4. NewMsgSet.leader = <<>> /\ DOMAIN NewMsgSet.msgs = {}
  BY DEF NewMsgSet
<1>5. ASSUME NEW p \in {"slow", "fast"}
      PROVE  /\ m.desc[e].acks[p].leader # <<>> => 0 \in B
             /\ DOMAIN m.desc[e].acks[p].msgs \subseteq B \ {0}
  <2>1. CASE m.desc[e].acks[p] = n.desc[e].acks[p]
    BY <1>1, <1>2, <2>1 DEF AckBacked
  <2>2. CASE m.desc[e].acks[p] = NewMsgSet
    BY <1>4, <2>2
  <2> QED
    BY <2>1, <2>2
<1>6. m.desc[e].waiting # {} => 0 \in B
  BY <1>1, <1>2 DEF AckBacked
<1>7. r # 0 /\ (m.desc[e].phase = "COMMIT" \/ e \in Delivered(m)) => Cardinality(B) >= Majority
  <2>1. r # 0 /\ (n.desc[e].phase = "COMMIT" \/ e \in Delivered(n)) => Cardinality(A) >= Majority
    BY <1>2 DEF AckBacked
  <2> HIDE DEF A, B
  <2> QED
    BY <1>1, <1>3, <2>1
<1> QED
  BY <1>5, <1>6, <1>7 DEF AckBacked

\* A delivery changes nothing else of a descriptor than this.
LEMMA DeliveredDesc ==
  ASSUME NEW r \in Replicas, NEW n, Good(n, r), NEW c \in Commands, Deliverable(n, r, c)
  PROVE  /\ Deliver(n, r, c).desc[c].acks = [slow |-> NewMsgSet, fast |-> NewMsgSet]
         /\ Deliver(n, r, c).desc[c].waiting = {} /\ Deliver(n, r, c).desc[c].propose
         /\ Deliver(n, r, c).executed = Append(n.executed, c)
<1> DEFINE d == [NewDesc EXCEPT !.propose = TRUE, !.phase = "COMMIT",
                                !.dep = n.desc[c].dep, !.noop = n.desc[c].noop,
                                !.successors = n.desc[c].successors]
           x == Append(n.executed, c)
<1>1. d.acks = [slow |-> NewMsgSet, fast |-> NewMsgSet] /\ d.waiting = {} /\ d.propose
  BY DEF NewDesc
<1>2. n \in Node /\ n.desc \in [Commands -> Desc]
  BY DEF Good, Node
<1> HIDE DEF d, x
<1>3. Deliver(n, r, c).desc = [n.desc EXCEPT ![c] = d] /\ Deliver(n, r, c).executed = x
  BY <1>2 DEF Deliver, Node, d, x
<1> QED
  BY <1>1, <1>2, <1>3 DEF x

LEMMA BackedDeliver ==
  ASSUME NEW r \in Replicas, NEW n, Good(n, r), AcksBacked(n, r), NEW c \in Commands
  PROVE  AcksBacked(Deliver(n, r, c), r)
<1> DEFINE m == Deliver(n, r, c)
<1>1. CASE ~ Deliverable(n, r, c)
  BY <1>1 DEF Deliver
<1>2. CASE Deliverable(n, r, c)
  <2>1. /\ Good(m, r) /\ After(n, m, r) /\ \A e \in Commands \ {c} : m.desc[e] = n.desc[e]
        /\ Delivered(m) \subseteq Delivered(n) \cup {c}
    BY Delivers
  <2>2. m.desc[c].acks = [slow |-> NewMsgSet, fast |-> NewMsgSet] /\ m.desc[c].waiting = {}
    BY <1>2, DeliveredDesc
  <2>3. n.ballot = 0 /\ r # 0 => n.desc[c].phase = "COMMIT"
    BY <1>2, Group DEF Deliverable, IsLeader
  <2> HIDE DEF m
  <2>4. ASSUME NEW e \in Commands
        PROVE  /\ \A p \in {"slow", "fast"} :
                    m.desc[e].acks[p] = n.desc[e].acks[p] \/ m.desc[e].acks[p] = NewMsgSet
               /\ m.desc[e].waiting \subseteq n.desc[e].waiting
               /\ r # 0 /\ n.ballot = 0 /\ (m.desc[e].phase = "COMMIT" \/ e \in Delivered(m)) =>
                    n.desc[e].phase = "COMMIT" \/ e \in Delivered(n)
    <3>1. CASE e = c
      BY <2>2, <2>3, <3>1
    <3>2. CASE e # c
      BY <2>1, <3>2
    <3> QED
      BY <3>1, <3>2
  <2>5. AcksBacked(m, r)
    BY <2>1, <2>4, BackedAlike
  <2> QED
    BY <2>5 DEF m
<1> QED
  BY <1>1, <1>2

\* A command is committed when a majority has acknowledged it.
LEMMA BackedHandle ==
  ASSUME NEW r \in Replicas, NEW n, Good(n, r), AcksBacked(n, r), NEW c \in Commands,
         n.ballot = 0 => Cardinality(AckersAt(n, r, c)) >= Majority
  PROVE  AcksBacked(HandleAcks(n, r, c), r)
<1> DEFINE D == [n.desc EXCEPT ![c] = [n.desc[c] EXCEPT !.phase = "COMMIT"]]
           n1 == [n EXCEPT !.desc = D]
           E == [e \in Commands |->
                  IF e \in n1.desc[c].dep /\ e \notin Delivered(n1)
                  THEN [n1.desc[e] EXCEPT !.successors = @ \cup {c}] ELSE n1.desc[e]]
           n2 == [n1 EXCEPT !.desc = E]
<1>1. n.desc \in [Commands -> Desc] /\ n \in Node
  BY DEF Good, Node
<1>2. D \in [Commands -> Desc]
      /\ \A e \in Commands :
           /\ D[e].propose = n.desc[e].propose /\ D[e].proposeDep = n.desc[e].proposeDep /\ D[e].noop = n.desc[e].noop
           /\ D[e].waiting = n.desc[e].waiting /\ D[e].acks = n.desc[e].acks
           /\ e # c => D[e].phase = n.desc[e].phase
           /\ D[e].phase = n.desc[e].phase \/ D[e].phase \in {"ACCEPT", "COMMIT"}
  BY <1>1 DEF Desc, Phases
<1>4. n1 = [n EXCEPT !.desc[c].phase = "COMMIT"]
  BY <1>1 DEF Node, Desc
<1> HIDE DEF D
<1>3. Good(n1, r) /\ After(n, n1, r) /\ n1.acked = n.acked /\ n1.desc = D /\ n1.executed = n.executed
  BY <1>2, DescsChanged
<1> HIDE DEF n1
<1>5. n1.desc \in [Commands -> Desc] /\ n1 \in Node
  BY <1>3 DEF Good, Node
<1>6. AcksBacked(n1, r)
  <2> SUFFICES ASSUME n.ballot = 0, NEW e \in Commands PROVE AckBacked(n1, r, e)
    BY <1>3 DEF AcksBacked, After, Same
  <2>1. AckersAt(n1, r, e) = AckersAt(n, r, e) /\ Delivered(n1) = Delivered(n)
    BY <1>3 DEF AckersAt, Delivered
  <2>2. AckBacked(n, r, e)
    BY DEF AcksBacked
  <2>3. e = c => Cardinality(AckersAt(n, r, e)) >= Majority
    OBVIOUS
  <2> QED
    BY <1>2, <1>3, <2>1, <2>2, <2>3 DEF AckBacked
<1>7. E \in [Commands -> Desc]
      /\ \A e \in Commands :
           /\ E[e].propose = n1.desc[e].propose /\ E[e].proposeDep = n1.desc[e].proposeDep
           /\ E[e].noop = n1.desc[e].noop
           /\ E[e].waiting = n1.desc[e].waiting /\ E[e].acks = n1.desc[e].acks
           /\ E[e].phase = n1.desc[e].phase
  BY <1>5 DEF Desc, Deps
<1>8. n2 = Registered(n1, c)
  BY DEF Registered
<1> HIDE DEF E
<1>9. Good(n2, r) /\ After(n1, n2, r) /\ n2.desc = E /\ n2.executed = n1.executed
  BY <1>3, <1>7, DescsChanged
<1> HIDE DEF n2
<1>10. AcksBacked(n2, r)
  <2>1. Delivered(n2) = Delivered(n1)
    BY <1>9 DEF Delivered
  <2> QED
    BY <1>3, <1>6, <1>7, <1>9, <2>1, BackedAlike
<1>11. AcksBacked(Deliver(n2, r, c), r)
  BY <1>9, <1>10, BackedDeliver
<1>12. Deliver(n2, r, c) = HandleAcks(n, r, c)
  BY <1>4, <1>8 DEF HandleAcks
<1> QED
  BY <1>11, <1>12

LEMMA BackedAdd ==
  ASSUME NEW r \in Replicas, NEW n, Good(n, r), AcksBacked(n, r), NEW c \in Commands,
         NEW path \in {"slow", "fast"}, NEW from \in Replicas, NEW dep \in {Nil} \cup Deps,
         n.ballot = 0 => from \in AckersAt(n, r, c)
  PROVE  AcksBacked(AddAck(n, r, c, path, from, dep), r)
<1> DEFINE old == n.desc[c].acks[path]
           led == from = Leader(n.ballot)
           ms == Added(old, from, led, dep)
           D == [n.desc EXCEPT ![c] = [n.desc[c] EXCEPT !.acks = [n.desc[c].acks EXCEPT ![path] = ms]]]
           n1 == [n EXCEPT !.desc = D]
<1>1. n.desc \in [Commands -> Desc] /\ n \in Node
  BY DEF Good, Node
<1>2. old \in MsgSet
  BY <1>1 DEF Desc
<1>3. ms \in MsgSet
  BY <1>2, AddedTyped
<1>4. n.ballot = 0 => /\ ms.leader # <<>> => old.leader # <<>> \/ from = 0
                      /\ DOMAIN ms.msgs \subseteq DOMAIN old.msgs \cup ({from} \ {0})
  <2> SUFFICES ASSUME n.ballot = 0
               PROVE  /\ ms.leader # <<>> => old.leader # <<>> \/ from = 0
                      /\ DOMAIN ms.msgs \subseteq DOMAIN old.msgs \cup ({from} \ {0})
    OBVIOUS
  <2>1. led <=> from = 0
    BY Group
  <2> HIDE DEF old
  <2>2. CASE from = 0
    BY <2>1, <2>2 DEF Added, Restrict
  <2>3. CASE from # 0 /\ Accepts(dep, old.leader)
    <3> DEFINE f == [q \in DOMAIN old.msgs \cup {from} |-> IF q = from THEN dep ELSE old.msgs[q]]
    <3>1. ms = [old EXCEPT !.msgs = f]
      BY <2>1, <2>3, <1>2 DEF Added, MsgSet
    <3>2. DOMAIN f = DOMAIN old.msgs \cup {from}
      OBVIOUS
    <3> HIDE DEF f, ms
    <3>3. ms.leader = old.leader /\ ms.msgs = f
      BY <1>2, <3>1 DEF MsgSet
    <3> QED
      BY <2>3, <3>2, <3>3
  <2>4. CASE from # 0 /\ ~ Accepts(dep, old.leader)
    BY <2>1, <2>4 DEF Added
  <2> QED
    BY <2>2, <2>3, <2>4
<1>5. n1 = [n EXCEPT !.desc[c].acks[path] = Added(@, from, from = Leader(n.ballot), dep)]
  BY <1>1 DEF Node, Desc
<1> HIDE DEF ms
<1>6. D \in [Commands -> Desc] /\ D[c].acks[path] = ms
      /\ \A e \in Commands :
           /\ D[e].propose = n.desc[e].propose /\ D[e].proposeDep = n.desc[e].proposeDep /\ D[e].noop = n.desc[e].noop
           /\ D[e].waiting = n.desc[e].waiting
           /\ D[e].phase = n.desc[e].phase
           /\ \A p \in {"slow", "fast"} : e # c \/ p # path => D[e].acks[p] = n.desc[e].acks[p]
  BY <1>1, <1>3 DEF Desc
<1> HIDE DEF D
<1>7. Good(n1, r) /\ After(n, n1, r) /\ n1.acked = n.acked /\ n1.desc = D /\ n1.executed = n.executed
  BY <1>6, DescsChanged
<1> HIDE DEF n1
<1>8. AcksBacked(n1, r)
  <2> SUFFICES ASSUME n.ballot = 0, NEW e \in Commands PROVE AckBacked(n1, r, e)
    BY <1>7 DEF AcksBacked, After, Same
  <2> DEFINE A == AckersAt(n, r, e)
  <2>1. AckersAt(n1, r, e) = A /\ Delivered(n1) = Delivered(n)
    BY <1>7 DEF AckersAt, Delivered
  <2>2. AckBacked(n, r, e)
    BY DEF AcksBacked
  <2>3. ASSUME NEW p \in {"slow", "fast"}
        PROVE  /\ D[e].acks[p].leader # <<>> => 0 \in A
               /\ DOMAIN D[e].acks[p].msgs \subseteq A \ {0}
    <3>1. CASE e # c \/ p # path
      BY <1>6, <2>2, <3>1 DEF AckBacked
    <3>2. CASE e = c /\ p = path
      <4>1. old.leader # <<>> => 0 \in A
        BY <2>2, <3>2 DEF AckBacked
      <4>2. DOMAIN old.msgs \subseteq A \ {0}
        BY <2>2, <3>2 DEF AckBacked
      <4>3. from \in A
        BY <3>2
      <4> HIDE DEF A, old
      <4> QED
        BY <1>4, <1>6, <3>2, <4>1, <4>2, <4>3
    <3> QED
      BY <3>1, <3>2
  <2> HIDE DEF A
  <2> QED
    BY <1>6, <1>7, <2>1, <2>2, <2>3 DEF AckBacked, A
<1>9. CASE Complete(n1.desc[c].acks[path], QuorumFor(n1, path))
  <2>1. n1.ballot = 0 => Cardinality(AckersAt(n1, r, c)) >= Majority
    <3> SUFFICES ASSUME n1.ballot = 0 PROVE Cardinality(AckersAt(n1, r, c)) >= Majority
      OBVIOUS
    <3> DEFINE A == AckersAt(n1, r, c)
               B == DOMAIN n1.desc[c].acks[path].msgs
    <3>1. 0 \in A /\ B \subseteq A \ {0}
      BY <1>8, <1>9 DEF AcksBacked, AckBacked, Complete
    <3>2. Cardinality(B) + 1 >= Majority /\ Majority \in Nat
      BY <1>9, QuorumSize DEF Complete
    <3>3. A \subseteq Replicas
      BY DEF AckersAt
    <3> HIDE DEF A, B
    <3>4. IsFiniteSet(A)
      BY <3>3, Group, FS_Subset
    <3>5. IsFiniteSet(A \ {0}) /\ Cardinality(A \ {0}) = Cardinality(A) - 1 /\ Cardinality(A) \in Nat
      BY <3>1, <3>4, FS_RemoveElement, FS_CardinalityType
    <3>6. Cardinality(B) <= Cardinality(A \ {0}) /\ IsFiniteSet(B)
      BY <3>1, <3>5, FS_Subset
    <3>7. Cardinality(B) \in Nat
      BY <3>6, FS_CardinalityType
    <3>8. Cardinality(A) >= Majority
      BY <3>2, <3>5, <3>6, <3>7
    <3> QED
      BY <3>8 DEF A
  <2>2. AcksBacked(HandleAcks(n1, r, c), r)
    BY <1>7, <1>8, <2>1, BackedHandle
  <2> QED
    BY <1>5, <1>9, <2>2 DEF AddAck, AfterAck
<1>10. CASE ~ Complete(n1.desc[c].acks[path], QuorumFor(n1, path))
  BY <1>5, <1>8, <1>10 DEF AddAck, AfterAck
<1> QED
  BY <1>9, <1>10

\* What has been accepted stays so.
Settled(n, c) ==
  c \in Delivered(n) \/ (n.desc[c].propose /\ n.desc[c].phase \in {"ACCEPT", "COMMIT"})

LEMMA SettledStays ==
  ASSUME NEW n, NEW m, NEW r, After(n, m, r), NEW c \in Commands, Settled(n, c)
  PROVE  Settled(m, c)
  BY DEF After, Settled

LEMMA BackedCommon ==
  ASSUME NEW r \in Replicas, NEW n, Good(n, r), AcksBacked(n, r), NEW c \in Commands,
         NEW from \in Replicas, NEW a \in Ack, n.ballot = 0 => from \in AckersAt(n, r, c)
  PROVE  AcksBacked(CommonCaseFastAck(n, r, c, from, a), r)
<1> DEFINE n1 == IF a.dep # Nil THEN n ELSE AddAck(n, r, c, "slow", from, Nil)
           n2 == AddAck(n1, r, c, "fast", from, a.dep)
<1>1. n \in Node /\ a.dep \in {Nil} \cup Deps /\ Nil \in {Nil} \cup Deps
  BY DEF Good, Ack
<1>2. Good(n1, r) /\ n1.acked = n.acked /\ n1.ballot = n.ballot
  BY <1>1, Adds DEF After, Same
<1>3. AcksBacked(n1, r)
  BY <1>1, BackedAdd
<1> HIDE DEF n1
<1>4. n1.ballot = 0 => from \in AckersAt(n1, r, c)
  BY <1>2 DEF AckersAt
<1>5. AcksBacked(n2, r)
  BY <1>1, <1>2, <1>3, <1>4, BackedAdd
<1> HIDE DEF n2
<1>6. CommonCaseFastAck(n, r, c, from, a) = n \/ CommonCaseFastAck(n, r, c, from, a) = n2
  BY DEF CommonCaseFastAck, n1, n2
<1> QED
  BY <1>5, <1>6

LEMMA BackedLeaders ==
  ASSUME NEW r \in Replicas, NEW n, Good(n, r), AcksBacked(n, r), NEW c \in Commands,
         NEW dep \in {Nil} \cup Deps, n.ballot = 0 => 0 \in AckersAt(n, r, c)
  PROVE  AcksBacked(AcksOfLeader(n, r, c, dep), r)
<1> DEFINE l == Leader(n.ballot)
           n1 == AddAck(n, r, c, "slow", l, dep)
           n2 == AddAck(n1, r, c, "fast", l, dep)
<1>1. l \in Replicas /\ (n.ballot = 0 => l = 0)
  BY Group DEF Good, Node
<1>5. AcksOfLeader(n, r, c, dep) = n2
  BY DEF AcksOfLeader
<1> HIDE DEF l
<1>2. Good(n1, r) /\ n1.acked = n.acked /\ n1.ballot = n.ballot
  BY <1>1, Adds DEF After, Same
<1>3. AcksBacked(n1, r)
  BY <1>1, BackedAdd
<1> HIDE DEF n1
<1>4. n1.ballot = 0 => l \in AckersAt(n1, r, c)
  BY <1>1, <1>2 DEF AckersAt
<1>6. AcksBacked(n2, r)
  BY <1>1, <1>2, <1>3, <1>4, BackedAdd
<1> QED
  BY <1>5, <1>6

\* Acks have been sent, and no descriptor has changed.
LEMMA BackedSent ==
  ASSUME NEW r \in Replicas, NEW n, NEW m, Good(n, r), Good(m, r), After(n, m, r), AcksBacked(n, r),
         m.desc = n.desc, m.executed = n.executed
  PROVE  AcksBacked(m, r)
<1>1. Delivered(m) = Delivered(n)
  BY DEF Delivered
<1> QED
  BY <1>1, BackedAlike

\* The phase of a descriptor, or what it depends on, has changed.
LEMMA BackedPhase ==
  ASSUME NEW r \in Replicas, NEW n, Good(n, r), AcksBacked(n, r), NEW c \in Commands
  PROVE  LET m == [n EXCEPT !.desc[c].phase = "ACCEPT"]
         IN  AcksBacked(m, r) /\ (n.desc[c].propose => Settled(m, c))
<1> DEFINE D == [n.desc EXCEPT ![c] = [n.desc[c] EXCEPT !.phase = "ACCEPT"]]
           m == [n EXCEPT !.desc = D]
<1>1. n.desc \in [Commands -> Desc] /\ n \in Node
  BY DEF Good, Node
<1>2. [n EXCEPT !.desc[c].phase = "ACCEPT"] = m
  BY <1>1 DEF Good, Node, Desc
<1>3. D \in [Commands -> Desc] /\ D[c].phase = "ACCEPT"
      /\ \A e \in Commands :
           /\ D[e].propose = n.desc[e].propose /\ D[e].proposeDep = n.desc[e].proposeDep /\ D[e].noop = n.desc[e].noop
           /\ D[e].waiting = n.desc[e].waiting /\ D[e].acks = n.desc[e].acks
           /\ D[e].phase = n.desc[e].phase \/ D[e].phase = "ACCEPT"
  BY <1>1 DEF Desc, Phases
<1> HIDE DEF D
<1>4. Good(m, r) /\ After(n, m, r) /\ m.desc = D /\ m.executed = n.executed
  BY <1>3, DescsChanged
<1> HIDE DEF m
<1>5. Delivered(m) = Delivered(n)
  BY <1>4 DEF Delivered
<1>6. AcksBacked(m, r)
  BY <1>3, <1>4, <1>5, BackedAlike
<1>7. n.desc[c].propose => Settled(m, c)
  BY <1>3, <1>4 DEF Settled
<1> QED
  BY <1>2, <1>6, <1>7

LEMMA BackedTakenOver ==
  ASSUME NEW r \in Replicas, NEW n, Good(n, r), AcksBacked(n, r), NEW c \in Commands, NEW dep \in Deps
  PROVE  AcksBacked(TakenOver(n, c, dep), r)
<1>1. CASE c \in Delivered(n)
  BY <1>1 DEF TakenOver
<1>2. CASE c \notin Delivered(n)
  <2> DEFINE D == [n.desc EXCEPT ![c] = [n.desc[c] EXCEPT !.dep = dep, !.slowPath = TRUE]]
             m == [n EXCEPT !.desc = D]
  <2>1. n.desc \in [Commands -> Desc]
    BY DEF Good, Node
  <2>2. TakenOver(n, c, dep) = m
    BY <1>2, <2>1 DEF TakenOver, Good, Node, Desc
  <2>3. D \in [Commands -> Desc]
        /\ \A e \in Commands :
             /\ D[e].propose = n.desc[e].propose /\ D[e].proposeDep = n.desc[e].proposeDep /\ D[e].noop = n.desc[e].noop
             /\ D[e].waiting = n.desc[e].waiting /\ D[e].acks = n.desc[e].acks
             /\ D[e].phase = n.desc[e].phase
    BY <2>1 DEF Desc
  <2> HIDE DEF D
  <2>4. Good(m, r) /\ After(n, m, r) /\ m.desc = D /\ m.executed = n.executed
    BY <2>3, DescsChanged
  <2> HIDE DEF m
  <2>5. Delivered(m) = Delivered(n)
    BY <2>4 DEF Delivered
  <2> QED
    BY <2>2, <2>3, <2>4, <2>5, BackedAlike
<1> QED
  BY <1>1, <1>2

\* The leader's ack.
LEMMA FromLeaderKeeps ==
  ASSUME NEW r \in Replicas, NEW n, Good(n, r), AcksBacked(n, r), NEW c \in Commands, NEW a \in Ack,
         n.status = "NORMAL" /\ a.ballot = n.ballot => a.dep # Nil, NEW merge \in BOOLEAN,
         n.ballot = 0 => 0 \in AckersAt(n, r, c)
  PROVE  LET m == FastAckFromLeader(n, r, c, a, merge)
         IN  /\ AcksBacked(m, r)
             /\ n.desc[c].propose => m.acked = n.acked \/ Settled(m, c)
             /\ n.desc[c].propose /\ n.status = "NORMAL" /\ a.ballot = n.ballot => Settled(m, c)
<1> DEFINE n1 == [n EXCEPT !.desc[c].phase = "ACCEPT"]
           n2 == AcksOfLeader(n1, r, c, a.dep)
           n3 == TakenOver(n2, c, a.dep)
           n4 == SendSlow(n3, c, merge)
           n5 == CommonCaseFastAck(n4, r, c, r, SlowAck(n4))
           m == FastAckFromLeader(n, r, c, a, merge)
<1>1. CASE n.status # "NORMAL" \/ n.ballot # a.ballot
  BY <1>1 DEF FastAckFromLeader
<1>2. ASSUME ~ (n.status # "NORMAL" \/ n.ballot # a.ballot)
      PROVE  a.dep \in Deps
  BY <1>2 DEF Ack
<1>3. Good(n1, r) /\ After(n, n1, r) /\ n1.acked = n.acked
  BY PhaseChanged
<1>4. AcksBacked(n1, r) /\ (n.desc[c].propose => Settled(n1, c))
  BY BackedPhase
<1> HIDE DEF n1
<1>5. n1.ballot = 0 => 0 \in AckersAt(n1, r, c)
  BY <1>3 DEF AckersAt, After, Same
<1>6. Good(n2, r) /\ After(n1, n2, r) /\ n2.acked = n1.acked
  BY <1>3, LeadersAcks DEF Ack
<1>7. AcksBacked(n2, r)
  BY <1>3, <1>4, <1>5, BackedLeaders DEF Ack
<1> HIDE DEF n2
<1>8. n.desc[c].propose => Settled(n2, c)
  BY <1>4, <1>6, SettledStays
<1>9. CASE ~ (n.status # "NORMAL" \/ n.ballot # a.ballot) /\ IsLeader(n, r)
  <2>1. m = n2
    BY <1>9 DEF FastAckFromLeader, n1, n2
  <2> QED
    BY <1>7, <1>8, <2>1
<1>10. CASE ~ (n.status # "NORMAL" \/ n.ballot # a.ballot) /\ ~ IsLeader(n, r)
  <2>1. Good(n3, r) /\ After(n2, n3, r) /\ AcksBacked(n3, r)
    BY <1>2, <1>6, <1>7, <1>10, TakesOver, BackedTakenOver
  <2> HIDE DEF n3
  <2>2. n3.ballot = n.ballot
    BY <1>3, <1>6, <2>1 DEF After, Same
  <2>3. ~ IsLeader(n3, r)
    BY <1>10, <2>2 DEF IsLeader
  <2>4. Good(n4, r) /\ After(n3, n4, r) /\ n4.desc = n3.desc /\ n4.executed = n3.executed /\ n4.acked[c] # <<>>
    BY <2>1, <2>3, SendsSlow
  <2> HIDE DEF n4
  <2>5. AcksBacked(n4, r)
    BY <2>1, <2>4, BackedSent
  <2>6. SlowAck(n4) \in Ack /\ r \in AckersAt(n4, r, c)
    BY <2>4, SlowAckTyped DEF Good, AckersAt
  <2>7. Good(n5, r) /\ After(n4, n5, r) /\ AcksBacked(n5, r)
    BY <2>4, <2>5, <2>6, CommonCase, BackedCommon
  <2> HIDE DEF n5
  <2>8. SlowAck(n4) = SlowAck(n)
    BY <2>2, <2>4 DEF After, Same, SlowAck
  <2>9. m = n5
    BY <1>10, <2>8 DEF FastAckFromLeader, n1, n2, n3, n4, n5
  <2>10. n.desc[c].propose => Settled(n5, c)
    BY <1>8, <2>1, <2>4, <2>7, SettledStays
  <2> HIDE DEF m
  <2> QED
    BY <2>7, <2>9, <2>10 DEF m
<1> QED
  BY <1>1, <1>9, <1>10

LEMMA CallsKeep ==
  ASSUME NEW r \in Replicas, NEW n, Good(n, r), AcksBacked(n, r), NEW c \in Commands, NEW a \in Ack,
         n.status = "NORMAL" /\ a.ballot = n.ballot => a.dep # Nil, NEW merge \in BOOLEAN,
         n.ballot = 0 => 0 \in AckersAt(n, r, c)
  PROVE  LET m == CallAfterPropagate(n, r, c, a, merge)
         IN  /\ AcksBacked(m, r)
             /\ m.acked = n.acked \/ Settled(m, c)
             /\ n.desc[c].propose /\ n.status = "NORMAL" /\ a.ballot = n.ballot => Settled(m, c)
<1> DEFINE m == CallAfterPropagate(n, r, c, a, merge)
<1>1. CASE n.desc[c].propose
  BY <1>1, FromLeaderKeeps DEF CallAfterPropagate
<1>2. CASE ~ n.desc[c].propose
  <2> DEFINE D == [n.desc EXCEPT ![c] = [n.desc[c] EXCEPT !.waiting = n.desc[c].waiting \cup {a}]]
             k == [n EXCEPT !.desc = D]
  <2>1. n.desc \in [Commands -> Desc]
    BY DEF Good, Node
  <2>2. m = k
    BY <1>2, <2>1 DEF Good, Node, Desc, CallAfterPropagate
  <2>3. \A e \in Commands : /\ D[e].acks = n.desc[e].acks /\ D[e].phase = n.desc[e].phase
                            /\ e # c => D[e].waiting = n.desc[e].waiting
    BY <2>1 DEF Desc
  <2> HIDE DEF D
  <2>4. k.desc = D /\ k.acked = n.acked /\ k.executed = n.executed /\ k.ballot = n.ballot
    BY DEF Good, Node
  <2> HIDE DEF k
  <2>5. AcksBacked(k, r)
    <3> SUFFICES ASSUME n.ballot = 0, NEW e \in Commands PROVE AckBacked(k, r, e)
      BY <2>4 DEF AcksBacked
    <3>1. AckersAt(k, r, e) = AckersAt(n, r, e) /\ Delivered(k) = Delivered(n)
      BY <2>4 DEF AckersAt, Delivered
    <3>2. AckBacked(n, r, e)
      BY DEF AcksBacked
    <3>3. e = c => 0 \in AckersAt(n, r, e)
      OBVIOUS
    <3> QED
      BY <2>3, <2>4, <3>1, <3>2, <3>3 DEF AckBacked
  <2> HIDE DEF m
  <2> QED
    BY <1>2, <2>2, <2>4, <2>5 DEF m
<1> QED
  BY <1>1, <1>2

LEMMA RecallsKeep ==
  ASSUME NEW r \in Replicas, NEW n, Good(n, r), AcksBacked(n, r), NEW c \in Commands, n.status = "NORMAL",
         n.desc[c].propose, NEW merge \in BOOLEAN
  PROVE  LET m == Recall(n, r, c, merge)
         IN  AcksBacked(m, r) /\ (m.acked = n.acked \/ Settled(m, c))
<1> DEFINE D == [n.desc EXCEPT ![c] = [n.desc[c] EXCEPT !.waiting = {}]]
           n1 == [n EXCEPT !.desc = D]
           now == {a \in n.desc[c].waiting : a.ballot = n.ballot}
           a == CHOOSE a \in now : TRUE
<1>1. n.desc \in [Commands -> Desc]
  BY DEF Good, Node
<1>2. D \in [Commands -> Desc]
      /\ \A e \in Commands :
           /\ D[e].propose = n.desc[e].propose /\ D[e].proposeDep = n.desc[e].proposeDep /\ D[e].noop = n.desc[e].noop
           /\ D[e].waiting \subseteq n.desc[e].waiting /\ D[e].acks = n.desc[e].acks
           /\ D[e].phase = n.desc[e].phase
  BY <1>1 DEF Desc
<1>3. [n EXCEPT !.desc[c].waiting = {}] = n1
  BY <1>1 DEF Good, Node, Desc
<1> HIDE DEF D
<1>4. Good(n1, r) /\ After(n, n1, r) /\ n1.acked = n.acked /\ n1.desc = D /\ n1.executed = n.executed
  BY <1>2, DescsChanged
<1> HIDE DEF n1
<1>5. AcksBacked(n1, r)
  <2>1. Delivered(n1) = Delivered(n)
    BY <1>4 DEF Delivered
  <2> QED
    BY <1>2, <1>4, <2>1, BackedAlike
<1>6. CASE now = {}
  BY <1>3, <1>4, <1>5, <1>6 DEF Recall
<1>7. CASE now # {}
  <2> DEFINE m == FastAckFromLeader(n1, r, c, a, merge)
  <2>1. a \in n.desc[c].waiting /\ a.ballot = n.ballot
    BY <1>7
  <2> HIDE DEF a
  <2>2. a \in Ack /\ a.dep # Nil
    BY <1>1, <2>1 DEF Desc, Good, Sane
  <2>3. n1.ballot = 0 => 0 \in AckersAt(n1, r, c)
    <3>1. n.ballot = 0 => 0 \in AckersAt(n, r, c)
      BY <2>1 DEF AcksBacked, AckBacked
    <3> QED
      BY <1>4, <3>1 DEF AckersAt, After, Same
  <2>4. n1.desc[c].propose
    BY <1>2, <1>4
  <2>5. AcksBacked(m, r) /\ (m.acked = n1.acked \/ Settled(m, c))
    BY <1>4, <1>5, <2>2, <2>3, <2>4, FromLeaderKeeps
  <2>6. Recall(n, r, c, merge) = m
    BY <1>3, <1>7 DEF Recall, a
  <2> HIDE DEF m
  <2> QED
    BY <1>4, <2>5, <2>6
<1> QED
  BY <1>6, <1>7

\* What a replica has accepted is in its descriptor, or it executed it.
LEMMA RememberedStep ==
  ASSUME NEW r \in Replicas, NEW n \in Node, NEW m \in Node, Moved(n, m, r), Remembered(n, r),
         NEW c \in Commands, \A e \in Commands \ {c} : m.acked[e] = n.acked[e],
         m.acked[c] = n.acked[c] \/ Settled(m, c)
  PROVE  Remembered(m, r)
<1>0. ASSUME NEW e \in Commands, m.cballot = 0
      PROVE  ~ m.desc[e].noop
  BY <1>0 DEF Remembered, Moved
<1> SUFFICES ASSUME NEW e \in Commands, AcceptedFirst(m, r, e), m.cballot = 0
             PROVE  e \in Delivered(m) \/ (m.desc[e].propose /\ m.desc[e].phase \in {"ACCEPT", "COMMIT"})
  BY <1>0 DEF Remembered
<1>1. CASE m.acked[e] = n.acked[e]
  <2>1. AcceptedFirst(n, r, e) /\ n.cballot = 0
    BY <1>1 DEF AcceptedFirst, Moved
  <2>2. e \in Delivered(n) \/ (n.desc[e].propose /\ n.desc[e].phase \in {"ACCEPT", "COMMIT"})
    BY <2>1 DEF Remembered
  <2> QED
    BY <2>2 DEF Moved
<1>2. CASE e = c /\ Settled(m, c)
  BY <1>2 DEF Settled
<1> QED
  BY <1>1, <1>2

LEMMA AfterMoved ==
  ASSUME NEW r \in Replicas, NEW n \in Node, NEW m \in Node, After(n, m, r)
  PROVE  Moved(n, m, r)
  BY MovedSelf, MovedAfter

LEMMA BackedSame ==
  ASSUME NEW r \in Replicas, NEW n, NEW m, AcksBacked(n, r), m.ballot = n.ballot, m.acked = n.acked,
         m.executed = n.executed,
         \A e \in Commands : m.desc[e].acks = n.desc[e].acks /\ m.desc[e].waiting = n.desc[e].waiting
                             /\ m.desc[e].phase = n.desc[e].phase
  PROVE  AcksBacked(m, r)
<1> SUFFICES ASSUME n.ballot = 0, NEW e \in Commands PROVE AckBacked(m, r, e)
  BY DEF AcksBacked
<1>1. AckersAt(m, r, e) = AckersAt(n, r, e) /\ Delivered(m) = Delivered(n)
  BY DEF AckersAt, Delivered
<1>2. AckBacked(n, r, e)
  BY DEF AcksBacked
<1> QED
  BY <1>1, <1>2 DEF AckBacked

LEMMA PreAcceptsKeep ==
  ASSUME NEW r \in Replicas, NEW n, Good(n, r), AcksBacked(n, r), NEW c \in Commands, NEW a \in Ack,
         a.ballot = n.ballot, a.dep # Nil, NEW merge \in BOOLEAN, n.status = "NORMAL", n.desc[c].propose
  PROVE  LET m == PreAccepted(n, r, c, a, merge)
         IN  AcksBacked(m, r) /\ (Remembered(n, r) => Remembered(m, r))
<1> DEFINE n1 == Send(n, c, a)
           m == PreAccepted(n, r, c, a, merge)
<1>1. /\ Good(n1, r) /\ After(n, n1, r) /\ n1.desc = n.desc
      /\ n1.executed = n.executed /\ n1.acked = [n.acked EXCEPT ![c] = Append(n.acked[c], a)]
      /\ n1.acked[c] # <<>> /\ n1.ballot = n.ballot
  <2>1. /\ Good(n1, r) /\ After(n, n1, r) /\ n1.seqnum = n.seqnum /\ n1.desc = n.desc
        /\ n1.executed = n.executed /\ n1.acked = [n.acked EXCEPT ![c] = Append(n.acked[c], a)]
        /\ n1.acked[c] # <<>>
    BY Sends
  <2> HIDE DEF n1
  <2> QED
    BY <2>1 DEF After, Same
<1> HIDE DEF n1
<1>2. AcksBacked(n1, r)
  BY <1>1, BackedSent
<1>3. n.acked \in [Commands -> Seq(Ack)] /\ n \in Node /\ n1 \in Node
  BY <1>1 DEF Good, Node
<1>4. r \in AckersAt(n1, r, c)
  BY <1>1 DEF AckersAt
<1>5. Good(m, r) /\ After(n, m, r) /\ \A e \in Commands \ {c} : m.acked[e] = n.acked[e]
  BY PreAccepts
<1>6. m \in Node /\ Moved(n, m, r)
  BY <1>3, <1>5, AfterMoved DEF Good
<1>7. CASE ~ IsLeader(n, r)
  <2> DEFINE n2 == CommonCaseFastAck(n1, r, c, r, a)
  <2>1. n2.acked = n1.acked /\ After(n1, n2, r) /\ AcksBacked(n2, r)
    BY <1>1, <1>2, <1>4, CommonCase, BackedCommon
  <2>2. m = n2
    BY <1>7 DEF PreAccepted, n1
  <2> HIDE DEF n2
  <2>3. ASSUME Remembered(n, r) PROVE Remembered(n2, r)
    <3>1. CASE n.cballot # 0
      <4>1. n2.cballot # 0
        BY <1>1, <2>1, <3>1 DEF After, Same
      <4> QED
        BY <4>1 DEF Remembered
    <3>2. CASE n.cballot = 0
      <4>1. n.ballot = 0 /\ r # 0
        BY <1>7, <3>2, Group DEF Good, Sane, IsLeader
      <4>2. \A i \in 1 .. Len(n2.acked[c]) :
              (i \in 1 .. Len(n.acked[c]) /\ n2.acked[c][i] = n.acked[c][i]) \/ n2.acked[c][i] = a
        BY <1>1, <1>3, <2>1
      <4>3. AcceptedFirst(n2, r, c) => AcceptedFirst(n, r, c)
        BY <4>1, <4>2 DEF AcceptedFirst
      <4>4. \A e \in Commands : AcceptedFirst(n2, r, e) => AcceptedFirst(n, r, e)
        <5> SUFFICES ASSUME NEW e \in Commands, AcceptedFirst(n2, r, e) PROVE AcceptedFirst(n, r, e)
          OBVIOUS
        <5>1. CASE e = c
          BY <4>3, <5>1
        <5>2. CASE e # c
          <6>1. n2.acked[e] = n.acked[e]
            BY <1>5, <2>2, <5>2
          <6> QED
            BY <6>1 DEF AcceptedFirst
        <5> QED
          BY <5>1, <5>2
      <4>5. Moved(n, n2, r)
        BY <1>6, <2>2
      <4> QED
        BY <2>3, <3>2, <4>4, <4>5 DEF Remembered, Moved
    <3> QED
      BY <3>1, <3>2
  <2> QED
    BY <2>1, <2>2, <2>3
<1>8. CASE IsLeader(n, r)
  <2> DEFINE n2 == [n1 EXCEPT !.seqnum = @ + 1]
             n3 == Deliver(n2, r, c)
             n4 == LeaderPropose(n3, r, c, a, merge)
  <2>1. /\ n2 \in Node /\ Same(n1, n2) /\ n2.queued = n1.queued /\ n2.desc = n1.desc
        /\ n2.acked = n1.acked /\ n2.executed = n1.executed
    <3> DEFINE q == n1.seqnum + 1
    <3>2. q \in Nat
      BY <1>3 DEF Node
    <3> HIDE DEF q
    <3>3. [n1 EXCEPT !.seqnum = q] \in Node
      BY <1>3, <3>2 DEF Node, q
    <3> QED
      BY <1>3, <3>3 DEF Node, Same, q
  <2> HIDE DEF n2
  <2>2. Good(n2, r)
    BY <1>1, <2>1 DEF Good, Sane, Same, Delivered
  <2>3. AcksBacked(n2, r)
    BY <1>2, <2>1, BackedSame DEF Same
  <2>4. Good(n3, r) /\ After(n2, n3, r) /\ n3.acked = n2.acked /\ AcksBacked(n3, r)
    BY <2>2, <2>3, Delivers, BackedDeliver
  <2> HIDE DEF n3
  <2>5. n3.ballot = n.ballot /\ n3.status = "NORMAL" /\ n3.desc[c].propose
    BY <1>1, <2>1, <2>4 DEF After, Same
  <2>6. n3.ballot = 0 => 0 \in AckersAt(n3, r, c)
    BY <1>1, <1>8, <2>1, <2>4, <2>5, Group DEF AckersAt, IsLeader
  <2>7. AcksBacked(n4, r) /\ Settled(n4, c)
    <3>1. CASE c \in Delivered(n3)
      BY <2>4, <3>1 DEF LeaderPropose, Settled
    <3>2. CASE c \notin Delivered(n3)
      <4> DEFINE k == CallAfterPropagate(n3, r, c, a, merge)
      <4>1. AcksBacked(k, r) /\ Settled(k, c)
        BY <2>4, <2>5, <2>6, CallsKeep
      <4>2. n4 = k
        BY <3>2 DEF LeaderPropose
      <4> QED
        BY <4>1, <4>2
    <3> QED
      BY <3>1, <3>2
  <2>8. m = n4
    BY <1>8 DEF PreAccepted, n1, n2, n3
  <2> HIDE DEF n4, m
  <2>9. Remembered(n, r) => Remembered(m, r)
    BY <1>3, <1>5, <1>6, <2>7, <2>8, RememberedStep
  <2> QED
    BY <2>7, <2>8, <2>9 DEF m
<1> QED
  BY <1>7, <1>8

LEMMA AfterRecallsKeep ==
  ASSUME NEW r \in Replicas, NEW n, Good(n, r), AcksBacked(n, r), NEW c \in Commands, NEW ran \in BOOLEAN,
         NEW merge \in BOOLEAN, n.status = "NORMAL", n.desc[c].propose
  PROVE  LET m == AfterRecall(n, r, c, ran, merge)
         IN  AcksBacked(m, r) /\ (Remembered(n, r) => Remembered(m, r))
<1>1. OwnAck(n, r, c) \in Ack /\ OwnAck(n, r, c).ballot = n.ballot /\ OwnAck(n, r, c).dep # Nil
  BY OwnAckTyped DEF Good
<1> DEFINE m == PreAccepted(n, r, c, OwnAck(n, r, c), merge)
<1>2. AcksBacked(m, r) /\ (Remembered(n, r) => Remembered(m, r))
  BY <1>1, PreAcceptsKeep
<1> QED
  BY <1>2 DEF AfterRecall

LEMMA ProposesKeep ==
  ASSUME NEW r \in Replicas, NEW n, Good(n, r), AcksBacked(n, r), NEW c \in Commands, c \in n.proposes,
         n.desc[c].propose \/ n.desc[c].proposeDep # Nil, NEW merge \in BOOLEAN
  PROVE  LET m == Proposed(n, r, c, merge)
         IN  AcksBacked(m, r) /\ (Remembered(n, r) => Remembered(m, r))
<1> DEFINE m == Proposed(n, r, c, merge)
<1>0. n \in Node /\ n.desc \in [Commands -> Desc] /\ n.desc[c] \in Desc
  BY DEF Good, Node
<1>1. CASE n.status # "NORMAL" \/ n.desc[c].propose
  BY <1>1 DEF Proposed
<1>2. ASSUME NEW d \in Desc, d.propose, d.waiting = n.desc[c].waiting, d.acks = n.desc[c].acks,
             d.phase = n.desc[c].phase \/ d.phase = "PRE_ACCEPT", ~ d.noop,
             n.status = "NORMAL", ~ n.desc[c].propose
      PROVE  LET n1 == [n EXCEPT !.desc = [n.desc EXCEPT ![c] = d]]
                 n2 == Recall(n1, r, c, merge)
             IN  /\ Good(n2, r) /\ AcksBacked(n2, r) /\ n2.status = "NORMAL" /\ n2.desc[c].propose
                 /\ Remembered(n, r) => Remembered(n2, r)
  <2> DEFINE n1 == [n EXCEPT !.desc = [n.desc EXCEPT ![c] = d]]
             n2 == Recall(n1, r, c, merge)
  <2>1. Good(n1, r) /\ After(n, n1, r) /\ n1.acked = n.acked /\ n1.executed = n.executed
        /\ n1.desc = [n.desc EXCEPT ![c] = d]
    BY <1>2, ProposeSet
  <2> HIDE DEF n1
  <2>2. n1.desc[c] = d /\ \A e \in Commands : e # c => n1.desc[e] = n.desc[e]
    BY <1>0, <2>1
  <2>3. AcksBacked(n1, r)
    <3>1. Delivered(n1) = Delivered(n)
      BY <2>1 DEF Delivered
    <3>2. ASSUME NEW e \in Commands
          PROVE  /\ n1.desc[e].acks = n.desc[e].acks /\ n1.desc[e].waiting = n.desc[e].waiting
                 /\ n1.desc[e].phase = n.desc[e].phase \/ n1.desc[e].phase = "PRE_ACCEPT"
      BY <1>2, <2>2
    <3> QED
      BY <2>1, <3>1, <3>2, BackedAlike
  <2>4. n1.status = "NORMAL" /\ n1.desc[c].propose
    BY <1>2, <2>1, <2>2 DEF After, Same
  <2>5. Good(n2, r) /\ After(n1, n2, r) /\ \A e \in Commands \ {c} : n2.acked[e] = n1.acked[e]
    BY <2>1, <2>4, Recalls
  <2>6. AcksBacked(n2, r) /\ (n2.acked = n1.acked \/ Settled(n2, c))
    <3>1. AcksBacked(Recall(n1, r, c, merge), r)
          /\ (Recall(n1, r, c, merge).acked = n1.acked \/ Settled(Recall(n1, r, c, merge), c))
      <4>1. Good(n1, r)
        BY <2>1
      <4>2. n1.status = "NORMAL"
        BY <2>4
      <4>3. n1.desc[c].propose
        BY <2>4
      <4> HIDE DEF m
      <4> QED
        BY <4>1, <4>2, <4>3, <2>3, RecallsKeep
    <3> QED
      BY <3>1
  <2> HIDE DEF n2
  <2>7. n2.status = "NORMAL" /\ n2.desc[c].propose
    BY <2>4, <2>5 DEF After, Same
  <2>8. n1 \in Node /\ n2 \in Node /\ Moved(n, n1, r) /\ Moved(n1, n2, r)
    BY <1>0, <2>1, <2>5, AfterMoved DEF Good
  <2>9. Remembered(n, r) => Remembered(n1, r)
    BY <1>0, <2>1, <2>8, RememberedStep
  <2>10. Remembered(n1, r) => Remembered(n2, r)
    BY <2>5, <2>6, <2>8, RememberedStep
  <2> QED
    BY <2>5, <2>6, <2>7, <2>9, <2>10 DEF n1, n2
<1>3. CASE ~ (n.status # "NORMAL" \/ n.desc[c].propose) /\ r \notin AQ(n.ballot)
  <2> DEFINE d == [n.desc[c] EXCEPT !.propose = TRUE, !.noop = FALSE]
             n1 == [n EXCEPT !.desc = [n.desc EXCEPT ![c] = d]]
             n2 == Recall(n1, r, c, merge)
  <2>1. d \in Desc /\ d.propose /\ d.waiting = n.desc[c].waiting /\ d.acks = n.desc[c].acks
        /\ d.phase = n.desc[c].phase /\ ~ d.noop
    BY <1>0 DEF Desc
  <2>3. n1 = [n EXCEPT !.desc[c].propose = TRUE, !.desc[c].noop = FALSE]
    BY <1>0 DEF Node, Desc
  <2> HIDE DEF d
  <2>4. /\ Good(n2, r) /\ AcksBacked(n2, r) /\ n2.status = "NORMAL" /\ n2.desc[c].propose
        /\ Remembered(n, r) => Remembered(n2, r)
    BY <1>2, <1>3, <2>1
  <2> HIDE DEF n1
  <2>6. m = n2
    BY <1>3, <2>3 DEF Proposed
  <2> QED
    BY <2>4, <2>6
<1>4. CASE ~ (n.status # "NORMAL" \/ n.desc[c].propose) /\ r \in AQ(n.ballot)
  <2> DEFINE d == [n.desc[c] EXCEPT !.propose = TRUE, !.noop = FALSE, !.phase = "PRE_ACCEPT",
                                     !.dep = n.desc[c].proposeDep]
             n1 == [n EXCEPT !.desc = [n.desc EXCEPT ![c] = d]]
             n2 == Recall(n1, r, c, merge)
             ran == n.desc[c].waiting # {}
             n3 == AfterRecall(n2, r, c, ran, merge)
  <2>1. d \in Desc /\ d.propose /\ d.waiting = n.desc[c].waiting /\ d.acks = n.desc[c].acks
        /\ d.phase = "PRE_ACCEPT" /\ ~ d.noop
    <3>1. n.desc[c] \in Desc /\ n.desc[c].proposeDep \in Deps
      BY <1>0, <1>4 DEF Desc
    <3> QED
      BY <3>1 DEF Desc, Phases
  <2>3. n1 = [n EXCEPT !.desc[c].propose = TRUE, !.desc[c].noop = FALSE, !.desc[c].phase = "PRE_ACCEPT",
                       !.desc[c].dep = n.desc[c].proposeDep]
    BY <1>0 DEF Node, Desc
  <2> HIDE DEF d
  <2>4. /\ Good(n2, r) /\ AcksBacked(n2, r) /\ n2.status = "NORMAL" /\ n2.desc[c].propose
        /\ Remembered(n, r) => Remembered(n2, r)
    BY <1>2, <1>4, <2>1
  <2>8. m = n3
    BY <1>4, <2>3 DEF Proposed
  <2> HIDE DEF n1
  <2> HIDE DEF n2
  <2>5. ran \in BOOLEAN
    OBVIOUS
  <2> HIDE DEF ran
  <2>6. AcksBacked(n3, r) /\ (Remembered(n2, r) => Remembered(n3, r))
    BY <2>4, <2>5, AfterRecallsKeep
  <2> HIDE DEF n3, m
  <2> QED
    BY <2>4, <2>6, <2>8 DEF m
<1> QED
  BY <1>1, <1>3, <1>4

LEMMA HandlesProposeKeeps ==
  ASSUME NEW r \in Replicas, NEW n, Good(n, r), AcksBacked(n, r), NEW c \in Commands, c \in n.proposes,
         n.desc[c].propose \/ n.desc[c].proposeDep # Nil, NEW merge \in BOOLEAN
  PROVE  LET m == HandlePropose(n, r, c, merge)
         IN  AcksBacked(m, r) /\ (Remembered(n, r) => Remembered(m, r))
<1> DEFINE q == n.queued \ {c}
           n1 == [n EXCEPT !.queued = q]
           m == Proposed(n1, r, c, merge)
<1>1. n \in Node /\ q \in Deps /\ q \subseteq n.queued
  BY DEF Good, Node, Deps
<1>2. HandlePropose(n, r, c, merge) = m
  BY DEF HandlePropose
<1> HIDE DEF q
<1>3. /\ n1 \in Node /\ Same(n, n1) /\ n1.acked = n.acked /\ n1.desc = n.desc
      /\ n1.executed = n.executed /\ n1.queued = q
  BY <1>1 DEF Node, Same
<1> HIDE DEF n1
<1>4. Good(n1, r)
  BY <1>1, <1>3, SaneSame DEF Good, Same
<1>5. AcksBacked(n1, r)
  BY <1>3, BackedSame DEF Same
<1>6. Remembered(n, r) => Remembered(n1, r)
  BY <1>3 DEF Remembered, AcceptedFirst, Same, Delivered
<1>7. c \in n1.proposes /\ (n1.desc[c].propose \/ n1.desc[c].proposeDep # Nil)
  BY <1>3 DEF Same
<1>8. AcksBacked(m, r) /\ (Remembered(n1, r) => Remembered(m, r))
  BY <1>4, <1>5, <1>7, ProposesKeep
<1> QED
  BY <1>2, <1>6, <1>8

\* The descriptors stay as they are but for their proposals' dependencies.
LEMMA OutsideKeeps ==
  ASSUME NEW r \in Replicas, NEW n, NEW m, AcksBacked(n, r), m.ballot = n.ballot, m.cballot = n.cballot,
         m.acked = n.acked, m.executed = n.executed,
         \A e \in Commands : /\ m.desc[e].acks = n.desc[e].acks /\ m.desc[e].waiting = n.desc[e].waiting
                             /\ m.desc[e].phase = n.desc[e].phase /\ m.desc[e].propose = n.desc[e].propose
                             /\ m.desc[e].noop = n.desc[e].noop
  PROVE  AcksBacked(m, r) /\ (Remembered(n, r) => Remembered(m, r))
<1>1. AcksBacked(m, r)
  BY BackedSame
<1>2. Remembered(n, r) => Remembered(m, r)
  BY DEF Remembered, AcceptedFirst, Delivered
<1> QED
  BY <1>1, <1>2

LEMMA NumbersKeep ==
  ASSUME NEW r \in Replicas, NEW n, Good(n, r), AcksBacked(n, r), NEW c \in Commands
  PROVE  LET m == Numbered(n, c)
         IN  AcksBacked(m, r) /\ (Remembered(n, r) => Remembered(m, r))
<1> DEFINE m == Numbered(n, c)
           d == IF n.desc[c].proposeDep # Nil THEN n.desc[c]
                ELSE [n.desc[c] EXCEPT !.proposeDep = Conflicts(n, c), !.hs = AppendHash(n.log, c)]
           D == [n.desc EXCEPT ![c] = d]
<1>1. n.desc \in [Commands -> Desc] /\ n \in Node
  BY DEF Good, Node
<1>2. d.acks = n.desc[c].acks /\ d.waiting = n.desc[c].waiting /\ d.phase = n.desc[c].phase
      /\ d.propose = n.desc[c].propose /\ d.noop = n.desc[c].noop
  BY <1>1 DEF Desc
<1>3. m.desc = D
  BY <1>1 DEF Numbered, Node
<1> HIDE DEF d
<1>4. \A e \in Commands : /\ m.desc[e].acks = n.desc[e].acks /\ m.desc[e].waiting = n.desc[e].waiting
                          /\ m.desc[e].phase = n.desc[e].phase /\ m.desc[e].propose = n.desc[e].propose
                          /\ m.desc[e].noop = n.desc[e].noop
  BY <1>1, <1>2, <1>3
<1>5. m.ballot = n.ballot /\ m.cballot = n.cballot /\ m.acked = n.acked /\ m.executed = n.executed
  <2>1. Moved(n, m, r) /\ m.acked = n.acked /\ m.executed = n.executed
    BY Numbers
  <2> QED
    BY <2>1 DEF Moved
<1> HIDE DEF m
<1>6. AcksBacked(m, r) /\ (Remembered(n, r) => Remembered(m, r))
  BY <1>4, <1>5, OutsideKeeps
<1> QED
  BY <1>6 DEF m

LEMMA TakesKeep ==
  ASSUME NEW r \in Replicas, NEW n, Good(n, r), AcksBacked(n, r), NEW c \in Commands, NEW merge \in BOOLEAN
  PROVE  LET m == Taken(n, r, c, merge)
         IN  AcksBacked(m, r) /\ (Remembered(n, r) => Remembered(m, r))
<1> DEFINE n1 == Numbered(n, c)
           n2 == Hashed(n1, r, c)
           m == HandedOver(n2, r, c, merge)
<1>1. /\ Good(n1, r) /\ c \in n1.proposes /\ n1.desc[c].proposeDep # Nil
      /\ AcksBacked(n1, r) /\ (Remembered(n, r) => Remembered(n1, r))
  BY Numbers, NumbersKeep
<1>2. Taken(n, r, c, merge) = m
  BY DEF Taken
<1> HIDE DEF n1
<1>3. /\ Good(n2, r) /\ Moved(n1, n2, r) /\ n2.acked = n1.acked /\ n2.desc = n1.desc
      /\ n2.proposes = n1.proposes /\ n2.executed = n1.executed
  BY <1>1, Hashes
<1> HIDE DEF n2
<1>4. n2.ballot = n1.ballot /\ n2.cballot = n1.cballot
  BY <1>3 DEF Moved
<1>5. AcksBacked(n2, r) /\ (Remembered(n1, r) => Remembered(n2, r))
  BY <1>1, <1>3, <1>4, OutsideKeeps
<1>6. CASE m = HandlePropose(n2, r, c, merge)
  <2> DEFINE k == HandlePropose(n2, r, c, merge)
  <2>1. AcksBacked(k, r) /\ (Remembered(n2, r) => Remembered(k, r))
    BY <1>1, <1>3, <1>5, HandlesProposeKeeps
  <2>2. m = k
    BY <1>6
  <2> HIDE DEF k, m
  <2> QED
    BY <1>1, <1>2, <1>5, <2>1, <2>2
<1>7. CASE m = [n2 EXCEPT !.dead = TRUE] \/ m = [n2 EXCEPT !.queued = @ \cup {c}]
  <2>1. m.ballot = n2.ballot /\ m.cballot = n2.cballot /\ m.acked = n2.acked /\ m.executed = n2.executed
        /\ m.desc = n2.desc
    <3>1. n2 \in Node
      BY <1>3 DEF Good
    <3> HIDE DEF m
    <3> QED
      BY <1>7, <3>1 DEF Node
  <2> HIDE DEF m
  <2>2. AcksBacked(m, r) /\ (Remembered(n2, r) => Remembered(m, r))
    BY <1>5, <2>1, OutsideKeeps
  <2> QED
    BY <1>1, <1>2, <1>5, <2>2
<1> QED
  BY <1>6, <1>7 DEF HandedOver

(***************************************************************************)
(* The steps of the normal case.                                           *)
(***************************************************************************)
\* What a step of replica r keeps, whose state is n before it and m after it.
Keeps(n, m, r) ==
  /\ m \in Node /\ m.ballot = n.ballot /\ m.cballot = n.cballot /\ m.status = n.status
  /\ Delivered(n) \subseteq Delivered(m)
  /\ \A c \in Commands : Grown(n.acked[c], m.acked[c], n.ballot)
  /\ AcksBacked(m, r)
  /\ Remembered(n, r) => Remembered(m, r)

LEMMA MovedKeeps ==
  ASSUME NEW r, NEW n, NEW m, Good(m, r), Moved(n, m, r), AcksBacked(m, r),
         Remembered(n, r) => Remembered(m, r)
  PROVE  Keeps(n, m, r)
  BY DEF Keeps, Moved, Good

LEMMA TakeKeeps ==
  ASSUME Typed, NEW r \in Replicas, AcksBacked(node[r], r), NEW c \in Commands, TakeProposal(r, c)
  PROVE  \E m : Becomes(r, m) /\ Keeps(node[r], m, r)
<1>1. PICK merge \in BOOLEAN : Becomes(r, Taken(node[r], r, c, merge))
  BY DEF TakeProposal, Merges
<1> DEFINE n == node[r]
           m == Taken(n, r, c, merge)
<1>2. Good(n, r)
  BY TypedAt
<1> HIDE DEF n
<1>3. Good(m, r) /\ Moved(n, m, r)
  BY <1>2, Takes
<1>4. AcksBacked(n, r)
  BY DEF n
<1>5. AcksBacked(m, r) /\ (Remembered(n, r) => Remembered(m, r))
  BY <1>2, <1>4, TakesKeep
<1>6. Becomes(r, m)
  BY <1>1 DEF n
<1> HIDE DEF m
<1> QED
  BY <1>3, <1>5, <1>6, MovedKeeps DEF n

LEMMA QueuedKeeps ==
  ASSUME Typed, NEW r \in Replicas, AcksBacked(node[r], r), NEW c \in Commands, QueuedProposal(r, c)
  PROVE  \E m : Becomes(r, m) /\ Keeps(node[r], m, r)
<1>1. PICK merge \in BOOLEAN : Becomes(r, HandlePropose(node[r], r, c, merge))
  BY DEF QueuedProposal, Merges
<1> DEFINE n == node[r]
           m == HandlePropose(n, r, c, merge)
<1>2. Good(n, r) /\ n \in Node
  BY TypedAt
<1>3. c \in n.proposes /\ (n.desc[c].propose \/ n.desc[c].proposeDep # Nil)
  BY <1>2 DEF QueuedProposal, Good, Sane
<1>4. AcksBacked(n, r)
  OBVIOUS
<1>6. Becomes(r, m)
  BY <1>1
<1> HIDE DEF n
<1>7. Good(m, r) /\ After(n, m, r)
  BY <1>2, <1>3, HandlesPropose
<1>8. Moved(n, m, r)
  BY <1>2, <1>7, AfterMoved DEF Good
<1>9. AcksBacked(m, r) /\ (Remembered(n, r) => Remembered(m, r))
  BY <1>2, <1>3, <1>4, HandlesProposeKeeps
<1> HIDE DEF m
<1> QED
  BY <1>6, <1>7, <1>8, <1>9, MovedKeeps DEF n

LEMMA NoteKeeps ==
  ASSUME Typed, NEW r \in Replicas, AcksBacked(node[r], r), NEW c \in Commands, NoteLeaderAck(r, c)
  PROVE  \E m : Becomes(r, m) /\ Keeps(node[r], m, r)
<1> DEFINE n == node[r]
           s == Leader(n.ballot)
           a == NextOf(r, s, c)
           k == RecordLeaderHash(n, c, a.seqnum, a.hs)
           m == [k EXCEPT !.noted = @ \cup {c}]
<1>1. r # s /\ HasNext(r, s, c) /\ Becomes(r, m)
  BY DEF NoteLeaderAck
<1>2. Good(n, r) /\ n \in Node /\ s \in Replicas
  BY TypedAt
<1>3. a \in Ack
  BY <1>1, <1>2, NextTyped
<1>4. a.seqnum \in Nat /\ a.hs \in Path
  BY <1>3 DEF Ack
<1> HIDE DEF a
<1>5. /\ Good(k, r) /\ Moved(n, k, r) /\ k.acked = n.acked /\ k.desc = n.desc
      /\ k.executed = n.executed
  BY <1>2, <1>4, RecordsHash
<1> HIDE DEF k
<1>6. k.ballot = n.ballot /\ k.cballot = n.cballot /\ k.status = n.status
  BY <1>5 DEF Moved
<1>7. /\ m \in Node /\ m.ballot = n.ballot /\ m.cballot = n.cballot /\ m.status = n.status
      /\ m.acked = n.acked /\ m.desc = n.desc /\ m.executed = n.executed
  BY <1>5, <1>6 DEF Good, Node, Deps
<1> HIDE DEF m
<1>8. AcksBacked(m, r) /\ (Remembered(n, r) => Remembered(m, r))
  BY <1>7, OutsideKeeps
<1>9. \A e \in Commands : Grown(n.acked[e], m.acked[e], n.ballot)
  BY <1>2, <1>7, AfterSelf DEF After
<1>10. Delivered(m) = Delivered(n)
  BY <1>7 DEF Delivered
<1>11. Keeps(n, m, r)
  BY <1>7, <1>8, <1>9, <1>10 DEF Keeps
<1> QED
  BY <1>1, <1>11

LEMMA LeaderAckKeeps ==
  ASSUME Typed, NEW r \in Replicas, AcksBacked(node[r], r), NEW c \in Commands, HandleLeaderAck(r, c)
  PROVE  \E m : Becomes(r, m) /\ Keeps(node[r], m, r)
<1> DEFINE n == node[r]
           s == Leader(n.ballot)
           a == NextOf(r, s, c)
           q == n.noted \ {c}
           h == [n EXCEPT !.noted = q, !.heard = [n.heard EXCEPT ![s] = [n.heard[s] EXCEPT ![c] = n.heard[s][c] + 1]]]
<1>1. Good(n, r) /\ n \in Node /\ s \in Replicas /\ n.heard \in [Replicas -> [Commands -> {Nil} \cup Nat]]
      /\ q \in Deps /\ q \subseteq n.noted /\ c \notin q
  BY TypedAt DEF Node, Deps
<1>2. HasNext(r, s, c) /\ r # s
  BY <1>1, TypedAt DEF HandleLeaderAck, HasNext
<1>3. a \in Ack /\ (Leader(a.ballot) = s => a.dep # Nil)
  BY <1>1, <1>2, NextTyped
<1>4. [n EXCEPT !.noted = @ \ {c}, !.heard[s][c] = @ + 1] = h
  BY <1>1 DEF Node
<1>5. PICK merge \in BOOLEAN :
        Becomes(r, IF c \in Delivered(n) THEN h ELSE CallAfterPropagate(h, r, c, a, merge))
  BY <1>4 DEF HandleLeaderAck, Merges
<1>6. /\ Good(h, r) /\ h.ballot = n.ballot /\ h.acked = n.acked /\ h.desc = n.desc /\ h.status = n.status
      /\ h.executed = n.executed /\ h.cballot = n.cballot /\ h.noted = q
      /\ \A e \in Replicas, d \in Commands :
           h.heard[e][d] # Nil => h.heard[e][d] <= Len(node[e].acked[d])
      /\ \A d \in h.noted :
           LET e == Leader(h.ballot)
           IN  r # e /\ h.heard[e][d] # Nil /\ h.heard[e][d] < Len(node[e].acked[d])
  <2>1. q \in Deps /\ q \subseteq node[r].noted /\ (c \notin q \/ s # Leader(node[r].ballot)) /\ s \in Replicas
        /\ HasNext(r, s, c)
    BY <1>1, <1>2
  <2> HIDE DEF q, s, a
  <2> QED
    BY <2>1, HeardMore
<1>7. node[s].acked[c] # <<>>
  <2>1. node[r].heard[s][c] \in Nat /\ node[r].heard[s][c] + 1 <= Len(node[s].acked[c])
    BY <1>1, <1>2, NextTyped
  <2>2. Len(<<>>) = 0
    OBVIOUS
  <2> QED
    BY <2>1, <2>2
<1>8. n.ballot = 0 => s = 0 /\ 0 \in Replicas
  BY Group
<1> HIDE DEF h
<1>9. a.ballot = h.ballot => a.dep # Nil
  BY <1>3, <1>6
<1> HIDE DEF a
<1>10. h.ballot = 0 => 0 \in AckersAt(h, r, c)
  BY <1>2, <1>6, <1>7, <1>8 DEF AckersAt
<1>11. AcksBacked(h, r) /\ (Remembered(n, r) => Remembered(h, r))
  BY <1>6, OutsideKeeps
<1>12. Moved(h, h, r) /\ h \in Node
  BY <1>6, MovedSelf DEF Good
<1> DEFINE k == CallAfterPropagate(h, r, c, a, merge)
<1>13. Good(k, r) /\ After(h, k, r) /\ \A e \in Commands \ {c} : k.acked[e] = h.acked[e]
  BY <1>3, <1>6, <1>9, CallsAfter
<1>14. AcksBacked(k, r) /\ (k.acked = h.acked \/ Settled(k, c))
  <2> HIDE DEF n, s
  <2> QED
    BY <1>3, <1>6, <1>9, <1>10, <1>11, CallsKeep
<1> HIDE DEF k
<1>15. Moved(h, k, r) /\ k \in Node
  BY <1>12, <1>13, AfterMoved DEF Good
<1>16. Remembered(h, r) => Remembered(k, r)
  BY <1>12, <1>13, <1>14, <1>15, RememberedStep
<1>17. Keeps(h, h, r) /\ Keeps(h, k, r)
  BY <1>6, <1>11, <1>12, <1>13, <1>14, <1>15, <1>16, MovedKeeps
<1>18. \A m : Keeps(h, m, r) => Keeps(n, m, r)
  BY <1>6, <1>11 DEF Keeps, Delivered
<1> QED
  BY <1>5, <1>17, <1>18 DEF k

LEMMA AckKeeps ==
  ASSUME Typed, NEW r \in Replicas, AcksBacked(node[r], r), NEW s \in Replicas, NEW c \in Commands, HandleAck(r, s, c)
  PROVE  \E m : Becomes(r, m) /\ Keeps(node[r], m, r)
<1> DEFINE n == node[r]
           a == NextOf(r, s, c)
           q == n.noted
           h == [n EXCEPT !.noted = q, !.heard = [n.heard EXCEPT ![s] = [n.heard[s] EXCEPT ![c] = n.heard[s][c] + 1]]]
           k == CommonCaseFastAck(h, r, c, s, a)
<1>1. Good(n, r) /\ n \in Node /\ n.heard \in [Replicas -> [Commands -> {Nil} \cup Nat]]
      /\ q \in Deps /\ q \subseteq n.noted /\ s # Leader(n.ballot) /\ HasNext(r, s, c) /\ s # r
  BY TypedAt DEF Node, HandleAck
<1>2. a \in Ack
  BY <1>1, NextTyped
<1>3. [n EXCEPT !.heard[s][c] = @ + 1] = h
  BY <1>1 DEF Node
<1>4. Becomes(r, k)
  BY <1>3 DEF HandleAck
<1>5. /\ Good(h, r) /\ h.ballot = n.ballot /\ h.acked = n.acked /\ h.desc = n.desc /\ h.status = n.status
      /\ h.executed = n.executed /\ h.cballot = n.cballot /\ h.noted = q
      /\ \A e \in Replicas, d \in Commands :
           h.heard[e][d] # Nil => h.heard[e][d] <= Len(node[e].acked[d])
      /\ \A d \in h.noted :
           LET e == Leader(h.ballot)
           IN  r # e /\ h.heard[e][d] # Nil /\ h.heard[e][d] < Len(node[e].acked[d])
  <2>1. q \in Deps /\ q \subseteq node[r].noted /\ (c \notin q \/ s # Leader(node[r].ballot)) /\ s \in Replicas
        /\ HasNext(r, s, c)
    BY <1>1
  <2> HIDE DEF q, a, k
  <2> QED
    BY <2>1, HeardMore
<1>6. node[s].acked[c] # <<>>
  <2>1. node[r].heard[s][c] \in Nat /\ node[r].heard[s][c] + 1 <= Len(node[s].acked[c])
    BY <1>1, NextTyped
  <2>2. Len(<<>>) = 0
    OBVIOUS
  <2> QED
    BY <2>1, <2>2
<1> HIDE DEF h, a
<1>7. s \in AckersAt(h, r, c)
  BY <1>1, <1>6 DEF AckersAt
<1>8. AcksBacked(h, r) /\ (Remembered(n, r) => Remembered(h, r))
  BY <1>5, OutsideKeeps
<1>9. h \in Node
  BY <1>5 DEF Good
<1>10. Good(k, r) /\ After(h, k, r) /\ k.acked = h.acked
  BY <1>2, <1>5, CommonCase
<1>11. AcksBacked(k, r)
  <2> HIDE DEF n
  <2> QED
    BY <1>2, <1>5, <1>7, <1>8, BackedCommon
<1> HIDE DEF k
<1>12. Moved(h, k, r) /\ k \in Node
  BY <1>9, <1>10, AfterMoved DEF Good
<1>13. Remembered(h, r) => Remembered(k, r)
  BY <1>9, <1>10, <1>12, RememberedStep
<1>14. Keeps(h, k, r)
  BY <1>10, <1>11, <1>12, <1>13, MovedKeeps
<1>15. Keeps(n, k, r)
  BY <1>5, <1>8, <1>14 DEF Keeps, Delivered
<1> QED
  BY <1>4, <1>15

LEMMA WakeKeeps ==
  ASSUME Typed, NEW r \in Replicas, AcksBacked(node[r], r), NEW c \in Commands, Wake(r, c)
  PROVE  \E m : Becomes(r, m) /\ Keeps(node[r], m, r)
<1> DEFINE n == node[r]
           u == n.unwoken \ {c}
           d == n.deliverChan \cup n.desc[c].successors
           m == Waking(n, u, d)
<1>1. Good(n, r) /\ n \in Node
  BY TypedAt
<1>2. u \in Deps /\ d \in Deps
  BY <1>1 DEF Node, Desc, Deps
<1>3. Becomes(r, m)
  BY DEF Wake, Waking
<1> HIDE DEF u, d
<1>4. Good(m, r) /\ Moved(n, m, r) /\ m.acked = n.acked /\ m.desc = n.desc /\ m.executed = n.executed
  BY <1>1, <1>2, Waked
<1> HIDE DEF m
<1>5. AcksBacked(m, r) /\ (Remembered(n, r) => Remembered(m, r))
  BY <1>4, OutsideKeeps DEF Moved
<1> QED
  BY <1>3, <1>4, <1>5, MovedKeeps

LEMMA DeliverKeeps ==
  ASSUME Typed, NEW r \in Replicas, AcksBacked(node[r], r), NEW c \in Commands, DeliverNext(r, c)
  PROVE  \E m : Becomes(r, m) /\ Keeps(node[r], m, r)
<1> DEFINE n == node[r]
           d == n.deliverChan \ {c}
           u == n.unwoken
           m == Waking(n, u, d)
           k == Deliver(m, r, c)
<1>1. Good(n, r) /\ n \in Node
  BY TypedAt
<1>2. u \in Deps /\ d \in Deps
  BY <1>1 DEF Node, Deps
<1>3. Becomes(r, k)
  <2>1. m = [n EXCEPT !.deliverChan = d]
    BY <1>1 DEF Node, Waking
  <2> QED
    BY <2>1 DEF DeliverNext
<1> HIDE DEF u, d
<1>4. Good(m, r) /\ Moved(n, m, r) /\ m.acked = n.acked /\ m.desc = n.desc /\ m.executed = n.executed
  BY <1>1, <1>2, Waked
<1> HIDE DEF m
<1>5. AcksBacked(m, r) /\ (Remembered(n, r) => Remembered(m, r))
  BY <1>4, OutsideKeeps DEF Moved
<1>6. Good(k, r) /\ After(m, k, r) /\ k.acked = m.acked
  BY <1>4, Delivers
<1>7. AcksBacked(k, r)
  BY <1>4, <1>5, BackedDeliver
<1> HIDE DEF k
<1>8. Moved(m, k, r) /\ Moved(n, k, r) /\ k \in Node /\ m \in Node
  BY <1>1, <1>4, <1>6, MovedAfter, AfterMoved DEF Good
<1>9. Remembered(m, r) => Remembered(k, r)
  BY <1>6, <1>8, RememberedStep
<1> QED
  BY <1>3, <1>5, <1>6, <1>7, <1>8, <1>9, MovedKeeps

LEMMA NormalKeeps ==
  ASSUME Typed, NEW r \in Replicas, AcksBacked(node[r], r), NormalStep(r)
  PROVE  \E m : Becomes(r, m) /\ Keeps(node[r], m, r)
  BY TakeKeeps, QueuedKeeps, NoteKeeps, LeaderAckKeeps, AckKeeps, WakeKeeps, DeliverKeeps DEF NormalStep

(***************************************************************************)
(* All steps.                                                              *)
(***************************************************************************)
\* What a step of any kind keeps of replica r, whose state is n before it and m after it.
Advances(n, m, r) ==
  /\ m \in Node /\ n.ballot <= m.ballot
  /\ Delivered(n) \subseteq Delivered(m)
  /\ \A c \in Commands : Grown(n.acked[c], m.acked[c], m.ballot)
  /\ AcksBacked(m, r)
  /\ Remembered(n, r) => Remembered(m, r)

LEMMA KeepsAdvances ==
  ASSUME NEW n \in Node, NEW m, NEW r, Keeps(n, m, r)
  PROVE  Advances(n, m, r)
<1>1. n.ballot \in Nat
  BY DEF Node
<1> QED
  BY <1>1 DEF Keeps, Advances

LEMMA StartAdvances ==
  ASSUME Typed, NEW r \in Replicas, NEW b \in 1..MaxBallot, StartRecovery(r, b)
  PROVE  \E m :
           /\ node' = [node EXCEPT ![r] = m] /\ Advances(node[r], m, r)
           /\ newLeaderAcks' = newLeaderAcks \cup
                {[from |-> r, ballot |-> b, cballot |-> m.cballot, entries |-> Entries(m),
                  executed |-> Delivered(m)]}
           /\ syncs' = syncs
           /\ node[r].ballot < b /\ m.ballot = b /\ m.cballot = node[r].cballot
           /\ m.acked = node[r].acked /\ m.desc = node[r].desc /\ m.executed = node[r].executed
<1>1. PICK kept \in MayKeep(r) :
        LET n == Recovering(Counted(node[r]), b, kept)
        IN  /\ node' = [node EXCEPT ![r] = n]
            /\ newLeaderAcks' = newLeaderAcks \cup
                 {[from |-> r, ballot |-> b, cballot |-> n.cballot, entries |-> Entries(n),
                  executed |-> Delivered(n)]}
  BY DEF StartRecovery
<1> DEFINE n == Counted(node[r])
           m == Recovering(n, b, kept)
<1>2. node[r].ballot < b /\ syncs' = syncs
  BY DEF StartRecovery
<1>3. b \in Nat /\ b > 0 /\ kept \in Deps /\ node[r] \in Node /\ node[r].ballot \in Nat
  <2>1. Delivered(node[r]) \subseteq Commands /\ node[r] \in Node /\ node[r].ballot \in Nat
    <3>1. node[r] \in Node /\ node[r].executed \in Seq(Commands) /\ node[r].ballot \in Nat
      BY TypedAt DEF Node, Path
    <3>2. \A x \in Seq(Commands) : ToSet(x) \subseteq Commands
      BY DEF ToSet
    <3> QED
      BY <3>1, <3>2 DEF Delivered
  <2> QED
    BY <2>1, <1>1 DEF MayKeep, Deps
<1>4. /\ Good(n, r) /\ n.ballot = node[r].ballot /\ n.cballot = node[r].cballot /\ n.acked = node[r].acked
      /\ n.desc = node[r].desc /\ n.executed = node[r].executed
  BY CountedTyped
<1>5. node' = [node EXCEPT ![r] = m]
      /\ newLeaderAcks' = newLeaderAcks \cup
           {[from |-> r, ballot |-> b, cballot |-> m.cballot, entries |-> Entries(m),
                  executed |-> Delivered(m)]}
  BY <1>1
<1> HIDE DEF n
<1>6. /\ Good(m, r) /\ m.ballot = b /\ m.cballot = n.cballot /\ m.acked = n.acked
      /\ m.desc = n.desc /\ m.executed = n.executed
  BY <1>2, <1>3, <1>4, RecoveringTyped
<1> HIDE DEF m
<1>7. \A c \in Commands : Grown(node[r].acked[c], m.acked[c], m.ballot)
  <2>1. \A c \in Commands : node[r].acked[c] \in Seq(Ack) /\ m.acked[c] = node[r].acked[c]
    BY <1>3, <1>4, <1>6 DEF Node
  <2> QED
    BY <2>1 DEF Grown
<1>8. AcksBacked(m, r)
  BY <1>3, <1>6 DEF AcksBacked
<1>9. Remembered(node[r], r) => Remembered(m, r)
  BY <1>4, <1>6 DEF Remembered, AcceptedFirst, Delivered
<1>10. Advances(node[r], m, r)
  BY <1>2, <1>3, <1>4, <1>6, <1>7, <1>8, <1>9 DEF Advances, Good, Delivered
<1> QED
  BY <1>2, <1>4, <1>5, <1>6, <1>10

LEMMA SyncAdvances ==
  ASSUME NEW r \in Replicas, NEW n, Good(n, r), NEW sync \in Sync, n.ballot <= sync.ballot,
         sync.ballot # 0, NEW woken \in Deps
  PROVE  Advances(n, AfterSync(n, r, sync, woken), r)
<1> DEFINE k == Synced(n, sync, woken)
           T == n.proposes \cap InSync(sync)
           m == AcksOfSynced(k, r, T)
<1>1. /\ Good(k, r) /\ k.ballot = sync.ballot /\ k.cballot = sync.ballot /\ k.acked = n.acked
      /\ k.executed = n.executed
  BY SyncedTyped
<1>2. AfterSync(n, r, sync, woken) = m
  BY DEF AfterSync
<1>3. T \in SUBSET Commands
  BY DEF Good, Node, Deps
<1> HIDE DEF k, T
<1>4. Good(m, r) /\ Moved(k, m, r)
  BY <1>1, <1>3, AllAcksSynced
<1> HIDE DEF m
<1>5. m.ballot = sync.ballot /\ m.cballot = sync.ballot /\ Delivered(n) \subseteq Delivered(m)
      /\ \A c \in Commands : Grown(n.acked[c], m.acked[c], m.ballot)
  BY <1>1, <1>4 DEF Moved, Delivered
<1>6. AcksBacked(m, r) /\ Remembered(m, r)
  BY <1>5 DEF AcksBacked, Remembered
<1> QED
  BY <1>2, <1>4, <1>5, <1>6 DEF Advances, Good

LEMMA HandleSyncAdvances ==
  ASSUME Typed, NEW r \in Replicas, NEW sync \in syncs, HandleSync(r, sync)
  PROVE  \E m : Becomes(r, m) /\ Advances(node[r], m, r)
<1>1. PICK kept \in (IF node[r].status = "NORMAL" THEN MayKeep(r) ELSE {node[r].kept}),
           woken \in MayWake(node[r], sync) :
        Becomes(r, AfterSync([Counted(node[r]) EXCEPT !.kept = kept], r, sync, woken))
  BY DEF HandleSync
<1> DEFINE c == Counted(node[r])
           n == [c EXCEPT !.kept = kept]
<1>2. sync \in Sync /\ sync.ballot \in newLeaders /\ newLeaders \subseteq 1..MaxBallot /\ node[r] \in Node
      /\ node[r].ballot \in Nat
  BY TypedAt DEF Typed, Announced
<1>3. node[r].ballot <= sync.ballot /\ sync.ballot # 0
  BY <1>2 DEF HandleSync
<1>4. woken \in Deps
  <2>1. InSync(sync) \subseteq Commands
    BY <1>2 DEF InSync, Sync, Entry
  <2> QED
    BY <1>1, <2>1 DEF MayWake, Wakeable, Deps
<1>5. kept \in Deps
  <2>1. Delivered(node[r]) \subseteq Commands
    <3>1. node[r].executed \in Seq(Commands)
      BY <1>2 DEF Node, Path
    <3>2. \A x \in Seq(Commands) : ToSet(x) \subseteq Commands
      BY DEF ToSet
    <3> QED
      BY <3>1, <3>2 DEF Delivered
  <2>2. node[r].kept \in Deps
    BY <1>2 DEF Node
  <2> QED
    BY <1>1, <2>1, <2>2 DEF MayKeep, Deps
<1>6. /\ Good(c, r) /\ c.ballot = node[r].ballot /\ c.acked = node[r].acked /\ c.executed = node[r].executed
      /\ c.cballot = node[r].cballot /\ c.desc = node[r].desc
  BY CountedTyped
<1>7. Becomes(r, AfterSync(n, r, sync, woken))
  BY <1>1
<1> HIDE DEF c
<1>8. /\ n \in Node /\ n.status = c.status /\ n.ballot = c.ballot /\ n.cballot = c.cballot
      /\ n.executed = c.executed /\ n.queued = c.queued /\ n.proposes = c.proposes /\ n.desc = c.desc
      /\ n.acked = c.acked /\ n.heard = c.heard
  BY <1>5, <1>6 DEF Good, Node
<1> HIDE DEF n
<1>9. Good(n, r)
  BY <1>6, <1>8, SaneSame DEF Good
<1> DEFINE m == AfterSync(n, r, sync, woken)
<1>10. Advances(n, m, r)
  BY <1>2, <1>3, <1>4, <1>6, <1>8, <1>9, SyncAdvances
<1> HIDE DEF m
<1>11. Remembered(node[r], r) => Remembered(n, r)
  BY <1>6, <1>8 DEF Remembered, AcceptedFirst, Delivered
<1>12. Advances(node[r], m, r)
  BY <1>6, <1>8, <1>10, <1>11 DEF Advances, Delivered
<1> QED
  BY <1>7, <1>12 DEF m

LEMMA AnswersAdvance ==
  ASSUME Typed, NEW r \in Replicas, NEW acks \in kSubset(Majority, newLeaderAcks), HandleNewLeaderAcks(r, acks)
  PROVE  \E m, sync :
           /\ node' = [node EXCEPT ![r] = m] /\ Advances(node[r], m, r)
           /\ newLeaderAcks' = newLeaderAcks /\ syncs' = syncs \cup {sync}
           /\ sync.acks = acks /\ sync.entries \in LastRead(AcceptedIn(acks))
           /\ \A a \in acks : a.ballot = sync.ballot
<1>1. PICK es \in LastRead(AcceptedIn(acks)) :
        LET sync == [ballot |-> node[r].ballot, entries |-> es, acks |-> acks]
        IN  /\ syncs' = syncs \cup {sync}
            /\ \E woken \in MayWake(node[r], sync) :
                   node' = [node EXCEPT ![r] = AfterSync(node[r], r, sync, woken)]
  BY DEF HandleNewLeaderAcks
<1> DEFINE n == node[r]
           sync == [ballot |-> n.ballot, entries |-> es, acks |-> acks]
<1>2. PICK woken \in MayWake(n, sync) : node' = [node EXCEPT ![r] = AfterSync(n, r, sync, woken)]
  BY <1>1
<1>3. Good(n, r) /\ n \in Node /\ n.ballot \in Nat /\ n.status = "RECOVERING"
      /\ newLeaderAcks \subseteq NewLeaderAck
  BY TypedAt DEF HandleNewLeaderAcks, Typed
<1>4. acks \subseteq newLeaderAcks
  BY DEF kSubset
<1>5. es \subseteq Entry
  <2>1. \A a \in Highest(acks) : a.entries \subseteq Entry
    BY <1>3, <1>4 DEF Highest, NewLeaderAck
  <2>2. AcceptedIn(acks) \subseteq Entry
    BY <2>1 DEF AcceptedIn
  <2> QED
    BY <1>1, <2>2 DEF LastRead
<1>6. sync \in Sync
  BY <1>3, <1>4, <1>5 DEF Sync
<1>7. woken \in Deps
  <2>1. InSync(sync) \subseteq Commands
    BY <1>5 DEF InSync, Entry
  <2> QED
    BY <1>2, <2>1 DEF MayWake, Wakeable, Deps
<1>8. n.ballot # 0
  BY <1>3 DEF Good, Sane
<1>9. newLeaderAcks' = newLeaderAcks /\ syncs' = syncs \cup {sync}
  BY <1>1 DEF HandleNewLeaderAcks
<1>10. sync.ballot = n.ballot /\ sync.acks = acks /\ sync.entries = es
  OBVIOUS
<1>11. \A a \in acks : a.ballot = n.ballot
  BY DEF HandleNewLeaderAcks
<1> HIDE DEF sync
<1>12. n.ballot <= sync.ballot /\ sync.ballot # 0
  BY <1>3, <1>8, <1>10
<1>13. Advances(n, AfterSync(n, r, sync, woken), r)
  BY <1>3, <1>6, <1>7, <1>12, SyncAdvances
<1> QED
  BY <1>1, <1>2, <1>9, <1>10, <1>11, <1>13

(***************************************************************************)
(* What is committed has a majority, and what is accepted survives.        *)
(***************************************************************************)
LEMMA BackedStep ==
  ASSUME Typed, Backed, NEW r \in Replicas, NEW m, node' = [node EXCEPT ![r] = m], Advances(node[r], m, r)
  PROVE  Backed'
<1>1. node \in [Replicas -> Node] /\ m \in Node /\ node'[r] = m
      /\ \A s \in Replicas : s # r => node'[s] = node[s]
  BY DEF Typed, Advances
<1> SUFFICES ASSUME NEW s \in Replicas PROVE AcksBacked(node[s], s)'
  BY DEF Backed
<1>2. CASE s = r
  <2>1. \A c \in Commands : AckersAt(node[s], s, c)' = AckersAt(m, r, c)
    BY <1>1, <1>2 DEF AckersAt
  <2>2. m.ballot = 0 => \A c \in Commands : AckBacked(m, r, c)
    BY DEF Advances, AcksBacked
  <2> SUFFICES ASSUME m.ballot = 0, NEW c \in Commands PROVE AckBacked(node[s], s, c)'
    BY <1>1, <1>2 DEF AcksBacked
  <2>3. AckBacked(m, r, c)
    BY <2>2
  <2> QED
    BY <1>1, <1>2, <2>1, <2>3 DEF AckBacked, Delivered
<1>3. CASE s # r
  <2> SUFFICES ASSUME node[s].ballot = 0, NEW c \in Commands PROVE AckBacked(node[s], s, c)'
    BY <1>1, <1>3 DEF AcksBacked
  <2>1. AckBacked(node[s], s, c)
    BY DEF Backed, AcksBacked
  <2> DEFINE A == AckersAt(node[s], s, c)
             B == AckersAt(node[s], s, c)'
  <2>2. A \subseteq B /\ B \subseteq Replicas
    <3>1. node[r].acked[c] \in Seq(Ack) /\ m.acked[c] \in Seq(Ack)
      BY <1>1 DEF Node
    <3>2. node[r].acked[c] # <<>> => m.acked[c] # <<>>
      BY <3>1 DEF Advances, Grown
    <3> QED
      BY <1>1, <1>3, <3>2 DEF AckersAt
  <2>3. Cardinality(A) <= Cardinality(B) /\ Cardinality(A) \in Nat /\ Cardinality(B) \in Nat
    <3> HIDE DEF A, B
    <3>1. IsFiniteSet(B)
      BY <2>2, Group, FS_Subset
    <3>2. IsFiniteSet(A) /\ Cardinality(A) <= Cardinality(B)
      BY <2>2, <3>1, FS_Subset
    <3> QED
      BY <3>1, <3>2, FS_CardinalityType
  <2>4. node'[s] = node[s] /\ Majority \in Nat
    BY <1>1, <1>3, Group
  <2>5. ASSUME Cardinality(A) >= Majority PROVE Cardinality(B) >= Majority
    BY <2>3, <2>4, <2>5
  <2>6. AckBacked(node[s], s, c)' <=>
          /\ \A p \in {"slow", "fast"} :
               /\ node[s].desc[c].acks[p].leader # <<>> => 0 \in B
               /\ DOMAIN node[s].desc[c].acks[p].msgs \subseteq B \ {0}
          /\ node[s].desc[c].waiting # {} => 0 \in B
          /\ s # 0 /\ (node[s].desc[c].phase = "COMMIT" \/ c \in Delivered(node[s])) => Cardinality(B) >= Majority
    BY <2>4 DEF AckBacked, Delivered
  <2>7. AckBacked(node[s], s, c) <=>
          /\ \A p \in {"slow", "fast"} :
               /\ node[s].desc[c].acks[p].leader # <<>> => 0 \in A
               /\ DOMAIN node[s].desc[c].acks[p].msgs \subseteq A \ {0}
          /\ node[s].desc[c].waiting # {} => 0 \in A
          /\ s # 0 /\ (node[s].desc[c].phase = "COMMIT" \/ c \in Delivered(node[s])) => Cardinality(A) >= Majority
    BY DEF AckBacked
  <2> HIDE DEF A, B
  <2> QED
    BY <2>1, <2>2, <2>5, <2>6, <2>7
<1> QED
  BY <1>2, <1>3

\* Of a step: all replicas remember, and the answers and the Syncs that there were are as they
\* were.
LEMMA SurvivalStep ==
  ASSUME Typed, Survival, NEW r \in Replicas, NEW m, node' = [node EXCEPT ![r] = m], Advances(node[r], m, r)
  PROVE  /\ \A s \in Replicas : Remembered(node'[s], s)
         /\ \A a \in newLeaderAcks :
              /\ a.from \in Replicas /\ a.ballot > 0 /\ a.ballot <= node'[a.from].ballot
              /\ a.cballot = 0 => \A c \in Commands :
                   AcceptedFirst(node'[a.from], a.from, c) => c \in a.executed \/ OffersItself(a, c)
<1>1. node \in [Replicas -> Node] /\ m \in Node /\ node'[r] = m
      /\ \A s \in Replicas : s # r => node'[s] = node[s]
  BY DEF Typed, Advances
<1>2. ASSUME NEW s \in Replicas PROVE Remembered(node'[s], s)
  <2>1. Remembered(node[s], s)
    BY DEF Survival
  <2>2. CASE s = r
    BY <1>1, <2>1, <2>2 DEF Advances
  <2>3. CASE s # r
    BY <1>1, <2>1, <2>3
  <2> QED
    BY <2>2, <2>3
<1>3. ASSUME NEW a \in newLeaderAcks
      PROVE  /\ a.from \in Replicas /\ a.ballot > 0 /\ a.ballot <= node'[a.from].ballot
             /\ a.cballot = 0 => \A c \in Commands :
                  AcceptedFirst(node'[a.from], a.from, c) => c \in a.executed \/ OffersItself(a, c)
  <2>1. a.from \in Replicas /\ a.ballot \in Nat
    BY DEF Typed, NewLeaderAck
  <2>2. a.ballot > 0 /\ a.ballot <= node[a.from].ballot
        /\ (a.cballot = 0 => \A c \in Commands :
              AcceptedAt(a.from, c) => c \in a.executed \/ OffersItself(a, c))
    BY DEF Survival, AnswersComplete
  <2>3. CASE a.from # r
    BY <1>1, <2>1, <2>2, <2>3 DEF AcceptedAt
  <2>4. CASE a.from = r
    <3>1. node[r].ballot \in Nat /\ m.ballot \in Nat /\ node[r].ballot <= m.ballot
      BY <1>1 DEF Node, Advances
    <3>2. a.ballot <= m.ballot /\ m.ballot # 0
      BY <2>1, <2>2, <2>4, <3>1
    <3>3. ASSUME NEW c \in Commands, AcceptedFirst(m, r, c) PROVE AcceptedFirst(node[r], r, c)
      <4>1. PICK i \in 1 .. Len(m.acked[c]) : m.acked[c][i].ballot = 0 /\ (m.acked[c][i].dep = Nil \/ r = 0)
        BY <3>3 DEF AcceptedFirst
      <4>2. i <= Len(node[r].acked[c]) /\ m.acked[c][i] = node[r].acked[c][i]
        BY <3>2, <4>1 DEF Advances, Grown
      <4>3. node[r].acked[c] \in Seq(Ack)
        BY <1>1 DEF Node
      <4>4. i \in 1 .. Len(node[r].acked[c])
        BY <4>2, <4>3
      <4> QED
        BY <4>1, <4>2, <4>4 DEF AcceptedFirst
    <3>4. Delivered(node[r]) \subseteq Delivered(m)
      BY DEF Advances
    <3> QED
      BY <1>1, <2>1, <2>2, <2>4, <3>2, <3>3, <3>4 DEF AcceptedAt
  <2> QED
    BY <2>3, <2>4
<1> QED
  BY <1>2, <1>3

\* A step that changes no more than a replica.
LEMMA SurvivalSame ==
  ASSUME Typed, Survival, NEW r \in Replicas, NEW m, node' = [node EXCEPT ![r] = m], Advances(node[r], m, r),
         newLeaderAcks' = newLeaderAcks, syncs' = syncs
  PROVE  Survival'
<1>1. /\ \A s \in Replicas : Remembered(node'[s], s)
      /\ \A a \in newLeaderAcks :
           /\ a.from \in Replicas /\ a.ballot > 0 /\ a.ballot <= node'[a.from].ballot
           /\ a.cballot = 0 => \A c \in Commands :
                AcceptedFirst(node'[a.from], a.from, c) => c \in a.executed \/ OffersItself(a, c)
  BY SurvivalStep
<1>2. \A s \in Replicas : Remembered(node[s], s)'
  BY <1>1 DEF Remembered, AcceptedFirst, Delivered
<1>3. AnswersComplete'
  BY <1>1 DEF Survival, AnswersComplete, AcceptedAt, AcceptedFirst, OffersItself, Offered
<1>4. SyncsComplete'
  BY DEF Survival, SyncsComplete, Offered, InSync
<1> QED
  BY <1>2, <1>3, <1>4 DEF Survival

\* An answer tells of all that the replica has accepted in the first ballot.
LEMMA AnswerTells ==
  ASSUME NEW r \in Replicas, NEW m \in Node, Remembered(m, r), m.cballot = 0,
         NEW c \in Commands, AcceptedFirst(m, r, c)
  PROVE  c \in Delivered(m) \/ \E e \in Entries(m) : e \in Offered(c, Entries(m)) /\ ~ e.noop
<1>1. CASE c \in Delivered(m)
  BY <1>1
<1>2. CASE c \notin Delivered(m)
  <2>1. m.desc[c].propose /\ m.desc[c].phase \in {"ACCEPT", "COMMIT"} /\ ~ m.desc[c].noop
    BY <1>2 DEF Remembered
  <2>2. c \in Described(m)
    BY <1>2, <2>1 DEF Described
  <2> DEFINE e == [cmd |-> c, phase |-> m.desc[c].phase, dep |-> m.desc[c].dep, noop |-> m.desc[c].noop]
  <2>3. e \in Entries(m)
    BY <2>2 DEF Entries
  <2> QED
    BY <2>1, <2>3 DEF Offered
<1> QED
  BY <1>1, <1>2

LEMMA SurvivalStart ==
  ASSUME Typed, Survival, NEW r \in Replicas, NEW b \in 1..MaxBallot, StartRecovery(r, b)
  PROVE  Survival'
<1>1. PICK m :
        /\ node' = [node EXCEPT ![r] = m] /\ Advances(node[r], m, r)
        /\ newLeaderAcks' = newLeaderAcks \cup
             {[from |-> r, ballot |-> b, cballot |-> m.cballot, entries |-> Entries(m),
                  executed |-> Delivered(m)]}
        /\ syncs' = syncs
        /\ node[r].ballot < b /\ m.ballot = b /\ m.cballot = node[r].cballot
        /\ m.acked = node[r].acked /\ m.desc = node[r].desc /\ m.executed = node[r].executed
  BY StartAdvances
<1> DEFINE a == [from |-> r, ballot |-> b, cballot |-> m.cballot, entries |-> Entries(m),
                 executed |-> Delivered(m)]
<1>2. /\ \A s \in Replicas : Remembered(node'[s], s)
      /\ \A k \in newLeaderAcks :
           /\ k.from \in Replicas /\ k.ballot > 0 /\ k.ballot <= node'[k.from].ballot
           /\ k.cballot = 0 => \A c \in Commands :
                AcceptedFirst(node'[k.from], k.from, c) => c \in k.executed \/ OffersItself(k, c)
  BY <1>1, SurvivalStep
<1>3. node'[r] = m /\ m \in Node /\ b \in Nat /\ b > 0 /\ node[r].ballot \in Nat
  BY <1>1, TypedAt DEF Typed, Advances
<1>4. newLeaderAcks' = newLeaderAcks \cup {a} /\ a.from = r /\ a.ballot = b /\ a.cballot = m.cballot
      /\ a.entries = Entries(m) /\ a.executed = Delivered(m)
  BY <1>1
<1> HIDE DEF a
<1>5. a.cballot = 0 => \A c \in Commands :
        AcceptedFirst(m, r, c) => c \in a.executed \/ OffersItself(a, c)
  BY <1>2, <1>3, <1>4, AnswerTells DEF OffersItself
<1>6. \A k \in newLeaderAcks : k.from # r \/ k.ballot # b
  <2>1. \A k \in newLeaderAcks : k.ballot <= node[k.from].ballot /\ k.ballot \in Nat
    BY DEF Survival, AnswersComplete, Typed, NewLeaderAck
  <2> QED
    BY <1>1, <1>3, <2>1
<1>7. \A k \in newLeaderAcks' :
        /\ k.ballot > 0 /\ k.ballot <= node'[k.from].ballot
        /\ k.cballot = 0 => \A c \in Commands :
             AcceptedFirst(node'[k.from], k.from, c) => c \in k.executed \/ OffersItself(k, c)
  BY <1>1, <1>2, <1>3, <1>4, <1>5
<1>8. \A k, l \in newLeaderAcks' : k.from = l.from /\ k.ballot = l.ballot => k = l
  BY <1>4, <1>6 DEF Survival, AnswersComplete
<1>9. AnswersComplete'
  BY <1>7, <1>8 DEF AnswersComplete, AcceptedAt, AcceptedFirst, OffersItself, Offered
<1>10. \A s \in Replicas : Remembered(node[s], s)'
  BY <1>2 DEF Remembered, AcceptedFirst, Delivered
<1>11. SyncsComplete'
  BY <1>1, <1>4 DEF Survival, SyncsComplete, Offered, InSync
<1> QED
  BY <1>9, <1>10, <1>11 DEF Survival

LEMMA SurvivalAnswers ==
  ASSUME Typed, Survival, NEW r \in Replicas, NEW acks \in kSubset(Majority, newLeaderAcks),
         HandleNewLeaderAcks(r, acks)
  PROVE  Survival'
<1>1. PICK m, sync :
        /\ node' = [node EXCEPT ![r] = m] /\ Advances(node[r], m, r)
        /\ newLeaderAcks' = newLeaderAcks /\ syncs' = syncs \cup {sync}
        /\ sync.acks = acks /\ sync.entries \in LastRead(AcceptedIn(acks))
        /\ \A a \in acks : a.ballot = sync.ballot
  BY AnswersAdvance
<1>2. /\ \A s \in Replicas : Remembered(node'[s], s)
      /\ \A k \in newLeaderAcks :
           /\ k.from \in Replicas /\ k.ballot > 0 /\ k.ballot <= node'[k.from].ballot
           /\ k.cballot = 0 => \A c \in Commands :
                AcceptedFirst(node'[k.from], k.from, c) => c \in k.executed \/ OffersItself(k, c)
  BY <1>1, SurvivalStep
<1>3. \A s \in Replicas : Remembered(node[s], s)'
  BY <1>2 DEF Remembered, AcceptedFirst, Delivered
<1>4. AnswersComplete'
  BY <1>1, <1>2 DEF Survival, AnswersComplete, AcceptedAt, AcceptedFirst, OffersItself, Offered
<1>5. acks \subseteq newLeaderAcks /\ Cardinality(acks) = Majority
  BY DEF kSubset
<1>6. ASSUME \A a \in acks : a.cballot = 0, NEW a \in acks, NEW c \in Commands, Offered(c, a.entries) # {}
      PROVE  c \in InSync(sync)
  <2>1. a \in Highest(acks)
    BY <1>6 DEF Highest
  <2>2. PICK e \in a.entries : e.cmd = c /\ e.phase \in {"ACCEPT", "COMMIT"}
    BY <1>6 DEF Offered
  <2>3. e \in AcceptedIn(acks)
    BY <2>1, <2>2 DEF AcceptedIn
  <2>4. {x.cmd : x \in sync.entries} = {x.cmd : x \in AcceptedIn(acks)}
    BY <1>1 DEF LastRead
  <2> QED
    BY <2>2, <2>3, <2>4 DEF InSync
<1>0. \A e \in sync.entries : \E a \in sync.acks : e \in Offered(e.cmd, a.entries)
  BY <1>1 DEF LastRead, AcceptedIn, Highest, Offered
<1>7. SyncsComplete'
  <2> SUFFICES ASSUME NEW s \in syncs'
               PROVE  /\ s.acks \subseteq newLeaderAcks' /\ Cardinality(s.acks) = Majority
                      /\ \A a \in s.acks : a.ballot = s.ballot
                      /\ \A e \in s.entries : \E a \in s.acks : e \in Offered(e.cmd, a.entries)
                      /\ (\A a \in s.acks : a.cballot = 0) =>
                           \A a \in s.acks : \A c \in Commands : Offered(c, a.entries) # {} => c \in InSync(s)
    BY DEF SyncsComplete, Offered, InSync
  <2>1. CASE s \in syncs
    BY <1>1, <2>1 DEF Survival, SyncsComplete
  <2>2. CASE s = sync
    BY <1>0, <1>1, <1>5, <1>6, <2>2
  <2> QED
    BY <1>1, <2>1, <2>2
<1> QED
  BY <1>3, <1>4, <1>7 DEF Survival

LEMMA KeptInit ==
  ASSUME Init
  PROVE  Kept
<1>1. Typed
  BY InitTyped
<1>2. \A r \in Replicas : /\ node[r].ballot = 0 /\ node[r].executed = <<>>
                          /\ \A c \in Commands : node[r].acked[c] = <<>> /\ node[r].desc[c] = NewDesc
  BY DEF Init, NewNode
<1>3. ToSet(<<>>) = {} /\ DOMAIN <<>> = {} /\ Len(<<>>) = 0
  BY DEF ToSet
<1>4. /\ \A p \in {"slow", "fast"} : NewDesc.acks[p].leader = <<>> /\ NewDesc.acks[p].msgs = <<>>
      /\ NewDesc.waiting = {} /\ NewDesc.phase = "START" /\ ~ NewDesc.noop
  BY DEF NewDesc, NewMsgSet
<1> HIDE DEF NewDesc
<1>5. Backed
  <2> SUFFICES ASSUME NEW r \in Replicas, NEW c \in Commands PROVE AckBacked(node[r], r, c)
    BY DEF Backed, AcksBacked
  <2>1. node[r].desc[c] = NewDesc /\ Delivered(node[r]) = {}
    BY <1>2, <1>3 DEF Delivered
  <2> QED
    BY <1>3, <1>4, <2>1 DEF AckBacked
<1>6. \A r \in Replicas : Remembered(node[r], r)
  <2>1. \A r \in Replicas : \A c \in Commands : ~ AcceptedFirst(node[r], r, c)
    BY <1>2, <1>3 DEF AcceptedFirst
  <2> QED
    BY <1>2, <1>4, <2>1 DEF Remembered
<1>7. newLeaderAcks = {} /\ syncs = {}
  BY DEF Init
<1>8. Survival
  BY <1>6, <1>7 DEF Survival, AnswersComplete, SyncsComplete
<1> QED
  BY <1>1, <1>5, <1>8 DEF Kept

LEMMA KeptNext ==
  ASSUME Kept, [Next]_vars
  PROVE  Kept'
<1>1. Typed /\ Backed /\ Survival /\ Typed'
  BY TypedNext DEF Kept
<1>2. ASSUME NEW r \in Replicas, NormalStep(r) PROVE Backed' /\ Survival'
  <2>1. PICK m : Becomes(r, m) /\ Keeps(node[r], m, r)
    BY <1>1, <1>2, NormalKeeps DEF Backed
  <2>2. Advances(node[r], m, r)
    BY <1>1, <2>1, TypedAt, KeepsAdvances
  <2>3. node' = [node EXCEPT ![r] = m] /\ newLeaderAcks' = newLeaderAcks /\ syncs' = syncs
    BY <2>1 DEF Becomes
  <2> QED
    BY <1>1, <2>2, <2>3, BackedStep, SurvivalSame
<1>3. ASSUME NEW r \in Replicas, NEW b \in 1..MaxBallot, StartRecovery(r, b) PROVE Backed' /\ Survival'
  <2>1. PICK m : node' = [node EXCEPT ![r] = m] /\ Advances(node[r], m, r)
    BY <1>1, <1>3, StartAdvances
  <2> QED
    BY <1>1, <1>3, <2>1, BackedStep, SurvivalStart
<1>4. ASSUME NEW r \in Replicas, NEW acks \in kSubset(Majority, newLeaderAcks), HandleNewLeaderAcks(r, acks)
      PROVE  Backed' /\ Survival'
  <2>1. PICK m : node' = [node EXCEPT ![r] = m] /\ Advances(node[r], m, r)
    BY <1>1, <1>4, AnswersAdvance
  <2> QED
    BY <1>1, <1>4, <2>1, BackedStep, SurvivalAnswers
<1>5. ASSUME NEW r \in Replicas, NEW s \in syncs, HandleSync(r, s) PROVE Backed' /\ Survival'
  <2>1. PICK m : Becomes(r, m) /\ Advances(node[r], m, r)
    BY <1>1, <1>5, HandleSyncAdvances
  <2>2. node' = [node EXCEPT ![r] = m] /\ newLeaderAcks' = newLeaderAcks /\ syncs' = syncs
    BY <2>1 DEF Becomes
  <2> QED
    BY <1>1, <2>1, <2>2, BackedStep, SurvivalSame
<1>6. CASE UNCHANGED vars
  <2>1. node' = node /\ newLeaderAcks' = newLeaderAcks /\ syncs' = syncs
    BY <1>6 DEF vars
  <2>2. Backed'
    BY <1>1, <2>1 DEF Backed, AcksBacked, AckBacked, AckersAt, Delivered
  <2>3. Survival'
    BY <1>1, <2>1 DEF Survival, Remembered, AcceptedFirst, Delivered, AnswersComplete, AcceptedAt,
                      OffersItself, Offered, SyncsComplete, InSync
  <2> QED
    BY <1>1, <2>2, <2>3 DEF Kept
<1>7. ASSUME NEW r \in Replicas, RecoveryStep(r) PROVE Backed' /\ Survival'
  BY <1>3, <1>4, <1>5, <1>7 DEF RecoveryStep, BeTheLeader, HandleNewLeader
<1>8. Next => Backed' /\ Survival'
  BY <1>2, <1>7 DEF Next
<1> QED
  BY <1>1, <1>6, <1>8 DEF Kept

\* What replicas count of each other's acks has been sent, what they accepted they remember
\* until they leave the ballot, and answers to a new leader and Syncs are complete.
THEOREM KeptAlways == Spec => []Kept
<1>1. Init => Kept
  BY KeptInit
<1>2. Kept /\ [Next]_vars => Kept'
  BY KeptNext
<1> QED
  BY <1>1, <1>2, PTL DEF Spec

LEMMA KeptIsBacked ==
  ASSUME Kept
  PROVE  QuorumBacked
<1> SUFFICES ASSUME NEW r \in Replicas, NEW c \in Delivered(node[r]), ~ IsLeader(node[r], r),
                    ~ (node[r].ballot > 0)
             PROVE  Cardinality(Ackers(c)) >= Majority
  BY DEF QuorumBacked
<1>1. node[r].ballot \in Nat /\ Delivered(node[r]) \subseteq Commands
  <2>1. node[r] \in Node /\ node[r].executed \in Seq(Commands) /\ node[r].ballot \in Nat
    BY TypedAt DEF Node, Path, Kept
  <2>2. \A x \in Seq(Commands) : ToSet(x) \subseteq Commands
    BY DEF ToSet
  <2> QED
    BY <2>1, <2>2 DEF Delivered
<1>2. node[r].ballot = 0 /\ r # 0
  BY <1>1, Group DEF IsLeader
<1>3. AckBacked(node[r], r, c)
  BY <1>1, <1>2 DEF Kept, Backed, AcksBacked
<1>4. Cardinality(AckersAt(node[r], r, c)) >= Majority
  BY <1>2, <1>3 DEF AckBacked
<1>5. AckersAt(node[r], r, c) = Ackers(c)
  BY DEF AckersAt, Ackers
<1> QED
  BY <1>4, <1>5

\* A follower executes a command in the first ballot only when a majority has sent acks of it.
THEOREM SwiftQuorumBacked == Spec => []QuorumBacked
<1>1. Kept => QuorumBacked
  BY KeptIsBacked
<1> QED
  BY <1>1, KeptAlways, PTL

\* The answers a Sync was made of are of a majority of the replicas.
LEMMA AnswersOfMajority ==
  ASSUME Kept, NEW s \in syncs
  PROVE  LET from == {a.from : a \in s.acks}
         IN  from \subseteq Replicas /\ Cardinality(from) = Majority
<1> DEFINE from == {a.from : a \in s.acks}
           f == [a \in s.acks |-> a.from]
<1>1. s.acks \subseteq newLeaderAcks /\ Cardinality(s.acks) = Majority /\ \A a \in s.acks : a.ballot = s.ballot
  BY DEF Kept, Survival, SyncsComplete
<1>2. from \subseteq Replicas
  BY <1>1 DEF Kept, Typed, NewLeaderAck
<1>3. \A a, k \in s.acks : a.from = k.from => a = k
  BY <1>1 DEF Kept, Survival, AnswersComplete
<1>4. f \in Bijection(s.acks, from)
  BY <1>3 DEF Bijection, Injection, Surjection, IsInjective
<1>5. f \in Injection(s.acks, from) /\ f \in Surjection(s.acks, from)
  BY <1>4 DEF Bijection
<1>6. IsFiniteSet(from)
  BY <1>2, Group, FS_Subset
<1> HIDE DEF from, f
<1>7. Cardinality(s.acks) = Cardinality(from)
  BY <1>5, <1>6, FS_Injection
<1> QED
  BY <1>1, <1>2, <1>7 DEF from

LEMMA KeptReports ==
  ASSUME Kept
  PROVE  AcceptedReported
<1> SUFFICES ASSUME NEW s \in syncs, \A a \in s.acks : a.cballot = 0, NEW c \in Commands,
                    Cardinality({r \in Replicas : AcceptedAt(r, c)}) >= Majority
             PROVE  \E a \in s.acks :
                      \/ c \in a.executed
                      \/ /\ OffersItself(a, c)
                         /\ \E e \in s.entries :
                              e.cmd = c /\ (e.noop => \E k \in s.acks : OffersNoop(k, c))
  BY DEF AcceptedReported
<1> DEFINE accepted == {r \in Replicas : AcceptedAt(r, c)}
           from == {a.from : a \in s.acks}
<1>1. from \subseteq Replicas /\ Cardinality(from) = Majority
  BY AnswersOfMajority
<1>2. PICK r \in accepted : r \in from
  <2>1. accepted \subseteq Replicas /\ Cardinality(accepted) >= Majority
    OBVIOUS
  <2> HIDE DEF accepted, from
  <2>2. IsFiniteSet(accepted) /\ Cardinality(accepted) \in Nat
    BY <2>1, Group, FS_Subset, FS_CardinalityType
  <2>3. Majority \in Nat /\ Majority + Majority > N /\ N \in Nat
    BY Group
  <2>4. Cardinality(accepted) + Cardinality(from) > Cardinality(Replicas)
    BY <1>1, <2>1, <2>2, <2>3, Group
  <2>5. accepted \cap from # {}
    BY <1>1, <2>1, <2>4, Group, FS_MajoritiesIntersect
  <2> QED
    BY <2>5
<1>3. PICK a \in s.acks : a.from = r
  BY <1>2
<1>4. a \in newLeaderAcks /\ a.cballot = 0 /\ AcceptedAt(a.from, c)
  BY <1>2, <1>3 DEF Kept, Survival, SyncsComplete
<1>5. c \in a.executed \/ OffersItself(a, c)
  BY <1>4 DEF Kept, Survival, AnswersComplete
<1>6. CASE OffersItself(a, c)
  <2>1. Offered(c, a.entries) # {}
    BY <1>6 DEF OffersItself
  <2>2. PICK e \in s.entries : e.cmd = c
    BY <2>1 DEF Kept, Survival, SyncsComplete, InSync
  <2>3. PICK k \in s.acks : e \in Offered(c, k.entries)
    BY <2>2 DEF Kept, Survival, SyncsComplete
  <2>4. e.noop => OffersNoop(k, c)
    BY <2>3 DEF OffersNoop
  <2> QED
    BY <1>3, <1>6, <2>2, <2>4
<1> QED
  BY <1>3, <1>5, <1>6

\* When a Sync is made of the answers of replicas that worked in no other ballot than the
\* first, a command that a majority has accepted there is among them: an answerer had executed
\* it, or it offers the command, and handleNewLeaderAckNs() puts an entry of its name into the
\* Sync.  That entry is a no-op only when another answerer offered one.
THEOREM SwiftAcceptedReported == Spec => []AcceptedReported
<1>1. Kept => AcceptedReported
  BY KeptReports
<1> QED
  BY <1>1, KeptAlways, PTL


(***************************************************************************)
(* The leader of the first ballot.                                         *)
(***************************************************************************)
LEMMA LeaderNumbers ==
  ASSUME NEW n, Good(n, 0), n.ballot = 0, OrdersAll(n), NEW c \in Commands, c \notin n.proposes
  PROVE  LET m == Numbered(n, c)
             x == n.executed
         IN  /\ Good(m, 0) /\ m.ballot = 0 /\ m.status = "NORMAL"
             /\ m.executed = x /\ m.acked = n.acked /\ m.seqnum = n.seqnum /\ m.replies = n.replies
             /\ m.queued = {} /\ m.again = {} /\ m.noted = {} /\ m.pendingHashUpds = {}
             /\ m.proposes = n.proposes \cup {c}
             /\ m.lastCmd \subseteq m.proposes /\ m.lastWrite \subseteq m.proposes
             /\ m.log.hash = Append(x, c) /\ m.log.syncedHash = <<>> /\ m.log.pending = Append(x, c)
             /\ m.log.nodes = ToSet(x) \cup {c} /\ m.log.pendingUpd = {}
             /\ \A e \in Commands : e # c => m.desc[e] = n.desc[e]
             /\ ~ m.desc[c].propose /\ m.desc[c].phase = "START" /\ m.desc[c].waiting = {}
             /\ m.desc[c].proposeDep \in Deps /\ m.desc[c].proposeDep \subseteq ToSet(x)
             /\ m.desc[c].hs = Append(x, c)
<1> DEFINE m == Numbered(n, c)
           x == n.executed
           k == Conflicts(n, c)
           h == AppendHash(n.log, c)
           d == [n.desc[c] EXCEPT !.proposeDep = k, !.hs = h]
           l == AppendTo(n.log, c)
           w == IF c \in Reads THEN n.lastWrite ELSE {c}
<1>1. n \in Node /\ n.log \in Log /\ n.desc \in [Commands -> Desc] /\ n.status = "NORMAL"
  BY DEF Good, Node, Sane
<1>2. /\ n.log.hash = x /\ n.log.syncedHash = <<>> /\ n.log.pending = x
      /\ n.log.nodes = ToSet(x) /\ n.log.pendingUpd = {} /\ ToSet(x) = n.proposes
      /\ n.queued = {} /\ n.again = {} /\ n.noted = {} /\ n.pendingHashUpds = {}
      /\ n.lastCmd \subseteq n.proposes /\ n.lastWrite \subseteq n.proposes
      /\ Untouched(n.desc[c])
  BY DEF OrdersAll
<1>3. Saved(n.log, c) = {}
  BY <1>2 DEF Saved
<1>4. h = Append(x, c)
  BY <1>2, <1>3 DEF AppendHash
<1>5. /\ l.hash = Append(x, c) /\ l.syncedHash = <<>> /\ l.pending = Append(x, c)
      /\ l.nodes = ToSet(x) \cup {c} /\ l.pendingUpd = {}
  BY <1>1, <1>2, <1>3 DEF AppendTo, Log
<1>6. k \in Deps /\ k \subseteq ToSet(x)
  BY <1>1, <1>2 DEF Conflicts, Node, Deps
<1>7. n.desc[c].proposeDep = Nil /\ ~ n.desc[c].propose /\ n.desc[c].phase = "START" /\ n.desc[c].waiting = {}
  BY <1>2 DEF Untouched
<1>8. ~ d.propose /\ d.phase = "START" /\ d.waiting = {} /\ d.proposeDep = k /\ d.hs = h
  BY <1>1, <1>7 DEF Desc
<1>9. w \subseteq n.proposes \cup {c}
  BY <1>2
<1>10. /\ m.ballot = n.ballot /\ m.status = n.status
       /\ m.executed = x /\ m.acked = n.acked /\ m.seqnum = n.seqnum /\ m.replies = n.replies
       /\ m.queued = n.queued /\ m.again = n.again \ {c} /\ m.noted = n.noted
       /\ m.pendingHashUpds = n.pendingHashUpds /\ m.proposes = n.proposes \cup {c}
       /\ m.lastCmd = {c} /\ m.lastWrite = w /\ m.log = l
       /\ m.desc = [n.desc EXCEPT ![c] = d]
  BY <1>1, <1>7 DEF Numbered, Node
<1>11. Good(m, 0)
  <2>1. 0 \in Replicas
    BY Group
  <2> QED
    BY <2>1, Numbers
<1> HIDE DEF m, d, l, w, h, k
<1>12. m.desc[c] = d /\ \A e \in Commands : e # c => m.desc[e] = n.desc[e]
  BY <1>1, <1>10
<1> QED
  BY <1>1, <1>2, <1>4, <1>5, <1>6, <1>8, <1>9, <1>10, <1>11, <1>12 DEF m

\* The leader executes a proposal that it takes.
Executes(n, m, c) ==
  /\ Good(m, 0) /\ Same(n, m) /\ m.queued = {}
  /\ m.executed = Append(n.executed, c) /\ m.seqnum = n.seqnum + 1
  /\ \E a \in Ack : /\ a.hs = n.desc[c].hs /\ a.seqnum = n.seqnum
                    /\ m.acked = [n.acked EXCEPT ![c] = Append(n.acked[c], a)]
  /\ \E rep : /\ rep.hs = n.desc[c].hs /\ rep.cmd = c
              /\ m.replies = n.replies \cup {rep}
  /\ \A e \in Commands : e # c => m.desc[e] = n.desc[e]

LEMMA EntryPreAccepted ==
  ASSUME NEW n \in Node, NEW c \in Commands
  PROVE  [n EXCEPT !.desc = [n.desc EXCEPT ![c] =
                      [n.desc[c] EXCEPT !.propose = TRUE, !.noop = FALSE, !.phase = "PRE_ACCEPT", !.dep = n.desc[c].proposeDep]]]
         = [n EXCEPT !.desc[c].propose = TRUE, !.desc[c].noop = FALSE, !.desc[c].phase = "PRE_ACCEPT",
                     !.desc[c].dep = n.desc[c].proposeDep]
<1> DEFINE d == [n.desc[c] EXCEPT !.propose = TRUE, !.noop = FALSE, !.phase = "PRE_ACCEPT", !.dep = n.desc[c].proposeDep]
           m == [n EXCEPT !.desc = [n.desc EXCEPT ![c] = d]]
<1>1. n.desc \in [Commands -> Desc] /\ n.desc[c] \in Desc
  BY DEF Node
<1>2. m = [n EXCEPT !.desc[c].propose = TRUE, !.desc[c].noop = FALSE, !.desc[c].phase = "PRE_ACCEPT",
                    !.desc[c].dep = n.desc[c].proposeDep]
  <2> HIDE DEF d
  <2> QED
    BY <1>1 DEF Node, Desc, d
<1> QED
  BY <1>2

LEMMA LeaderProposes ==
  ASSUME NEW n, Good(n, 0), n.ballot = 0, n.queued = {}, NEW c \in Commands, c \in n.proposes,
         c \notin Delivered(n), ~ n.desc[c].propose, n.desc[c].waiting = {},
         n.desc[c].proposeDep \in Deps, n.desc[c].proposeDep \subseteq Delivered(n), NEW merge \in BOOLEAN
  PROVE  Executes(n, HandlePropose(n, 0, c, merge), c)
<1> DEFINE q == n.queued \ {c}
           n2 == [n EXCEPT !.queued = q]
           d == [n.desc[c] EXCEPT !.propose = TRUE, !.noop = FALSE, !.phase = "PRE_ACCEPT", !.dep = n.desc[c].proposeDep]
           n3 == [n EXCEPT !.queued = q, !.desc = [n.desc EXCEPT ![c] = d]]
           a == OwnAck(n3, 0, c)
           n5 == [Send(n3, c, a) EXCEPT !.seqnum = @ + 1]
           n6 == Deliver(n5, 0, c)
           m == HandlePropose(n, 0, c, merge)
<1>1. n \in Node /\ n.desc \in [Commands -> Desc] /\ n.status = "NORMAL" /\ 0 \in Replicas /\ Leader(0) = 0
      /\ n.desc[c] \in Desc /\ n.acked \in [Commands -> Seq(Ack)] /\ n.seqnum \in Nat
  BY Group DEF Good, Node, Sane
<1>2. Good(m, 0) /\ After(n, m, 0)
  <2>1. n.desc[c].proposeDep # Nil
    BY DEF Deps
  <2> HIDE DEF m
  <2>2. Good(HandlePropose(n, 0, c, merge), 0) /\ After(n, HandlePropose(n, 0, c, merge), 0)
    BY <1>1, <2>1, HandlesPropose
  <2> QED
    BY <2>2 DEF m
<1>3. d \in Desc /\ d.propose /\ d.waiting = {} /\ d.dep = n.desc[c].proposeDep /\ d.hs = n.desc[c].hs
      /\ [d EXCEPT !.waiting = {}] = d
  BY <1>1 DEF Desc, Phases
<1>4. /\ n2 \in Node /\ n2.desc = n.desc /\ n2.status = n.status /\ n2.ballot = 0
  BY <1>1 DEF Node, Deps
<1>5. [n2 EXCEPT !.desc[c].propose = TRUE, !.desc[c].noop = FALSE, !.desc[c].phase = "PRE_ACCEPT",
                 !.desc[c].dep = n2.desc[c].proposeDep] = n3
  <2> DEFINE D == [n.desc EXCEPT ![c] = d]
  <2> HIDE DEF n2
  <2>1. [n2 EXCEPT !.desc[c].propose = TRUE, !.desc[c].noop = FALSE, !.desc[c].phase = "PRE_ACCEPT",
                   !.desc[c].dep = n2.desc[c].proposeDep] = [n2 EXCEPT !.desc = D]
    <3>1. [n2 EXCEPT !.desc = [n2.desc EXCEPT ![c] =
                      [n2.desc[c] EXCEPT !.propose = TRUE, !.noop = FALSE, !.phase = "PRE_ACCEPT", !.dep = n2.desc[c].proposeDep]]]
          = [n2 EXCEPT !.desc[c].propose = TRUE, !.desc[c].noop = FALSE, !.desc[c].phase = "PRE_ACCEPT",
                       !.desc[c].dep = n2.desc[c].proposeDep]
      BY <1>4, EntryPreAccepted
    <3> QED
      BY <1>4, <3>1
  <2> HIDE DEF D, d
  <2>2. [n2 EXCEPT !.desc = D] = [n EXCEPT !.queued = q, !.desc = D]
    BY <1>1 DEF n2, Node
  <2> QED
    BY <2>1, <2>2 DEF D
<1>6. [n3 EXCEPT !.desc[c].waiting = {}] = n3
  <2> DEFINE D == [n.desc EXCEPT ![c] = d]
  <2>1. D \in [Commands -> Desc] /\ D[c] = d
    BY <1>1, <1>3
  <2>2. [D EXCEPT ![c] = [d EXCEPT !.waiting = {}]] = D
    BY <1>3, <2>1
  <2> HIDE DEF D, d
  <2>3. n3 = [n EXCEPT !.queued = q, !.desc = D]
    BY DEF D
  <2> HIDE DEF n3, q
  <2>4. n3.desc = D
    BY <1>1, <2>3 DEF Node
  <2>5. [n3 EXCEPT !.desc[c].waiting = {}] = [n3 EXCEPT !.desc = [D EXCEPT ![c] = [d EXCEPT !.waiting = {}]]]
    BY <2>1, <2>4
  <2> QED
    BY <1>1, <2>2, <2>3, <2>5 DEF Node
<1> HIDE DEF d
<1>7. /\ n3 \in Node /\ n3.desc = [n.desc EXCEPT ![c] = d] /\ n3.desc[c] = d /\ n3.ballot = 0
      /\ n3.executed = n.executed /\ n3.acked = n.acked /\ n3.seqnum = n.seqnum /\ n3.replies = n.replies
      /\ n3.status = "NORMAL" /\ n3.queued = {}
  BY <1>1, <1>3 DEF Node, Deps
<1>8. 0 \in AQ(0)
  BY <1>1, QuorumOfBallot
<1>9. m = AfterRecall(Recall(n3, 0, c, merge), 0, c, FALSE, merge)
  <2>1. m = Proposed(n2, 0, c, merge)
    BY DEF HandlePropose
  <2>2. n2.desc[c].waiting = {} /\ ~ n2.desc[c].propose
    BY <1>4
  <2> HIDE DEF n2, n3, m
  <2> QED
    BY <1>1, <1>4, <1>5, <1>8, <2>1, <2>2 DEF Proposed
<1>10. Recall(n3, 0, c, merge) = n3
  <2> HIDE DEF n3
  <2> QED
    BY <1>3, <1>6, <1>7 DEF Recall
<1> HIDE DEF n3, m
<1>11. IsLeader(n3, 0) /\ c \notin Delivered(n3)
  BY <1>1, <1>7 DEF IsLeader, Delivered
<1>12. m = LeaderPropose(n6, 0, c, a, merge)
  BY <1>9, <1>10, <1>11 DEF AfterRecall, PreAccepted
<1>13. a \in Ack /\ a.hs = n.desc[c].hs /\ a.seqnum = n.seqnum
  <2>1. a \in Ack
    BY <1>1, <1>7, OwnAckTyped
  <2>2. a = FastAck(n3, c, n3.seqnum)
    BY <1>11 DEF OwnAck
  <2> QED
    BY <1>3, <1>7, <2>1, <2>2 DEF FastAck
<1> HIDE DEF a
<1>14. /\ n5 \in Node /\ n5.desc = n3.desc /\ n5.executed = n.executed /\ n5.ballot = 0
       /\ n5.acked = [n.acked EXCEPT ![c] = Append(n.acked[c], a)] /\ n5.seqnum = n.seqnum + 1
       /\ n5.replies = n.replies /\ n5.queued = {}
  <2> DEFINE A == [n.acked EXCEPT ![c] = Append(n.acked[c], a)]
             s == n.seqnum + 1
  <2>1. A \in [Commands -> Seq(Ack)] /\ s \in Nat
    BY <1>1, <1>13
  <2>2. n5 = [n3 EXCEPT !.acked = A, !.seqnum = s]
    BY <1>7 DEF Send, Node
  <2> HIDE DEF A, s
  <2>3. [n3 EXCEPT !.acked = A, !.seqnum = s] \in Node
    BY <1>7, <2>1 DEF Node
  <2> QED
    BY <1>7, <2>2, <2>3 DEF Node, A, s
<1> HIDE DEF n5
<1>15. /\ n6.executed = Append(n5.executed, c) /\ n6.acked = n5.acked /\ n6.seqnum = n5.seqnum
       /\ n6.replies = n5.replies \cup {Reply(n5, c, "result")}
       /\ \A e \in Commands : e # c => n6.desc[e] = n5.desc[e]
       /\ c \in Delivered(n6)
  <2>1. Deliverable(n5, 0, c)
    BY <1>1, <1>3, <1>7, <1>14 DEF Deliverable, IsLeader, Delivered
  <2>2. IsLeader(n5, 0)
    BY <1>1, <1>14 DEF IsLeader
  <2>3. /\ n6.executed = Append(n5.executed, c) /\ n6.acked = n5.acked /\ n6.seqnum = n5.seqnum
        /\ n6.replies = n5.replies \cup {Reply(n5, c, "result")}
        /\ \A e \in Commands : e # c => n6.desc[e] = n5.desc[e]
    BY <1>14, <2>1, <2>2 DEF Deliver, Node
  <2>4. n5.executed \in Seq(Commands)
    BY <1>14 DEF Node, Path
  <2>5. ToSet(Append(n5.executed, c)) = ToSet(n5.executed) \cup {c}
    BY <2>4, Appended
  <2>6. c \in Delivered(n6)
    BY <2>3, <2>5 DEF Delivered
  <2> QED
    BY <2>3, <2>6
<1>16. Reply(n5, c, "result").hs = n.desc[c].hs /\ Reply(n5, c, "result").cmd = c
  BY <1>3, <1>7, <1>14 DEF Reply
<1> HIDE DEF n6
<1>17. m = n6
  BY <1>12, <1>15 DEF LeaderPropose
<1>18. \A e \in Commands : e # c => n6.desc[e] = n.desc[e]
  BY <1>1, <1>7, <1>14, <1>15
<1>19. Same(n, m) /\ m.queued = {}
  BY <1>2 DEF After
<1> QED
  BY <1>2, <1>13, <1>14, <1>15, <1>16, <1>17, <1>18, <1>19 DEF m, Executes

\* The beginnings of a longer sequence.
LEMMA Beginnings ==
  ASSUME NEW S, NEW x \in Seq(S), NEW c \in S
  PROVE  LET y == Append(x, c)
         IN  /\ y \in Seq(S) /\ Len(y) = Len(x) + 1 /\ y[Len(x) + 1] = c /\ Len(x) \in Nat
             /\ \A i \in 1 .. Len(x) : y[i] = x[i] /\ SubSeq(y, 1, i) = SubSeq(x, 1, i)
             /\ SubSeq(y, 1, Len(x) + 1) = y
<1> DEFINE y == Append(x, c)
<1>1. y \in Seq(S) /\ Len(y) = Len(x) + 1 /\ y[Len(x) + 1] = c /\ Len(x) \in Nat
      /\ \A i \in 1 .. Len(x) : y[i] = x[i]
  OBVIOUS
<1> HIDE DEF y
<1>2. ASSUME NEW i \in 1 .. Len(x) PROVE SubSeq(y, 1, i) = SubSeq(x, 1, i)
  <2>1. SubSeq(y, 1, i) \in Seq(S) /\ SubSeq(x, 1, i) \in Seq(S)
        /\ Len(SubSeq(y, 1, i)) = i /\ Len(SubSeq(x, 1, i)) = i
    BY <1>1
  <2>2. \A j \in 1 .. i : SubSeq(y, 1, i)[j] = SubSeq(x, 1, i)[j]
    BY <1>1
  <2> QED
    BY <2>1, <2>2
<1>3. SubSeq(y, 1, Len(x) + 1) = y
  <2>1. SubSeq(y, 1, Len(x) + 1) \in Seq(S) /\ Len(SubSeq(y, 1, Len(x) + 1)) = Len(x) + 1
    BY <1>1
  <2>2. \A j \in 1 .. Len(x) + 1 : SubSeq(y, 1, Len(x) + 1)[j] = y[j]
    BY <1>1
  <2> QED
    BY <1>1, <2>1, <2>2
<1> QED
  BY <1>1, <1>2, <1>3 DEF y

LEMMA LeaderTakes ==
  ASSUME NEW n, Good(n, 0), n.ballot = 0, OrdersAll(n), NEW c \in Commands, c \notin n.proposes,
         NEW merge \in BOOLEAN
  PROVE  LET m == Taken(n, 0, c, merge)
         IN  OrdersAll(m) /\ m.executed = Append(n.executed, c)
<1> DEFINE x == n.executed
           n1 == Numbered(n, c)
           m == HandlePropose(n1, 0, c, merge)
           y == Append(x, c)
<1>1. /\ Good(n1, 0) /\ n1.ballot = 0 /\ n1.status = "NORMAL"
      /\ n1.executed = x /\ n1.acked = n.acked /\ n1.seqnum = n.seqnum /\ n1.replies = n.replies
      /\ n1.queued = {} /\ n1.again = {} /\ n1.noted = {} /\ n1.pendingHashUpds = {}
      /\ n1.proposes = n.proposes \cup {c}
      /\ n1.lastCmd \subseteq n1.proposes /\ n1.lastWrite \subseteq n1.proposes
      /\ n1.log.hash = Append(x, c) /\ n1.log.syncedHash = <<>> /\ n1.log.pending = Append(x, c)
      /\ n1.log.nodes = ToSet(x) \cup {c} /\ n1.log.pendingUpd = {}
      /\ \A e \in Commands : e # c => n1.desc[e] = n.desc[e]
      /\ ~ n1.desc[c].propose /\ n1.desc[c].phase = "START" /\ n1.desc[c].waiting = {}
      /\ n1.desc[c].proposeDep \in Deps /\ n1.desc[c].proposeDep \subseteq ToSet(x)
      /\ n1.desc[c].hs = Append(x, c)
  BY LeaderNumbers
<1> HIDE DEF n1
<1>2. /\ ToSet(x) = n.proposes /\ n.seqnum = Len(x)
      /\ \A e \in Commands \ n.proposes : n.acked[e] = <<>> /\ Untouched(n.desc[e])
      /\ \A i \in 1..Len(x) :
             /\ Len(n.acked[x[i]]) = 1
             /\ n.acked[x[i]][1].seqnum = i - 1 /\ n.acked[x[i]][1].hs = SubSeq(x, 1, i)
      /\ \A rep \in n.replies : \E i \in 1..Len(x) : rep.hs = SubSeq(x, 1, i) /\ rep.cmd = x[i]
  BY DEF OrdersAll
<1>3. x \in Seq(Commands) /\ n.acked \in [Commands -> Seq(Ack)]
  BY DEF Good, Node, Path
<1>4. Delivered(n1) = ToSet(x) /\ c \notin Delivered(n1) /\ c \in n1.proposes
  BY <1>1, <1>2 DEF Delivered
<1>5. IsLeader(n1, 0)
  BY <1>1, Group DEF IsLeader
<1>6. Taken(n, 0, c, merge) = m
  <2>1. Hashed(n1, 0, c) = n1
    BY <1>5 DEF Hashed
  <2> QED
    BY <1>1, <1>4, <1>5, <2>1 DEF Taken, HandedOver, n1
<1>7. /\ Good(m, 0) /\ Same(n1, m) /\ m.queued = {}
      /\ m.executed = Append(n1.executed, c) /\ m.seqnum = n1.seqnum + 1
      /\ \E a \in Ack : /\ a.hs = n1.desc[c].hs /\ a.seqnum = n1.seqnum
                        /\ m.acked = [n1.acked EXCEPT ![c] = Append(n1.acked[c], a)]
      /\ \E rep : /\ rep.hs = n1.desc[c].hs /\ rep.cmd = c
                  /\ m.replies = n1.replies \cup {rep}
      /\ \A e \in Commands : e # c => m.desc[e] = n1.desc[e]
  <2>1. ~ n1.desc[c].propose
    BY <1>1
  <2>2. n1.desc[c].proposeDep \subseteq Delivered(n1)
    BY <1>1, <1>4
  <2>3. Good(n1, 0) /\ n1.ballot = 0 /\ n1.queued = {} /\ n1.desc[c].waiting = {} /\ n1.desc[c].proposeDep \in Deps
    BY <1>1
  <2> HIDE DEF m
  <2>4. Executes(n1, HandlePropose(n1, 0, c, merge), c)
    BY <1>4, <2>1, <2>2, <2>3, LeaderProposes
  <2> QED
    BY <2>4 DEF m, Executes
<1> HIDE DEF m
<1>8. PICK a \in Ack : /\ a.hs = y /\ a.seqnum = Len(x)
                       /\ m.acked = [n.acked EXCEPT ![c] = Append(n.acked[c], a)]
  <2>1. PICK a \in Ack : /\ a.hs = n1.desc[c].hs /\ a.seqnum = n1.seqnum
                         /\ m.acked = [n1.acked EXCEPT ![c] = Append(n1.acked[c], a)]
    BY <1>7
  <2>2. n1.desc[c].hs = y /\ n1.seqnum = Len(x) /\ n1.acked = n.acked
    BY <1>1, <1>2
  <2> HIDE DEF y, x
  <2> QED
    BY <2>1, <2>2
<1>9. PICK rep : rep.hs = y /\ rep.cmd = c /\ m.replies = n.replies \cup {rep}
  <2>1. n1.desc[c].hs = y /\ n1.replies = n.replies
    BY <1>1
  <2> HIDE DEF y, x
  <2> QED
    BY <1>7, <2>1
<1>10. /\ y \in Seq(Commands) /\ Len(y) = Len(x) + 1 /\ y[Len(x) + 1] = c /\ Len(x) \in Nat
       /\ \A i \in 1 .. Len(x) : y[i] = x[i] /\ SubSeq(y, 1, i) = SubSeq(x, 1, i)
       /\ SubSeq(y, 1, Len(x) + 1) = y
  BY <1>3, Beginnings
<1>11. ToSet(y) = ToSet(x) \cup {c}
  BY <1>3, Appended
<1>12. m.executed = y /\ m.proposes = n1.proposes /\ m.log = n1.log /\ m.again = n1.again /\ m.noted = n1.noted
       /\ m.pendingHashUpds = n1.pendingHashUpds /\ m.lastCmd = n1.lastCmd /\ m.lastWrite = n1.lastWrite
  BY <1>1, <1>7 DEF Same
<1> HIDE DEF y
<1>13. \A e \in Commands \ m.proposes : m.acked[e] = <<>> /\ Untouched(m.desc[e])
  BY <1>1, <1>2, <1>3, <1>7, <1>8, <1>12
<1>14. Append(n.acked[c], a) = <<a>>
  <2>1. n.acked[c] = <<>>
    BY <1>2
  <2> QED
    BY <2>1
<1>15. \A i \in 1 .. Len(y) : Len(m.acked[y[i]]) = 1
                              /\ m.acked[y[i]][1].seqnum = i - 1 /\ m.acked[y[i]][1].hs = SubSeq(y, 1, i)
  <2> SUFFICES ASSUME NEW i \in 1 .. Len(y)
               PROVE  Len(m.acked[y[i]]) = 1
                      /\ m.acked[y[i]][1].seqnum = i - 1 /\ m.acked[y[i]][1].hs = SubSeq(y, 1, i)
    OBVIOUS
  <2>1. CASE i \in 1 .. Len(x)
    <3>1. x[i] \in ToSet(x) /\ x[i] \in Commands
      BY <1>3, <2>1 DEF ToSet
    <3>2. x[i] # c
      BY <1>2, <3>1
    <3>3. m.acked[y[i]] = n.acked[x[i]]
      BY <1>3, <1>8, <1>10, <2>1, <3>1, <3>2
    <3> QED
      BY <1>2, <1>10, <2>1, <3>3
  <2>2. CASE i = Len(x) + 1
    <3>1. m.acked[y[i]] = <<a>>
      BY <1>3, <1>8, <1>10, <1>14, <2>2
    <3>2. Len(<<a>>) = 1 /\ <<a>>[1] = a
      OBVIOUS
    <3>3. a.seqnum = i - 1 /\ a.hs = SubSeq(y, 1, i)
      BY <1>8, <1>10, <2>2
    <3> QED
      BY <3>1, <3>2, <3>3
  <2> QED
    BY <1>10, <2>1, <2>2
<1>16. \A p \in m.replies : \E i \in 1 .. Len(y) : p.hs = SubSeq(y, 1, i) /\ p.cmd = y[i]
  <2>1. 1 .. Len(x) \subseteq 1 .. Len(y) /\ Len(x) + 1 \in 1 .. Len(y)
    BY <1>10
  <2>2. ASSUME NEW p \in n.replies PROVE \E i \in 1 .. Len(y) : p.hs = SubSeq(y, 1, i) /\ p.cmd = y[i]
    <3>1. PICK i \in 1 .. Len(x) : p.hs = SubSeq(x, 1, i) /\ p.cmd = x[i]
      BY <1>2
    <3> QED
      BY <1>10, <2>1, <3>1
  <2>3. rep.hs = SubSeq(y, 1, Len(x) + 1) /\ rep.cmd = y[Len(x) + 1]
    BY <1>9, <1>10
  <2> QED
    BY <1>9, <2>1, <2>2, <2>3
<1>17. m.seqnum = Len(y)
  BY <1>1, <1>2, <1>7, <1>10
<1>18. m.log.hash = y /\ m.log.syncedHash = <<>> /\ m.log.pending = y /\ m.log.nodes = ToSet(y) /\ m.log.pendingUpd = {}
  BY <1>1, <1>11, <1>12 DEF y
<1>19. ToSet(y) = m.proposes
  BY <1>1, <1>2, <1>11, <1>12
<1>20. OrdersAll(m)
  <2>1. m.queued = {} /\ m.again = {} /\ m.noted = {} /\ m.pendingHashUpds = {}
    BY <1>1, <1>7, <1>12
  <2>2. m.lastCmd \subseteq m.proposes /\ m.lastWrite \subseteq m.proposes
    BY <1>1, <1>12
  <2>3. m.executed = y
    BY <1>12
  <2> HIDE DEF x
  <2> QED
    BY <1>13, <1>15, <1>16, <1>17, <1>18, <1>19, <2>1, <2>2, <2>3 DEF OrdersAll
<1> QED
  BY <1>6, <1>12, <1>20 DEF y

\* Acks of other replicas come before the proposal, or after the command was executed.
LEMMA OrdersAlike ==
  ASSUME NEW n, NEW m, OrdersAll(n), m.executed = n.executed, m.log = n.log, m.proposes = n.proposes,
         m.seqnum = n.seqnum, m.queued = n.queued, m.again = n.again, m.noted = n.noted,
         m.pendingHashUpds = n.pendingHashUpds, m.lastCmd = n.lastCmd, m.lastWrite = n.lastWrite,
         m.acked = n.acked, m.replies = n.replies,
         \A c \in Commands \ n.proposes : Untouched(m.desc[c])
  PROVE  OrdersAll(m)
  BY DEF OrdersAll

LEMMA LeaderAdds ==
  ASSUME NEW n, Good(n, 0), n.ballot = 0, OrdersAll(n), NEW c \in Commands, NEW path \in {"slow", "fast"},
         NEW from \in Replicas, from # 0, NEW dep \in {Nil} \cup Deps
  PROVE  LET m == AddAck(n, 0, c, path, from, dep)
         IN  OrdersAll(m) /\ m.executed = n.executed /\ Good(m, 0) /\ m.ballot = 0
<1> DEFINE old == n.desc[c].acks[path]
           ms == Added(old, from, FALSE, dep)
           D == [n.desc EXCEPT ![c] = [n.desc[c] EXCEPT !.acks = [n.desc[c].acks EXCEPT ![path] = ms]]]
           n1 == [n EXCEPT !.desc = D]
           m == AddAck(n, 0, c, path, from, dep)
<1>1. n \in Node /\ n.desc \in [Commands -> Desc] /\ 0 \in Replicas /\ Leader(0) = 0
  BY Group DEF Good, Node
<1>2. Good(m, 0) /\ m.ballot = 0
  <2>1. Good(m, 0) /\ After(n, m, 0)
    BY <1>1, Adds
  <2> QED
    BY <2>1 DEF After, Same
<1>3. CASE c \in Delivered(n) \/ Ignores(old, QuorumFor(n, path), from)
  <2>1. m = n
    BY <1>3 DEF AddAck
  <2> QED
    BY <1>2, <2>1
<1>4. CASE ~ (c \in Delivered(n) \/ Ignores(old, QuorumFor(n, path), from))
  <2>1. c \notin n.proposes
    BY <1>4 DEF OrdersAll, Delivered
  <2>2. Untouched(n.desc[c])
    BY <2>1 DEF OrdersAll
  <2>3. old.leader = <<>> /\ old \in MsgSet
    BY <1>1, <2>2 DEF Untouched, Desc
  <2>4. ms.leader = <<>>
    BY <2>3 DEF Added, MsgSet
  <2>5. (from = Leader(n.ballot)) = FALSE
    BY <1>1
  <2>6. [n EXCEPT !.desc[c].acks[path] = Added(@, from, from = Leader(n.ballot), dep)] = n1
    BY <1>1, <2>5 DEF Node, Desc
  <2> HIDE DEF ms
  <2>7. D[c].acks[path] = ms /\ Untouched(D[c]) /\ \A e \in Commands : e # c => D[e] = n.desc[e]
    BY <1>1, <2>2, <2>4 DEF Desc, Untouched
  <2> HIDE DEF D
  <2>8. n1.desc = D /\ n1.executed = n.executed /\ n1.log = n.log /\ n1.proposes = n.proposes
        /\ n1.seqnum = n.seqnum /\ n1.queued = n.queued /\ n1.again = n.again /\ n1.noted = n.noted
        /\ n1.pendingHashUpds = n.pendingHashUpds /\ n1.lastCmd = n.lastCmd /\ n1.lastWrite = n.lastWrite
        /\ n1.acked = n.acked /\ n1.replies = n.replies
    BY <1>1 DEF Node
  <2> HIDE DEF n1
  <2>9. ~ Complete(n1.desc[c].acks[path], QuorumFor(n1, path))
    BY <2>4, <2>7, <2>8 DEF Complete
  <2>10. m = n1
    BY <1>4, <2>6, <2>9 DEF AddAck, AfterAck
  <2>11. \A e \in Commands \ n.proposes : Untouched(n1.desc[e])
    BY <2>7, <2>8 DEF OrdersAll
  <2>12. OrdersAll(n1)
    BY <2>8, <2>11, OrdersAlike
  <2> HIDE DEF m
  <2> QED
    BY <1>2, <2>8, <2>10, <2>12 DEF m
<1> QED
  BY <1>3, <1>4

LEMMA LeaderCommon ==
  ASSUME NEW n, Good(n, 0), n.ballot = 0, OrdersAll(n), NEW c \in Commands,
         NEW from \in Replicas, from # 0, NEW a \in Ack
  PROVE  LET m == CommonCaseFastAck(n, 0, c, from, a)
         IN  OrdersAll(m) /\ m.executed = n.executed
<1> DEFINE n1 == AddAck(n, 0, c, "slow", from, Nil)
           n2 == IF a.dep # Nil THEN n ELSE n1
           m == CommonCaseFastAck(n, 0, c, from, a)
<1>1. "slow" \in {"slow", "fast"} /\ "fast" \in {"slow", "fast"} /\ Nil \in {Nil} \cup Deps /\ a.dep \in {Nil} \cup Deps
  BY DEF Ack
<1>2. OrdersAll(n1) /\ n1.executed = n.executed /\ Good(n1, 0) /\ n1.ballot = 0
  BY <1>1, LeaderAdds
<1> HIDE DEF n1
<1>3. OrdersAll(n2) /\ n2.executed = n.executed /\ Good(n2, 0) /\ n2.ballot = 0
  BY <1>2
<1> HIDE DEF n2
<1>4. OrdersAll(AddAck(n2, 0, c, "fast", from, a.dep)) /\ AddAck(n2, 0, c, "fast", from, a.dep).executed = n2.executed
  BY <1>1, <1>3, LeaderAdds
<1>5. m = n \/ m = AddAck(n2, 0, c, "fast", from, a.dep)
  BY DEF CommonCaseFastAck, n2, n1
<1> HIDE DEF m
<1> QED
  BY <1>3, <1>4, <1>5 DEF m

\* One more ack of s for c has been handled.
Hearing(n, s, c, q) ==
  [n EXCEPT !.noted = q, !.heard = [n.heard EXCEPT ![s] = [n.heard[s] EXCEPT ![c] = n.heard[s][c] + 1]]]

LEMMA Hears ==
  ASSUME Typed, NEW r \in Replicas, NEW s \in Replicas, NEW c \in Commands, HasNext(r, s, c),
         NEW q \in Deps, q \subseteq node[r].noted, c \notin q \/ s # Leader(node[r].ballot)
  PROVE  LET n == node[r]
             m == Hearing(n, s, c, q)
         IN  Good(m, r) /\ m.ballot = n.ballot
<1>1. LET n == node[r]
          m == [n EXCEPT !.noted = q, !.heard = [n.heard EXCEPT ![s] = [n.heard[s] EXCEPT ![c] = n.heard[s][c] + 1]]]
      IN  /\ Good(m, r) /\ m.ballot = n.ballot /\ m.acked = n.acked /\ m.desc = n.desc /\ m.status = n.status
          /\ m.executed = n.executed /\ m.cballot = n.cballot /\ m.noted = q
          /\ \A e \in Replicas, d \in Commands :
               m.heard[e][d] # Nil => m.heard[e][d] <= Len(node[e].acked[d])
          /\ \A d \in m.noted :
               LET e == Leader(m.ballot)
               IN  r # e /\ m.heard[e][d] # Nil /\ m.heard[e][d] < Len(node[e].acked[d])
  BY HeardMore
<1> QED
  BY <1>1 DEF Hearing

\* A step of the leader appends a command to its history, or leaves it as it was.
LeadsTo(n, m) ==
  /\ OrdersAll(m)
  /\ m.executed = n.executed \/ \E c \in Commands : m.executed = Append(n.executed, c)

LEMMA LeaderSteps ==
  ASSUME Typed, node[0].ballot = 0, OrdersAll(node[0]), NormalStep(0)
  PROVE  \E m : Becomes(0, m) /\ LeadsTo(node[0], m)
<1> DEFINE n == node[0]
<1>1. 0 \in Replicas /\ Leader(0) = 0
  BY Group
<1>2. Good(n, 0) /\ n \in Node /\ n.heard \in [Replicas -> [Commands -> {Nil} \cup Nat]]
      /\ n.noted = {} /\ n.queued = {} /\ n.again = {} /\ n.noted \in Deps
  BY <1>1, TypedAt DEF Node, OrdersAll
<1>3. ASSUME NEW c \in Commands, TakeProposal(0, c)
      PROVE  \E m : Becomes(0, m) /\ LeadsTo(node[0], m)
  <2>1. PICK merge \in Merges(0, c) : Becomes(0, Taken(n, 0, c, merge))
    BY <1>3 DEF TakeProposal
  <2>2. merge \in BOOLEAN /\ c \notin n.proposes
    BY <1>2, <1>3 DEF TakeProposal, Merges
  <2>3. OrdersAll(Taken(n, 0, c, merge)) /\ Taken(n, 0, c, merge).executed = Append(n.executed, c)
    BY <1>2, <2>2, LeaderTakes
  <2> QED
    BY <2>1, <2>3 DEF LeadsTo
<1>4. ASSUME NEW c \in Commands, NEW s \in Replicas, HandleAck(0, s, c)
      PROVE  \E m : Becomes(0, m) /\ LeadsTo(node[0], m)
  <2> DEFINE a == NextOf(0, s, c)
             q == n.noted
             h == Hearing(n, s, c, q)
             k == CommonCaseFastAck(h, 0, c, s, a)
  <2>1. q \in Deps /\ q \subseteq node[0].noted /\ s # Leader(node[0].ballot) /\ HasNext(0, s, c) /\ s # 0
    BY <1>2, <1>4 DEF HandleAck
  <2>2. a \in Ack
    BY <1>1, <2>1, NextTyped
  <2>3. [n EXCEPT !.heard[s][c] = @ + 1] = h
    BY <1>2 DEF Node, Hearing
  <2>4. Becomes(0, k)
    BY <1>4, <2>3 DEF HandleAck
  <2>5. Good(h, 0) /\ h.ballot = n.ballot
    <3> HIDE DEF q
    <3> QED
      BY <1>1, <2>1, Hears
  <2>6. h.executed = n.executed /\ h.log = n.log /\ h.proposes = n.proposes /\ h.seqnum = n.seqnum
        /\ h.queued = n.queued /\ h.again = n.again /\ h.noted = n.noted /\ h.desc = n.desc
        /\ h.pendingHashUpds = n.pendingHashUpds /\ h.lastCmd = n.lastCmd /\ h.lastWrite = n.lastWrite
        /\ h.acked = n.acked /\ h.replies = n.replies
    BY <1>2 DEF Node, Hearing
  <2> HIDE DEF h, a
  <2>7. \A e \in Commands \ n.proposes : Untouched(h.desc[e])
    BY <2>6 DEF OrdersAll
  <2>8. OrdersAll(h)
    BY <2>6, <2>7, OrdersAlike
  <2>9. OrdersAll(k) /\ k.executed = h.executed
    BY <2>1, <2>2, <2>5, <2>8, LeaderCommon
  <2> HIDE DEF k
  <2> QED
    BY <2>4, <2>6, <2>9 DEF LeadsTo
<1>5. ASSUME NEW c \in Commands, Wake(0, c)
      PROVE  \E m : Becomes(0, m) /\ LeadsTo(node[0], m)
  <2> DEFINE u == n.unwoken \ {c}
             d == n.deliverChan \cup n.desc[c].successors
             m == Waking(n, u, d)
  <2>1. u \in Deps /\ d \in Deps
    BY <1>2 DEF Node, Desc, Deps
  <2>2. Becomes(0, m)
    BY <1>5 DEF Wake, Waking
  <2> HIDE DEF u, d
  <2>3. /\ m.executed = n.executed /\ m.log = n.log /\ m.proposes = n.proposes /\ m.seqnum = n.seqnum
        /\ m.queued = n.queued /\ m.again = n.again /\ m.desc = n.desc
        /\ m.pendingHashUpds = n.pendingHashUpds /\ m.lastCmd = n.lastCmd /\ m.lastWrite = n.lastWrite
        /\ m.acked = n.acked /\ m.replies = n.replies /\ m.noted = n.noted
    BY <1>2 DEF Node, Waking
  <2> HIDE DEF m
  <2>4. \A e \in Commands \ n.proposes : Untouched(m.desc[e])
    BY <2>3 DEF OrdersAll
  <2>5. OrdersAll(m)
    BY <2>3, <2>4, OrdersAlike
  <2> QED
    BY <2>2, <2>3, <2>5 DEF LeadsTo
<1>6. ASSUME NEW c \in Commands, DeliverNext(0, c)
      PROVE  \E m : Becomes(0, m) /\ LeadsTo(node[0], m)
  <2> DEFINE d == n.deliverChan \ {c}
             u == n.unwoken
             m == Waking(n, u, d)
  <2>1. u \in Deps /\ d \in Deps
    BY <1>2 DEF Node, Deps
  <2>2. Becomes(0, Deliver(m, 0, c))
    <3>1. m = [n EXCEPT !.deliverChan = d]
      BY <1>2 DEF Node, Waking
    <3> QED
      BY <1>6, <3>1 DEF DeliverNext
  <2> HIDE DEF u, d
  <2>3. /\ m.executed = n.executed /\ m.log = n.log /\ m.proposes = n.proposes /\ m.seqnum = n.seqnum
        /\ m.queued = n.queued /\ m.again = n.again /\ m.desc = n.desc
        /\ m.pendingHashUpds = n.pendingHashUpds /\ m.lastCmd = n.lastCmd /\ m.lastWrite = n.lastWrite
        /\ m.acked = n.acked /\ m.replies = n.replies /\ m.noted = n.noted
    BY <1>2 DEF Node, Waking
  <2> HIDE DEF m
  <2>4. \A e \in Commands \ n.proposes : Untouched(m.desc[e])
    BY <2>3 DEF OrdersAll
  <2>5. OrdersAll(m)
    BY <2>3, <2>4, OrdersAlike
  <2>6. ~ Deliverable(m, 0, c)
    <3>1. CASE c \in n.proposes
      <4>1. c \in ToSet(m.executed)
        BY <2>3, <3>1 DEF OrdersAll
      <4> QED
        BY <4>1 DEF Deliverable, Delivered
    <3>2. CASE c \notin n.proposes
      <4>1. ~ m.desc[c].propose
        BY <2>4, <3>2 DEF Untouched
      <4> QED
        BY <4>1 DEF Deliverable
    <3> QED
      BY <3>1, <3>2
  <2>7. Deliver(m, 0, c) = m
    BY <2>6 DEF Deliver
  <2> QED
    BY <2>2, <2>3, <2>5, <2>7 DEF LeadsTo
<1>7. \A c \in Commands : ~ QueuedProposal(0, c) /\ ~ NoteLeaderAck(0, c) /\ ~ HandleLeaderAck(0, c)
  BY <1>1, <1>2 DEF QueuedProposal, NoteLeaderAck, HandleLeaderAck
<1> QED
  BY <1>3, <1>4, <1>5, <1>6, <1>7 DEF NormalStep

(***************************************************************************)
(* A follower's log.                                                       *)
(***************************************************************************)
LEMMA WithoutOf ==
  ASSUME NEW S, NEW s \in Seq(S), NEW c, c \in ToSet(s), IsInjective(s)
  PROVE  LET w == Without(s, c)
         IN  w \in Seq(S) /\ IsInjective(w) /\ ToSet(w) = ToSet(s) \ {c}
<1> DEFINE k == LastAt(s, c)
           p == SubSeq(s, 1, k - 1)
           q == SubSeq(s, k + 1, Len(s))
           w == Without(s, c)
<1>1. DOMAIN s = 1 .. Len(s) /\ Len(s) \in Nat
  OBVIOUS
<1>2. PICK j \in 1 .. Len(s) : s[j] = c
  BY <1>1 DEF ToSet
<1>3. k \in 0 .. Len(s) /\ (k # 0 => s[k] = c) /\ j <= k
  BY <1>2, LastAtIs
<1>4. k \in 1 .. Len(s) /\ s[k] = c /\ k - 1 \in Nat /\ Len(s) - k \in Nat
  BY <1>1, <1>2, <1>3
<1>5. w = p \o q
  BY DEF Without, RemoveAt
<1> HIDE DEF k, w
<1>6. p \in Seq(S) /\ Len(p) = k - 1 /\ \A i \in 1 .. k - 1 : p[i] = s[i]
  BY <1>1, <1>4
<1>7. q \in Seq(S) /\ Len(q) = Len(s) - k /\ \A i \in 1 .. Len(s) - k : q[i] = s[k + i]
  <2>1. k + 1 \in Int /\ Len(s) \in Int /\ \A i \in k + 1 .. Len(s) : s[i] \in S
    BY <1>1, <1>4
  <2>2. /\ q \in Seq(S) /\ Len(q) = IF k + 1 <= Len(s) THEN Len(s) - (k + 1) + 1 ELSE 0
        /\ \A i \in 1 .. Len(s) - (k + 1) + 1 : q[i] = s[(k + 1) + i - 1]
    BY <2>1, SubSeqProperties
  <2> HIDE DEF q
  <2>3. Len(s) - (k + 1) + 1 = Len(s) - k /\ (k + 1 <= Len(s) \/ Len(s) - k = 0)
    <3>1. \A a \in Nat : \A b \in 1 .. a : a - (b + 1) + 1 = a - b /\ (b + 1 <= a \/ a - b = 0)
      OBVIOUS
    <3> QED
      BY <1>1, <1>4, <3>1
  <2>4. ASSUME NEW i \in 1 .. Len(s) - k PROVE q[i] = s[k + i]
    <3>1. (k + 1) + i - 1 = k + i
      BY <1>1, <1>4
    <3> QED
      BY <2>2, <2>3, <3>1
  <2> QED
    BY <2>2, <2>3, <2>4
<1> HIDE DEF p, q
<1>8. w \in Seq(S) /\ Len(w) = Len(s) - 1
      /\ \A i \in 1 .. Len(s) - 1 : w[i] = IF i <= k - 1 THEN p[i] ELSE q[i - (k - 1)]
  <2>1. /\ p \o q \in Seq(S) /\ Len(p \o q) = Len(p) + Len(q)
        /\ \A i \in 1 .. Len(p) + Len(q) : (p \o q)[i] = IF i <= Len(p) THEN p[i] ELSE q[i - Len(p)]
    BY <1>6, <1>7, ConcatProperties
  <2>2. Len(p) + Len(q) = Len(s) - 1 /\ Len(p) = k - 1
    BY <1>1, <1>4, <1>6, <1>7
  <2> QED
    BY <1>5, <2>1, <2>2
<1>9. \A i \in 1 .. Len(s) - 1 : w[i] = IF i < k THEN s[i] ELSE s[i + 1]
  <2> SUFFICES ASSUME NEW i \in 1 .. Len(s) - 1 PROVE w[i] = IF i < k THEN s[i] ELSE s[i + 1]
    OBVIOUS
  <2>1. CASE i < k
    BY <1>1, <1>4, <1>6, <1>8, <2>1
  <2>2. CASE i >= k
    <3>1. i - (k - 1) \in 1 .. Len(s) - k /\ k + (i - (k - 1)) = i + 1
      BY <1>1, <1>4, <2>2
    <3> QED
      BY <1>1, <1>4, <1>7, <1>8, <2>2, <3>1
  <2> QED
    BY <1>1, <1>4, <2>1, <2>2
<1>10. DOMAIN w = 1 .. Len(s) - 1
  BY <1>8
<1>11. IsInjective(w)
  <2> SUFFICES ASSUME NEW a \in 1 .. Len(s) - 1, NEW b \in 1 .. Len(s) - 1, w[a] = w[b] PROVE a = b
    BY <1>10 DEF IsInjective
  <2> DEFINE f(i) == IF i < k THEN i ELSE i + 1
  <2>1. f(a) \in 1 .. Len(s) /\ f(b) \in 1 .. Len(s) /\ w[a] = s[f(a)] /\ w[b] = s[f(b)]
    BY <1>1, <1>4, <1>9
  <2>2. f(a) = f(b)
    <3> HIDE DEF f
    <3> QED
      BY <1>1, <2>1 DEF IsInjective
  <2> QED
    BY <1>1, <1>4, <2>2
<1>12. ToSet(w) \subseteq ToSet(s) \ {c}
  <2> SUFFICES ASSUME NEW i \in 1 .. Len(s) - 1 PROVE w[i] \in ToSet(s) \ {c}
    BY <1>10 DEF ToSet
  <2>1. \E e \in 1 .. Len(s) : e # k /\ w[i] = s[e]
    <3>1. CASE i < k
      BY <1>1, <1>4, <1>9, <3>1
    <3>2. CASE i >= k
      <4>1. i + 1 \in 1 .. Len(s) /\ i + 1 # k /\ w[i] = s[i + 1]
        BY <1>1, <1>4, <1>9, <3>2
      <4> QED
        BY <4>1
    <3> QED
      BY <1>1, <1>4, <3>1, <3>2
  <2> QED
    BY <1>1, <1>4, <2>1 DEF ToSet, IsInjective
<1>13. ToSet(s) \ {c} \subseteq ToSet(w)
  <2> SUFFICES ASSUME NEW i \in 1 .. Len(s), i # k PROVE \E e \in 1 .. Len(s) - 1 : s[i] = w[e]
    BY <1>1, <1>4, <1>10 DEF ToSet
  <2>1. CASE i < k
    <3>1. i \in 1 .. Len(s) - 1 /\ w[i] = s[i]
      BY <1>1, <1>4, <1>9, <2>1
    <3> QED
      BY <3>1
  <2>2. CASE i > k
    <3>1. i - 1 \in 1 .. Len(s) - 1 /\ ~ (i - 1 < k) /\ (i - 1) + 1 = i
      BY <1>1, <1>4, <2>2
    <3>2. w[i - 1] = s[i]
      BY <1>9, <3>1
    <3> QED
      BY <3>1, <3>2
  <2> QED
    BY <1>1, <1>4, <2>1, <2>2
<1> QED
  BY <1>8, <1>11, <1>12, <1>13 DEF w

\* The update of a command that is in the list.
IsUpdate(g, m, c, s, h) ==
  LET top == IF s > g.synced THEN h ELSE g.syncedHash
  IN  /\ m \in Log
      /\ m.synced = IF s > g.synced THEN s ELSE g.synced
      /\ m.syncedHash = top
      /\ m.pending = Without(g.pending, c) /\ m.nodes = g.nodes \ {c}
      /\ m.hash = top \o Without(g.pending, c) /\ m.pendingUpd = g.pendingUpd

LEMMA Updates ==
  ASSUME NEW g \in Log, NEW c \in Commands, c \in g.nodes, NEW s \in Nat, NEW h \in Path
  PROVE  IsUpdate(g, UpdateOrSave(g, c, s, h), c, s, h)
<1> DEFINE rest == Without(g.pending, c)
           top == IF s > g.synced THEN h ELSE g.syncedHash
           v == IF s > g.synced THEN s ELSE g.synced
           m == UpdateOrSave(g, c, s, h)
<1>1. m = [g EXCEPT !.synced = v, !.syncedHash = top, !.pending = rest, !.nodes = @ \ {c}, !.hash = top \o rest]
  BY DEF UpdateOrSave, Update
<1>2. m \in Log
  BY UpdateOrSaveTyped
<1> HIDE DEF rest, top, v, m
<1>3. /\ m.synced = v /\ m.syncedHash = top /\ m.pending = rest /\ m.nodes = g.nodes \ {c}
      /\ m.hash = top \o rest /\ m.pendingUpd = g.pendingUpd
  BY <1>1 DEF Log
<1> QED
  BY <1>2, <1>3 DEF rest, top, v, m, IsUpdate

\* A command that the leader's hashes do not have yet is appended.
LEMMA ChainAppends ==
  ASSUME NEW g \in Log, NEW l, NEW k, NEW W, Chained(g, l, k, W), NEW c \in Commands, c \notin W
  PROVE  LET m == AppendTo(g, c)
         IN  m \in Log /\ m.synced = g.synced /\ Chained(m, l, k, W \cup {c})
<1> DEFINE m == AppendTo(g, c)
           p == Append(g.pending, c)
           h == Append(g.hash, c)
<1>1. g.pending \in Seq(Commands) /\ g.hash \in Seq(Commands) /\ g.syncedHash \in Seq(Commands)
  BY DEF Log, Path
<1>2. Saved(g, c) = {}
  BY DEF Chained, Saved
<1>3. m = [g EXCEPT !.pending = p, !.nodes = g.nodes \cup {c}, !.hash = h]
  BY <1>2 DEF AppendTo
<1>4. p \in Path /\ h \in Path /\ g.nodes \cup {c} \in Deps
  BY <1>1 DEF Path, Log, Deps
<1>5. ToSet(p) = ToSet(g.pending) \cup {c}
  BY <1>1, Appended
<1>6. IsInjective(p)
  BY <1>1, Appended DEF Chained
<1>7. h = g.syncedHash \o p
  <2>1. \A s, t \in Seq(Commands) : Append(s \o t, c) = s \o Append(t, c)
    OBVIOUS
  <2> QED
    BY <1>1, <2>1 DEF Chained
<1> HIDE DEF m, p, h
<1>8. /\ m \in Log /\ m.synced = g.synced /\ m.syncedHash = g.syncedHash /\ m.pending = p
      /\ m.nodes = g.nodes \cup {c} /\ m.hash = h /\ m.pendingUpd = g.pendingUpd
  BY <1>3, <1>4 DEF Log
<1> QED
  BY <1>5, <1>6, <1>7, <1>8 DEF Chained, m

\* The leader's hash of a pending command comes.
LEMMA ChainUpdates ==
  ASSUME NEW g \in Log, NEW l \in Seq(Commands), NEW k \in Nat, NEW W, Chained(g, l, k, W),
         NEW j \in 1 .. Len(l), l[j] \in W, NEW e \in Nat, k <= e, j <= e
  PROVE  LET m == UpdateOrSave(g, l[j], j - 1, SubSeq(l, 1, j))
         IN  /\ m \in Log /\ g.synced <= m.synced /\ j - 1 <= m.synced
             /\ Chained(m, l, e, W \ {l[j]})
<1> DEFINE c == l[j]
           h == SubSeq(l, 1, j)
           s == j - 1
           m == UpdateOrSave(g, c, s, h)
           w == Without(g.pending, c)
           top == IF s > g.synced THEN h ELSE g.syncedHash
<1>1. g.pending \in Seq(Commands) /\ g.synced \in Int /\ g.synced \in -1 .. (k - 1)
      /\ g.nodes = W /\ ToSet(g.pending) = W /\ IsInjective(g.pending) /\ g.pendingUpd = {}
      /\ g.syncedHash = SubSeq(l, 1, g.synced + 1)
  BY DEF Log, Path, Chained
<1>2. c \in Commands /\ s \in Nat /\ c \in g.nodes /\ c \in ToSet(g.pending)
  BY <1>1
<1>3. h \in Path
  BY DEF Path
<1> HIDE DEF h, c, s
<1>4. /\ m \in Log
      /\ m.synced = IF s > g.synced THEN s ELSE g.synced
      /\ m.syncedHash = top
      /\ m.pending = w /\ m.nodes = g.nodes \ {c}
      /\ m.hash = top \o w /\ m.pendingUpd = g.pendingUpd
  <2> HIDE DEF m, w, top
  <2>1. IsUpdate(g, UpdateOrSave(g, c, s, h), c, s, h)
    BY <1>2, <1>3, Updates
  <2> QED
    BY <2>1 DEF m, w, top, IsUpdate
<1>5. IsInjective(w) /\ ToSet(w) = W \ {c}
  BY <1>1, <1>2, WithoutOf
<1> HIDE DEF w, m, top
<1>6. m.synced \in Int /\ g.synced <= m.synced /\ s <= m.synced /\ m.synced \in -1 .. (e - 1)
  BY <1>1, <1>2, <1>4 DEF s
<1>7. m.syncedHash = SubSeq(l, 1, m.synced + 1)
  <2>1. CASE s > g.synced
    <3>1. m.synced = s /\ m.syncedHash = h
      BY <1>4, <2>1 DEF top
    <3>2. s + 1 = j
      BY DEF s
    <3> QED
      BY <3>1, <3>2 DEF h
  <2>2. CASE ~ (s > g.synced)
    BY <1>1, <1>4, <2>2 DEF top
  <2> QED
    BY <2>1, <2>2
<1>8. m.hash = m.syncedHash \o m.pending /\ m.pendingUpd = {} /\ m.nodes = W \ {c} /\ m.pending = w
  BY <1>1, <1>4
<1>9. Chained(m, l, e, W \ {c})
  BY <1>5, <1>6, <1>7, <1>8 DEF Chained
<1> QED
  BY <1>4, <1>6, <1>9 DEF m, c, s, h

LEMMA FollowsAlike ==
  ASSUME NEW n, NEW m, NEW l, NEW k, Follows(n, l, k), m.noted = n.noted, m.heard[0] = n.heard[0],
         m.pendingHashUpds = n.pendingHashUpds, m.log = n.log, m.proposes = n.proposes,
         m.again = n.again, m.replies = n.replies
  PROVE  Follows(m, l, k)
  BY DEF Follows, Seen

\* The leader goes on.
LEMMA FollowsLonger ==
  ASSUME NEW n, NEW l \in Seq(Commands), NEW k \in 0 .. Len(l), Follows(n, l, k), NEW c \in Commands
  PROVE  Follows(n, Append(l, c), k)
<1> DEFINE y == Append(l, c)
<1>1. /\ y \in Seq(Commands) /\ Len(y) = Len(l) + 1 /\ Len(l) \in Nat
      /\ \A i \in 1 .. Len(l) : y[i] = l[i] /\ SubSeq(y, 1, i) = SubSeq(l, 1, i)
  BY Beginnings
<1> HIDE DEF y
<1>2. \A i \in 1 .. k : i \in 1 .. Len(l) /\ y[i] = l[i] /\ HashOf(y, i) = HashOf(l, i)
  BY <1>1 DEF HashOf
<1>3. \A i \in -1 .. k - 1 : SubSeq(y, 1, i + 1) = SubSeq(l, 1, i + 1)
  <2> SUFFICES ASSUME NEW i \in -1 .. k - 1 PROVE SubSeq(y, 1, i + 1) = SubSeq(l, 1, i + 1)
    OBVIOUS
  <2>1. CASE i + 1 = 0
    <3>1. SubSeq(y, 1, 0) = <<>> /\ SubSeq(l, 1, 0) = <<>>
      BY <1>1
    <3> QED
      BY <2>1, <3>1
  <2>2. CASE i + 1 \in 1 .. Len(l)
    BY <1>1, <2>2
  <2> QED
    BY <1>1, <2>1, <2>2
<1>4. {y[i] : i \in 1 .. k} = {l[i] : i \in 1 .. k}
  BY <1>2
<1>5. {HashOf(y, i) : i \in {j \in 1 .. k : y[j] \notin n.proposes}}
        = {HashOf(l, i) : i \in {j \in 1 .. k : l[j] \notin n.proposes}}
  BY <1>2
<1>6. Chained(n.log, y, k, n.proposes \ Seen(n))
  BY <1>3 DEF Follows, Chained
<1>7. \A i \in 1 .. k : y[i] \in n.proposes => i - 1 <= n.log.synced
  BY <1>2 DEF Follows
<1> QED
  BY <1>4, <1>5, <1>6, <1>7 DEF Follows, y

\* The leader's history, as a follower sees it.
History(l) == l \in Seq(Commands) /\ IsInjective(l)

LEMMA HistoryEntries ==
  ASSUME NEW l, History(l), NEW i \in 1 .. Len(l)
  PROVE  /\ l[i] \in Commands /\ SubSeq(l, 1, i) \in Path /\ SubSeq(l, 1, i) # NoHash
         /\ \A j \in 1 .. Len(l) : l[i] = l[j] => i = j
<1>1. l \in Seq(Commands) /\ DOMAIN l = 1 .. Len(l) /\ l[i] \in Commands
  BY DEF History
<1>2. SubSeq(l, 1, i) \in Seq(Commands) /\ Len(SubSeq(l, 1, i)) = i
  BY <1>1
<1>3. Len(<<>>) = 0
  OBVIOUS
<1> QED
  BY <1>1, <1>2, <1>3 DEF Path, NoHash, History, IsInjective

\* The event loop of a follower with a proposal.
LEMMA FollowerNumbers ==
  ASSUME NEW n \in Node, NEW c \in Commands, n.again = {}
  PROVE  LET m == Numbered(n, c)
         IN  /\ m.proposes = n.proposes \cup {c} /\ m.log = AppendTo(n.log, c) /\ m.again = {}
             /\ m.noted = n.noted /\ m.heard = n.heard /\ m.pendingHashUpds = n.pendingHashUpds
             /\ m.replies = n.replies /\ m.ballot = n.ballot
<1> DEFINE l == AppendTo(n.log, c)
           w == IF c \in Reads THEN n.lastWrite ELSE {c}
           d == IF n.desc[c].proposeDep # Nil THEN n.desc[c]
                ELSE [n.desc[c] EXCEPT !.proposeDep = Conflicts(n, c), !.hs = AppendHash(n.log, c)]
           D == [n.desc EXCEPT ![c] = d]
           m == Numbered(n, c)
<1>1. m = [n EXCEPT !.proposes = n.proposes \cup {c}, !.again = n.again \ {c},
                    !.lastCmd = {c}, !.lastWrite = w, !.log = l, !.desc = D]
  BY DEF Numbered, Node
<1> HIDE DEF l, w, D, m
<1>2. /\ m.proposes = n.proposes \cup {c} /\ m.log = l /\ m.again = n.again \ {c}
      /\ m.noted = n.noted /\ m.heard = n.heard /\ m.pendingHashUpds = n.pendingHashUpds
      /\ m.replies = n.replies /\ m.ballot = n.ballot
  BY <1>1 DEF Node
<1> QED
  BY <1>2 DEF l, m

LEMMA FollowerRecords ==
  ASSUME NEW n \in Node, NEW c \in Commands, c \in n.proposes, NEW s, NEW h, h # NoHash
  PROVE  LET m == RecordLeaderHash(n, c, s, h)
         IN  /\ m.proposes = n.proposes /\ m.log = UpdateOrSave(n.log, c, s, h) /\ m.again = n.again
             /\ m.noted = n.noted /\ m.heard = n.heard /\ m.pendingHashUpds = n.pendingHashUpds
             /\ m.replies = n.replies /\ m.ballot = n.ballot
<1> DEFINE l == UpdateOrSave(n.log, c, s, h)
           m == RecordLeaderHash(n, c, s, h)
<1>1. m = [n EXCEPT !.log = l]
  BY DEF RecordLeaderHash
<1> HIDE DEF l, m
<1>2. /\ m.proposes = n.proposes /\ m.log = l /\ m.again = n.again
      /\ m.noted = n.noted /\ m.heard = n.heard /\ m.pendingHashUpds = n.pendingHashUpds
      /\ m.replies = n.replies /\ m.ballot = n.ballot
  BY <1>1 DEF Node
<1> QED
  BY <1>2 DEF l, m

LEMMA HandedOverFollows ==
  ASSUME NEW n \in Node, NEW r, ~ IsLeader(n, r), NEW c \in Commands, NEW merge, NEW l, NEW k,
         Follows(n, l, k)
  PROVE  Follows(HandedOver(n, r, c, merge), l, k)
<1> DEFINE m == HandedOver(n, r, c, merge)
           q == n.queued \cup {c}
<1>1. m = [n EXCEPT !.dead = TRUE] \/ m = [n EXCEPT !.queued = q]
  BY DEF HandedOver
<1> HIDE DEF m, q
<1>2. m.noted = n.noted /\ m.heard = n.heard /\ m.pendingHashUpds = n.pendingHashUpds /\ m.log = n.log
      /\ m.proposes = n.proposes /\ m.again = n.again /\ m.replies = n.replies
  BY <1>1 DEF Node
<1>3. Follows(m, l, k)
  BY <1>2, FollowsAlike
<1> QED
  BY <1>3 DEF m

\* A proposal whose hash the follower has not seen.
LEMMA FollowerAppends ==
  ASSUME NEW n \in Node, NEW c \in Commands, c \notin n.proposes, c \notin Seen(n),
         NEW l, History(l), NEW k \in 0 .. Len(l), Follows(n, l, k)
  PROVE  Follows(Numbered(n, c), l, k) /\ {u \in n.pendingHashUpds : u.cmd = c} = {}
<1> DEFINE m == Numbered(n, c)
<1>1. /\ m.proposes = n.proposes \cup {c} /\ m.log = AppendTo(n.log, c) /\ m.again = {}
      /\ m.noted = n.noted /\ m.heard = n.heard /\ m.pendingHashUpds = n.pendingHashUpds
      /\ m.replies = n.replies
  <2>1. n.again = {}
    BY DEF Follows
  <2> QED
    BY <2>1, FollowerNumbers
<1> HIDE DEF m
<1>2. \A i \in 1 .. k : l[i] # c
  BY DEF Follows
<1>3. Seen(m) = Seen(n)
  BY <1>1 DEF Seen
<1>4. n.log \in Log /\ Chained(n.log, l, k, n.proposes \ Seen(n)) /\ c \notin n.proposes \ Seen(n)
  BY DEF Follows, Node
<1>5. m.log.synced = n.log.synced /\ Chained(m.log, l, k, (n.proposes \ Seen(n)) \cup {c})
  <2> DEFINE g == n.log
             W == n.proposes \ Seen(n)
  <2>1. g \in Log
    BY <1>4
  <2>2. Chained(g, l, k, W)
    BY <1>4
  <2>3. c \notin W
    BY <1>4
  <2> HIDE DEF g, W
  <2>4. AppendTo(g, c).synced = g.synced /\ Chained(AppendTo(g, c), l, k, W \cup {c})
    BY <2>1, <2>2, <2>3, ChainAppends
  <2> QED
    BY <1>1, <2>4 DEF g, W
<1>6. (n.proposes \ Seen(n)) \cup {c} = m.proposes \ Seen(m)
  BY <1>1, <1>3
<1>7. {HashOf(l, i) : i \in {j \in 1 .. k : l[j] \notin n.proposes}}
        = {HashOf(l, i) : i \in {j \in 1 .. k : l[j] \notin m.proposes}}
  <2>1. {j \in 1 .. k : l[j] \notin n.proposes} = {j \in 1 .. k : l[j] \notin m.proposes}
    BY <1>1, <1>2
  <2> QED
    BY <2>1
<1>8. \A i \in 1 .. k : l[i] \in m.proposes => i - 1 <= m.log.synced
  BY <1>1, <1>2, <1>5 DEF Follows
<1>9. Seen(m) = {l[i] : i \in 1 .. k} /\ m.again = {} /\ m.replies = {}
      /\ m.pendingHashUpds = {HashOf(l, i) : i \in {j \in 1 .. k : l[j] \notin m.proposes}}
      /\ \A e \in Commands : m.heard[0][e] \in {0, 1} /\ (e \in m.noted => m.heard[0][e] = 0)
  BY <1>1, <1>3, <1>7 DEF Follows
<1>10. Follows(m, l, k)
  BY <1>5, <1>6, <1>8, <1>9 DEF Follows
<1>11. {u \in n.pendingHashUpds : u.cmd = c} = {}
  BY <1>2 DEF Follows, HashOf
<1> QED
  BY <1>10, <1>11 DEF m

\* A proposal whose hash the follower has seen.
LEMMA FollowerCatchesUp ==
  ASSUME NEW r \in Replicas, NEW n, Good(n, r), n.ballot = 0, r # 0,
         NEW c \in Commands, c \notin n.proposes, c \in Seen(n),
         NEW l, History(l), NEW k \in 0 .. Len(l), Follows(n, l, k)
  PROVE  Follows(Hashed(Numbered(n, c), r, c), l, k)
<1> DEFINE n1 == Numbered(n, c)
           us == {u \in n1.pendingHashUpds : u.cmd = c}
           rest == n1.pendingHashUpds \ us
           n2 == [n1 EXCEPT !.pendingHashUpds = rest]
           m == Hashed(n1, r, c)
           W == n.proposes \ Seen(n)
           g == n.log
           g1 == AppendTo(g, c)
<1>1. n \in Node /\ g \in Log /\ l \in Seq(Commands) /\ Len(l) \in Nat /\ n.again = {}
  BY DEF Good, Node, History, Follows
<1>2. /\ n1.proposes = n.proposes \cup {c} /\ n1.log = g1 /\ n1.again = {}
      /\ n1.noted = n.noted /\ n1.heard = n.heard /\ n1.pendingHashUpds = n.pendingHashUpds
      /\ n1.replies = n.replies /\ n1.ballot = 0
  BY <1>1, FollowerNumbers
<1>3. n1 \in Node
  <2>1. Good(n1, r)
    BY Numbers
  <2> QED
    BY <2>1 DEF Good
<1> HIDE DEF n1
<1>4. PICK j \in 1 .. k : l[j] = c
  BY DEF Follows
<1>5. j \in 1 .. Len(l) /\ j \in Nat /\ k \in Nat /\ j <= k
  BY <1>1
<1>6. /\ SubSeq(l, 1, j) # NoHash /\ \A i \in 1 .. Len(l) : l[j] = l[i] => j = i
  BY <1>5, HistoryEntries
<1>7. n1.pendingHashUpds = {HashOf(l, i) : i \in {e \in 1 .. k : l[e] \notin n.proposes}}
  BY <1>2 DEF Follows
<1>8. us = {HashOf(l, j)}
  <2>1. HashOf(l, j) \in us
    BY <1>4, <1>7 DEF HashOf
  <2>2. ASSUME NEW u \in us PROVE u = HashOf(l, j)
    <3>1. PICK i \in 1 .. k : u = HashOf(l, i)
      BY <1>7, <2>2
    <3>2. l[i] = c
      BY <2>2, <3>1 DEF HashOf
    <3>3. i = j
      BY <1>1, <1>4, <1>6, <3>2
    <3> QED
      BY <3>1, <3>3
  <2> QED
    BY <2>1, <2>2
<1>9. rest = {HashOf(l, i) : i \in {e \in 1 .. k : l[e] \notin n1.proposes}}
  <2>1. \A i \in 1 .. k : l[i] \notin n1.proposes <=> l[i] \notin n.proposes /\ i # j
    BY <1>1, <1>2, <1>4, <1>6
  <2>2. \A i \in 1 .. k : HashOf(l, i) = HashOf(l, j) => i = j
    BY <1>1, <1>6 DEF HashOf
  <2> QED
    BY <1>7, <1>8, <2>1, <2>2
<1>10. n1.pendingHashUpds \in SUBSET HashUpdate
  BY <1>3 DEF Node
<1>11. m = RecordLeaderHash(n2, c, j - 1, SubSeq(l, 1, j))
  <2>1. ~ IsLeader(n1, r)
    BY <1>2, Group DEF IsLeader
  <2>2. (CHOOSE u \in us : TRUE) = HashOf(l, j) /\ us # {}
    BY <1>8
  <2>3. HashOf(l, j).seqnum = j - 1 /\ HashOf(l, j).hash = SubSeq(l, 1, j)
    BY DEF HashOf
  <2>4. m = RecordLeaderHash([n1 EXCEPT !.pendingHashUpds = @ \ us], c,
                             (CHOOSE u \in us : TRUE).seqnum, (CHOOSE u \in us : TRUE).hash)
    BY <2>1, <2>2 DEF Hashed
  <2>5. [n1 EXCEPT !.pendingHashUpds = @ \ us] = n2
    BY <1>3 DEF Node
  <2> HIDE DEF m, n2, us
  <2> QED
    BY <2>2, <2>3, <2>4, <2>5
<1> HIDE DEF us, rest
<1>12. n2 \in Node /\ n2.pendingHashUpds = rest /\ n2.proposes = n1.proposes /\ n2.log = n1.log
       /\ n2.again = n1.again /\ n2.noted = n1.noted /\ n2.heard = n1.heard /\ n2.replies = n1.replies
  <2>1. rest \in SUBSET HashUpdate
    BY <1>10 DEF rest
  <2> QED
    BY <1>3, <2>1 DEF Node
<1> HIDE DEF n2, m
<1>13. /\ m.proposes = n2.proposes /\ m.log = UpdateOrSave(n2.log, c, j - 1, SubSeq(l, 1, j)) /\ m.again = n2.again
       /\ m.noted = n2.noted /\ m.heard = n2.heard /\ m.pendingHashUpds = n2.pendingHashUpds
       /\ m.replies = n2.replies
  <2>1. c \in n2.proposes
    BY <1>2, <1>12
  <2> DEFINE h == SubSeq(l, 1, j)
  <2>2. h # NoHash
    BY <1>6
  <2> HIDE DEF h
  <2>3. LET k1 == RecordLeaderHash(n2, c, j - 1, h)
        IN  /\ k1.proposes = n2.proposes /\ k1.log = UpdateOrSave(n2.log, c, j - 1, h) /\ k1.again = n2.again
            /\ k1.noted = n2.noted /\ k1.heard = n2.heard /\ k1.pendingHashUpds = n2.pendingHashUpds
            /\ k1.replies = n2.replies /\ k1.ballot = n2.ballot
    BY <1>12, <2>1, <2>2, FollowerRecords
  <2> QED
    BY <1>11, <2>3 DEF h
<1>14. Chained(g, l, k, W) /\ c \notin W /\ c \in Seen(n)
  BY DEF Follows
<1> HIDE DEF g, W
<1>15. g1 \in Log /\ g1.synced = g.synced /\ Chained(g1, l, k, W \cup {c})
  BY <1>1, <1>14, ChainAppends
<1> HIDE DEF g1
<1>16. g1.synced <= m.log.synced /\ j - 1 <= m.log.synced /\ Chained(m.log, l, k, W)
  <2> DEFINE V == W \cup {c}
  <2>1. Chained(g1, l, k, V) /\ l[j] \in V
    BY <1>4, <1>15
  <2>2. V \ {l[j]} = W
    BY <1>4, <1>14
  <2> HIDE DEF V
  <2>3. k <= k
    BY <1>5
  <2>4. LET k1 == UpdateOrSave(g1, l[j], j - 1, SubSeq(l, 1, j))
        IN  /\ k1 \in Log /\ g1.synced <= k1.synced /\ j - 1 <= k1.synced
            /\ Chained(k1, l, k, V \ {l[j]})
    BY <1>1, <1>5, <1>15, <2>1, <2>3, ChainUpdates
  <2> QED
    BY <1>2, <1>4, <1>12, <1>13, <2>2, <2>4
<1>17. Seen(m) = Seen(n)
  BY <1>2, <1>12, <1>13 DEF Seen
<1>18. m.proposes \ Seen(m) = W
  BY <1>2, <1>12, <1>13, <1>14, <1>17 DEF W
<1>19. \A i \in 1 .. k : l[i] \in m.proposes => i - 1 <= m.log.synced
  <2> SUFFICES ASSUME NEW i \in 1 .. k, l[i] \in m.proposes PROVE i - 1 <= m.log.synced
    OBVIOUS
  <2>1. CASE l[i] = c
    BY <1>1, <1>4, <1>6, <1>16, <2>1
  <2>2. CASE l[i] \in n.proposes
    <3>1. i - 1 <= g.synced
      BY <2>2 DEF Follows, g
    <3>2. g.synced \in Int /\ m.log.synced \in Int
      BY <1>14, <1>16 DEF Chained
    <3> QED
      BY <1>15, <1>16, <3>1, <3>2
  <2> QED
    BY <1>2, <1>12, <1>13, <2>1, <2>2
<1>20. Seen(m) = {l[i] : i \in 1 .. k} /\ m.again = {} /\ m.replies = {}
       /\ m.pendingHashUpds = {HashOf(l, i) : i \in {e \in 1 .. k : l[e] \notin m.proposes}}
       /\ \A e \in Commands : m.heard[0][e] \in {0, 1} /\ (e \in m.noted => m.heard[0][e] = 0)
  BY <1>2, <1>9, <1>12, <1>13, <1>17 DEF Follows
<1>21. Follows(m, l, k)
  BY <1>16, <1>18, <1>19, <1>20 DEF Follows
<1> QED
  BY <1>21 DEF m, n1

LEMMA FollowerTakes ==
  ASSUME NEW r \in Replicas, NEW n, Good(n, r), n.ballot = 0, r # 0,
         NEW c \in Commands, c \notin n.proposes, NEW merge \in BOOLEAN,
         NEW l, History(l), NEW k \in 0 .. Len(l), Follows(n, l, k)
  PROVE  Follows(Taken(n, r, c, merge), l, k)
<1> DEFINE n1 == Numbered(n, c)
           n2 == Hashed(n1, r, c)
<1>1. n \in Node /\ n.again = {}
  BY DEF Good, Follows
<1>2. Good(n1, r) /\ n1.pendingHashUpds = n.pendingHashUpds /\ n1.ballot = 0
  BY <1>1, Numbers, FollowerNumbers
<1>3. Follows(n2, l, k)
  <2>1. CASE c \in Seen(n)
    BY <2>1, FollowerCatchesUp
  <2>2. CASE c \notin Seen(n)
    <3>1. Follows(n1, l, k) /\ {u \in n.pendingHashUpds : u.cmd = c} = {}
      BY <1>1, <2>2, FollowerAppends
    <3> HIDE DEF n1
    <3>2. n2 = n1
      BY <1>2, <3>1 DEF Hashed
    <3> QED
      BY <3>1, <3>2
  <2> QED
    BY <2>1, <2>2
<1>4. Taken(n, r, c, merge) = HandedOver(n2, r, c, merge)
  BY DEF Taken
<1> HIDE DEF n1
<1>5. Good(n2, r) /\ n2.ballot = n1.ballot
  BY <1>2, Hashes DEF Moved
<1> HIDE DEF n2
<1>6. n2 \in Node /\ ~ IsLeader(n2, r)
  BY <1>2, <1>5, Group DEF IsLeader, Good
<1>7. Follows(HandedOver(n2, r, c, merge), l, k)
  BY <1>3, <1>6, HandedOverFollows
<1> QED
  BY <1>4, <1>7
\* The leader's next hash, of a proposal that has not come.
LEMMA FollowerSaves ==
  ASSUME NEW n \in Node, NEW l, History(l), NEW k \in Nat, k + 1 <= Len(l), Follows(n, l, k),
         l[k + 1] \notin n.proposes, l[k + 1] \notin Seen(n)
  PROVE  LET c == l[k + 1]
             m == RecordLeaderHash(n, c, k, SubSeq(l, 1, k + 1))
         IN  Follows([m EXCEPT !.noted = @ \cup {c}], l, k + 1)
<1> DEFINE c == l[k + 1]
           h == SubSeq(l, 1, k + 1)
           us == {u \in n.pendingHashUpds : u.cmd # c} \cup {[cmd |-> c, seqnum |-> k, hash |-> h]}
           q == n.noted \cup {c}
           m == [RecordLeaderHash(n, c, k, h) EXCEPT !.noted = @ \cup {c}]
<1>1. k + 1 \in 1 .. Len(l) /\ (k + 1) - 1 = k /\ \A i \in 1 .. k : i \in 1 .. Len(l) /\ i # k + 1
      /\ \A j \in 1 .. k + 1 : j \in 1 .. k \/ j = k + 1
  BY DEF History
<1>2. c \in Commands /\ \A i \in 1 .. k : l[i] # c
  BY <1>1, HistoryEntries
<1>3. m = [n EXCEPT !.pendingHashUpds = us, !.noted = q]
  BY DEF RecordLeaderHash, Node
<1>4. n.heard[0][c] = 0 /\ c \notin n.noted
  BY <1>2 DEF Seen
<1>5. us = {HashOf(l, i) : i \in {j \in 1 .. k + 1 : l[j] \notin n.proposes}}
  <2>1. n.pendingHashUpds = {HashOf(l, i) : i \in {j \in 1 .. k : l[j] \notin n.proposes}}
    BY DEF Follows
  <2>2. \A u \in n.pendingHashUpds : u.cmd # c
    BY <1>2, <2>1 DEF HashOf
  <2>3. us = n.pendingHashUpds \cup {[cmd |-> c, seqnum |-> k, hash |-> h]}
    BY <2>2
  <2>4. [cmd |-> c, seqnum |-> k, hash |-> h] = HashOf(l, k + 1)
    BY <1>1 DEF HashOf
  <2>5. {j \in 1 .. k + 1 : l[j] \notin n.proposes} = {j \in 1 .. k : l[j] \notin n.proposes} \cup {k + 1}
    BY <1>1
  <2> HIDE DEF us, c, h
  <2> QED
    BY <2>1, <2>3, <2>4, <2>5
<1> HIDE DEF us, q, m
<1>6. /\ m.pendingHashUpds = us /\ m.noted = q /\ m.log = n.log /\ m.proposes = n.proposes
      /\ m.again = n.again /\ m.replies = n.replies /\ m.heard = n.heard
  BY <1>3 DEF Node
<1>7. Seen(m) = Seen(n) \cup {c}
  BY <1>2, <1>6 DEF Seen, q
<1>8. Seen(m) = {l[i] : i \in 1 .. k + 1}
  <2>1. Seen(n) = {l[i] : i \in 1 .. k}
    BY DEF Follows
  <2>2. {l[i] : i \in 1 .. k + 1} = {l[i] : i \in 1 .. k} \cup {c}
    BY <1>1
  <2> QED
    BY <1>7, <2>1, <2>2
<1>9. Chained(m.log, l, k + 1, m.proposes \ Seen(m))
  <2>1. m.proposes \ Seen(m) = n.proposes \ Seen(n)
    BY <1>6, <1>7
  <2>2. Chained(n.log, l, k, n.proposes \ Seen(n))
    BY DEF Follows
  <2>3. n.log.synced \in -1 .. k - 1 => n.log.synced \in -1 .. (k + 1) - 1
    OBVIOUS
  <2> QED
    BY <1>6, <2>1, <2>2, <2>3 DEF Chained
<1>10. \A i \in 1 .. k + 1 : l[i] \in m.proposes => i - 1 <= m.log.synced
  BY <1>1, <1>6 DEF Follows
<1>11. \A e \in Commands : m.heard[0][e] \in {0, 1} /\ (e \in m.noted => m.heard[0][e] = 0)
  BY <1>4, <1>6 DEF Follows, q
<1>12. m.again = {} /\ m.replies = {}
       /\ m.pendingHashUpds = {HashOf(l, i) : i \in {j \in 1 .. k + 1 : l[j] \notin m.proposes}}
  BY <1>5, <1>6 DEF Follows
<1> QED
  BY <1>8, <1>9, <1>10, <1>11, <1>12 DEF Follows, m, c, h

\* The leader's next hash, of a command that is in the follower's log.
LEMMA FollowerSyncs ==
  ASSUME NEW n \in Node, NEW l, History(l), NEW k \in Nat, k + 1 <= Len(l), Follows(n, l, k),
         l[k + 1] \in n.proposes, l[k + 1] \notin Seen(n)
  PROVE  LET c == l[k + 1]
             m == RecordLeaderHash(n, c, k, SubSeq(l, 1, k + 1))
         IN  Follows([m EXCEPT !.noted = @ \cup {c}], l, k + 1)
<1> DEFINE c == l[k + 1]
           h == SubSeq(l, 1, k + 1)
           q == n.noted \cup {c}
           g == n.log
           W == n.proposes \ Seen(n)
           m1 == RecordLeaderHash(n, c, k, h)
           m == [m1 EXCEPT !.noted = @ \cup {c}]
<1>1. k + 1 \in 1 .. Len(l) /\ (k + 1) - 1 = k /\ \A i \in 1 .. k : i \in 1 .. Len(l) /\ i # k + 1
      /\ \A j \in 1 .. k + 1 : j \in 1 .. k \/ j = k + 1
  BY DEF History
<1>2. c \in Commands /\ h # NoHash /\ h \in Path /\ \A i \in 1 .. k : l[i] # c
  BY <1>1, HistoryEntries
<1>3. g \in Log /\ l \in Seq(Commands) /\ Chained(g, l, k, W) /\ c \in W
  BY DEF Node, History, Follows
<1>4. n.heard[0][c] = 0 /\ c \notin n.noted
  BY <1>2 DEF Seen
<1>5. g.synced <= UpdateOrSave(g, c, k, h).synced /\ k <= UpdateOrSave(g, c, k, h).synced
      /\ Chained(UpdateOrSave(g, c, k, h), l, k + 1, W \ {c})
  <2> DEFINE j == k + 1
  <2>1. j \in 1 .. Len(l) /\ j \in Nat /\ k <= j /\ j <= j /\ j - 1 = k
    BY <1>1
  <2>2. Chained(g, l, k, W) /\ l[j] \in W
    BY <1>3
  <2> HIDE DEF W, g, j
  <2>3. LET m2 == UpdateOrSave(g, l[j], j - 1, SubSeq(l, 1, j))
        IN  /\ m2 \in Log /\ g.synced <= m2.synced /\ j - 1 <= m2.synced
            /\ Chained(m2, l, j, W \ {l[j]})
    BY <1>3, <2>1, <2>2, ChainUpdates
  <2> QED
    BY <2>1, <2>3 DEF j
<1>6. m1 = [n EXCEPT !.log = UpdateOrSave(g, c, k, h)]
  BY <1>2 DEF RecordLeaderHash
<1>7. m = [n EXCEPT !.log = UpdateOrSave(g, c, k, h), !.noted = q]
  BY <1>6 DEF Node
<1> HIDE DEF q, m, m1
<1>8. /\ m.log = UpdateOrSave(g, c, k, h) /\ m.noted = q /\ m.pendingHashUpds = n.pendingHashUpds
      /\ m.proposes = n.proposes /\ m.again = n.again /\ m.replies = n.replies /\ m.heard = n.heard
  <2> DEFINE u == UpdateOrSave(g, c, k, h)
  <2>1. m = [n EXCEPT !.log = u, !.noted = q]
    BY <1>7
  <2> HIDE DEF u, g
  <2> QED
    BY <2>1 DEF Node, u
<1>9. Seen(m) = Seen(n) \cup {c}
  BY <1>2, <1>8 DEF Seen, q
<1>10. Seen(m) = {l[i] : i \in 1 .. k + 1}
  <2>1. Seen(n) = {l[i] : i \in 1 .. k}
    BY DEF Follows
  <2>2. {l[i] : i \in 1 .. k + 1} = {l[i] : i \in 1 .. k} \cup {c}
    BY <1>1
  <2> QED
    BY <1>9, <2>1, <2>2
<1>11. Chained(m.log, l, k + 1, m.proposes \ Seen(m))
  <2>1. m.proposes \ Seen(m) = W \ {c}
    BY <1>8, <1>9
  <2> QED
    BY <1>5, <1>8, <2>1
<1>12. \A i \in 1 .. k + 1 : l[i] \in m.proposes => i - 1 <= m.log.synced
  <2> SUFFICES ASSUME NEW i \in 1 .. k + 1, l[i] \in m.proposes PROVE i - 1 <= m.log.synced
    OBVIOUS
  <2>1. CASE i = k + 1
    BY <1>1, <1>5, <1>8, <2>1
  <2>2. CASE i \in 1 .. k
    <3>1. i - 1 <= g.synced
      BY <1>8, <2>2 DEF Follows
    <3>2. g.synced \in Int
      BY <1>3 DEF Log
    <3>4. m.log.synced \in -1 .. (k + 1) - 1
      BY <1>11 DEF Chained
    <3>3. g.synced <= m.log.synced
      BY <1>5, <1>8
    <3> HIDE DEF g
    <3> QED
      BY <2>2, <3>1, <3>2, <3>3, <3>4
  <2> QED
    BY <1>1, <2>1, <2>2
<1>13. \A e \in Commands : m.heard[0][e] \in {0, 1} /\ (e \in m.noted => m.heard[0][e] = 0)
  BY <1>4, <1>8 DEF Follows, q
<1>14. m.again = {} /\ m.replies = {}
       /\ m.pendingHashUpds = {HashOf(l, i) : i \in {j \in 1 .. k + 1 : l[j] \notin m.proposes}}
  <2>1. {j \in 1 .. k + 1 : l[j] \notin n.proposes} = {j \in 1 .. k : l[j] \notin n.proposes}
    BY <1>1
  <2> QED
    BY <1>8, <2>1 DEF Follows
<1> QED
  BY <1>10, <1>11, <1>12, <1>13, <1>14 DEF Follows, m, m1, c, h

\* The leader's acks, each its command's only one.
LEMMA LeadersHistory ==
  ASSUME Typed, node[0].ballot = 0, OrdersAll(node[0])
  PROVE  LET n == node[0]
             l == n.executed
         IN  /\ History(l)
             /\ \A c \in Commands : n.acked[c] # <<>> => \E i \in 1 .. Len(l) : l[i] = c
             /\ \A i \in 1 .. Len(l) : /\ Len(n.acked[l[i]]) = 1 /\ n.acked[l[i]][1].ballot = 0
                                       /\ n.acked[l[i]][1].seqnum = i - 1
                                       /\ n.acked[l[i]][1].hs = SubSeq(l, 1, i)
<1> DEFINE n == node[0]
           l == n.executed
<1>1. 0 \in Replicas
  BY Group
<1>2. n \in Node /\ Sane(n, 0) /\ n.acked \in [Commands -> Seq(Ack)] /\ l \in Seq(Commands)
  BY <1>1, TypedAt DEF Good, Node, Path
<1>3. History(l)
  BY <1>2 DEF History, Sane
<1>4. ToSet(l) = n.proposes /\ \A c \in Commands \ n.proposes : n.acked[c] = <<>>
  BY DEF OrdersAll
<1>5. ToSet(l) = {l[i] : i \in 1 .. Len(l)}
  BY <1>2 DEF ToSet
<1>6. \A c \in Commands : n.acked[c] # <<>> => \E i \in 1 .. Len(l) : l[i] = c
  BY <1>4, <1>5
<1>7. \A i \in 1 .. Len(l) : n.acked[l[i]][1].ballot = 0 /\ Len(n.acked[l[i]]) = 1
  <2> SUFFICES ASSUME NEW i \in 1 .. Len(l)
               PROVE  n.acked[l[i]][1].ballot = 0 /\ Len(n.acked[l[i]]) = 1
    OBVIOUS
  <2>1. l[i] \in Commands /\ Len(n.acked[l[i]]) = 1
    BY <1>2 DEF OrdersAll
  <2> DEFINE p == n.acked[l[i]]
  <2>2. p \in Seq(Ack) /\ 1 \in 1 .. Len(p) /\ p[1].ballot <= n.ballot
    BY <1>2, <2>1 DEF Sane
  <2>3. p[1] \in Ack
    <3> HIDE DEF p
    <3> QED
      BY <2>2
  <2>4. p[1].ballot \in Nat
    BY <2>3 DEF Ack
  <2> QED
    BY <2>1, <2>2, <2>4
<1> QED
  BY <1>3, <1>6, <1>7 DEF OrdersAll

\* A follower notes the leader's acks in the order of the leader's history.
LEMMA NotesInOrder ==
  ASSUME Typed, node[0].ballot = 0, OrdersAll(node[0]), NEW r \in Replicas, r # 0, node[r].ballot = 0,
         NEW k \in 0 .. Len(node[0].executed), Follows(node[r], node[0].executed, k),
         NEW c \in Commands, NoteLeaderAck(r, c)
  PROVE  LET l == node[0].executed
         IN  /\ k + 1 <= Len(l) /\ l[k + 1] = c /\ c \notin Seen(node[r])
             /\ NextOf(r, 0, c).seqnum = k /\ NextOf(r, 0, c).hs = SubSeq(l, 1, k + 1)
<1> DEFINE l == node[0].executed
           n == node[r]
           acked == node[0].acked
<1>1. Leader(n.ballot) = 0 /\ 0 \in Replicas
  BY Group
<1>2. HasNext(r, 0, c) /\ c \notin n.noted
      /\ \A e \in Commands : HasNext(r, 0, e) /\ e \notin n.noted => ~ Earlier(NextOf(r, 0, e), NextOf(r, 0, c))
  BY <1>1 DEF NoteLeaderAck
<1>3. \A e \in Commands : n.heard[0][e] \in {0, 1}
  BY DEF Follows
<1>4. /\ History(l)
      /\ \A e \in Commands : acked[e] # <<>> => \E i \in 1 .. Len(l) : l[i] = e
      /\ \A i \in 1 .. Len(l) : /\ Len(acked[l[i]]) = 1 /\ acked[l[i]][1].ballot = 0
                                /\ acked[l[i]][1].seqnum = i - 1 /\ acked[l[i]][1].hs = SubSeq(l, 1, i)
  BY LeadersHistory
<1>5. Len(l) \in Nat /\ k \in Nat /\ k <= Len(l)
  BY <1>4 DEF History
<1>6. PICK j \in 1 .. Len(l) : l[j] = c
  <2>1. n.heard[0][c] < Len(acked[c])
    BY <1>2 DEF HasNext
  <2>2. Len(<<>>) = 0
    OBVIOUS
  <2>3. acked[c] # <<>>
    <3> HIDE DEF acked, n
    <3> QED
      BY <1>3, <2>1, <2>2
  <2> QED
    BY <1>4, <2>3
<1>7. n.heard[0][c] = 0
  <2>1. n.heard[0][c] < Len(acked[c]) /\ Len(acked[c]) = 1
    BY <1>2, <1>4, <1>6 DEF HasNext
  <2> HIDE DEF acked, n
  <2> QED
    BY <1>3, <2>1
<1>8. NextOf(r, 0, c) = acked[c][1]
  BY <1>7 DEF NextOf
<1>9. c \notin Seen(n)
  BY <1>2, <1>7 DEF Seen
<1>10. Seen(n) = {l[i] : i \in 1 .. k}
  BY DEF Follows
<1>11. ~ (j <= k)
  BY <1>6, <1>9, <1>10
<1>12. k + 1 \in 1 .. Len(l) /\ \A i \in 1 .. k : i \in 1 .. Len(l) /\ i # k + 1
  BY <1>5, <1>6, <1>11
<1>13. l[k + 1] \in Commands /\ l[k + 1] \notin Seen(n)
  <2> HIDE DEF l
  <2>1. l[k + 1] \in Commands /\ \A i \in 1 .. Len(l) : l[k + 1] = l[i] => k + 1 = i
    BY <1>4, <1>12, HistoryEntries
  <2> QED
    BY <1>10, <1>12, <2>1
<1> DEFINE e == l[k + 1]
<1>14. n.heard[0][e] = 0 /\ e \notin n.noted
  BY <1>13 DEF Seen
<1>15. HasNext(r, 0, e) /\ NextOf(r, 0, e) = acked[e][1]
  <2>1. Len(acked[e]) = 1
    BY <1>4, <1>12
  <2>2. 0 # Nil
    BY <1>2, <1>7 DEF HasNext
  <2> QED
    BY <1>14, <2>1, <2>2 DEF HasNext, NextOf
<1>16. ~ Earlier(acked[e][1], acked[c][1])
  BY <1>2, <1>8, <1>13, <1>14, <1>15
<1>17. acked[e][1].ballot = 0 /\ acked[e][1].seqnum = (k + 1) - 1
  BY <1>4, <1>12
<1>18. acked[c][1].ballot = 0 /\ acked[c][1].seqnum = j - 1 /\ acked[c][1].hs = SubSeq(l, 1, j)
  BY <1>4, <1>6
<1>19. ~ ((k + 1) - 1 < j - 1)
  BY <1>16, <1>17, <1>18 DEF Earlier
<1>20. j = k + 1
  BY <1>5, <1>6, <1>11, <1>19
<1> QED
  BY <1>5, <1>6, <1>8, <1>9, <1>12, <1>18, <1>20
LEMMA FollowerNotes ==
  ASSUME Typed, node[0].ballot = 0, OrdersAll(node[0]), NEW r \in Replicas, r # 0, node[r].ballot = 0,
         NEW k \in 0 .. Len(node[0].executed), Follows(node[r], node[0].executed, k),
         NEW c \in Commands, NoteLeaderAck(r, c)
  PROVE  \E m : Becomes(r, m) /\ \E j \in 0 .. Len(node[0].executed) : Follows(m, node[0].executed, j)
<1> DEFINE l == node[0].executed
           n == node[r]
           a == NextOf(r, 0, c)
           m == [RecordLeaderHash(n, c, a.seqnum, a.hs) EXCEPT !.noted = @ \cup {c}]
<1>1. k + 1 <= Len(l) /\ l[k + 1] = c /\ c \notin Seen(n) /\ a.seqnum = k /\ a.hs = SubSeq(l, 1, k + 1)
  BY NotesInOrder
<1>2. Becomes(r, m)
  BY Group DEF NoteLeaderAck
<1>3. n \in Node
  BY TypedAt
<1>4. History(l)
  BY LeadersHistory
<1>5. k \in Nat /\ k + 1 \in 0 .. Len(l)
  BY <1>1, <1>4 DEF History
<1> HIDE DEF a
<1>6. m = [RecordLeaderHash(n, l[k + 1], k, SubSeq(l, 1, k + 1)) EXCEPT !.noted = @ \cup {l[k + 1]}]
  BY <1>1
<1> HIDE DEF m, l, n
<1>7. Follows(n, l, k)
  BY DEF l, n
<1>8. Follows(m, l, k + 1)
  <2>1. CASE l[k + 1] \in n.proposes
    BY <1>1, <1>3, <1>4, <1>5, <1>6, <1>7, <2>1, FollowerSyncs
  <2>2. CASE l[k + 1] \notin n.proposes
    BY <1>1, <1>3, <1>4, <1>5, <1>6, <1>7, <2>2, FollowerSaves
  <2> QED
    BY <2>1, <2>2
<1> QED
  BY <1>2, <1>5, <1>8 DEF l

LEMMA FollowsAfter ==
  ASSUME NEW r \in Replicas, r # 0, NEW n, NEW m, n.ballot = 0, After(n, m, r), NEW l, NEW k, Follows(n, l, k)
  PROVE  Follows(m, l, k)
<1>1. Leader(n.ballot) = 0 /\ ~ IsLeader(n, r)
  BY Group DEF IsLeader
<1>2. m.noted = n.noted /\ m.pendingHashUpds = n.pendingHashUpds /\ m.log = n.log /\ m.proposes = n.proposes
      /\ m.again = n.again
  BY DEF After, Same
<1>3. m.heard[0] = n.heard[0] /\ m.replies = n.replies
  BY <1>1 DEF After
<1> QED
  BY <1>2, <1>3, FollowsAlike

\* A follower hears the leader's ack, which it had noted, or another's.
LEMMA HearsLeader ==
  ASSUME NEW n \in Node, NEW c \in Commands, c \in n.noted, NEW l, NEW k, Follows(n, l, k)
  PROVE  Follows(Hearing(n, 0, c, n.noted \ {c}), l, k)
<1> DEFINE q == n.noted \ {c}
           h == [n.heard EXCEPT ![0] = [n.heard[0] EXCEPT ![c] = n.heard[0][c] + 1]]
           m == Hearing(n, 0, c, q)
<1>1. n.heard \in [Replicas -> [Commands -> {Nil} \cup Nat]] /\ 0 \in Replicas /\ n.heard[0][c] = 0
  BY Group DEF Node, Follows
<1>2. m = [n EXCEPT !.noted = q, !.heard = h]
  BY DEF Hearing
<1> HIDE DEF m, q, h
<1>3. m.noted = q /\ m.heard = h /\ m.pendingHashUpds = n.pendingHashUpds /\ m.log = n.log
      /\ m.proposes = n.proposes /\ m.again = n.again /\ m.replies = n.replies
  BY <1>2 DEF Node
<1>4. m.heard[0][c] = 1 /\ \A e \in Commands : e # c => m.heard[0][e] = n.heard[0][e]
  BY <1>1, <1>3 DEF h
<1>5. Seen(m) = Seen(n)
  BY <1>3, <1>4 DEF Seen, q
<1>6. \A e \in Commands : m.heard[0][e] \in {0, 1} /\ (e \in m.noted => m.heard[0][e] = 0)
  BY <1>3, <1>4 DEF Follows, q
<1> QED
  BY <1>3, <1>5, <1>6 DEF Follows, m, q

LEMMA HearsOther ==
  ASSUME NEW n \in Node, NEW s, s # 0, NEW c, NEW l, NEW k, Follows(n, l, k)
  PROVE  Follows(Hearing(n, s, c, n.noted), l, k)
<1> DEFINE q == n.noted
           h == [n.heard EXCEPT ![s] = [n.heard[s] EXCEPT ![c] = n.heard[s][c] + 1]]
           m == Hearing(n, s, c, q)
<1>1. n.heard \in [Replicas -> [Commands -> {Nil} \cup Nat]] /\ 0 \in Replicas
  BY Group DEF Node
<1>2. m = [n EXCEPT !.noted = q, !.heard = h]
  BY DEF Hearing
<1>3. h[0] = n.heard[0]
  BY <1>1
<1> HIDE DEF m, q, h
<1>4. m.noted = n.noted /\ m.heard = h /\ m.pendingHashUpds = n.pendingHashUpds /\ m.log = n.log
      /\ m.proposes = n.proposes /\ m.again = n.again /\ m.replies = n.replies
  BY <1>2 DEF Node, q
<1>5. Follows(m, l, k)
  BY <1>3, <1>4, FollowsAlike
<1> QED
  BY <1>5 DEF m, q

LEMMA FollowerSteps ==
  ASSUME Typed, node[0].ballot = 0, OrdersAll(node[0]), NEW r \in Replicas, r # 0, node[r].ballot = 0,
         NEW k \in 0 .. Len(node[0].executed), Follows(node[r], node[0].executed, k), NormalStep(r)
  PROVE  \E m : Becomes(r, m) /\ \E j \in 0 .. Len(node[0].executed) : Follows(m, node[0].executed, j)
<1> DEFINE l == node[0].executed
           n == node[r]
<1>1. /\ Good(n, r) /\ n \in Node /\ Leader(n.ballot) = 0 /\ 0 \in Replicas /\ n.ballot = 0
      /\ n.heard \in [Replicas -> [Commands -> {Nil} \cup Nat]] /\ n.noted \in Deps
      /\ n.queued \in Deps /\ n.proposes \in Deps
  BY Group, TypedAt DEF Node
<1>2. History(l)
  BY LeadersHistory
<1>3. Follows(n, l, k) /\ k \in 0 .. Len(l)
  OBVIOUS
<1>4. n.again = {}
  BY DEF Follows
<1>5. ASSUME NEW m, Becomes(r, m), Follows(m, l, k)
      PROVE  \E m1 : Becomes(r, m1) /\ \E j \in 0 .. Len(l) : Follows(m1, l, j)
  BY <1>5
<1>6. ASSUME NEW c \in Commands, TakeProposal(r, c) PROVE \E m : Becomes(r, m) /\ Follows(m, l, k)
  <2>1. PICK merge \in BOOLEAN : Becomes(r, Taken(n, r, c, merge))
    BY <1>6 DEF TakeProposal, Merges
  <2>2. c \notin n.proposes
    BY <1>4, <1>6 DEF TakeProposal
  <2> HIDE DEF n, l
  <2>3. Follows(Taken(n, r, c, merge), l, k)
    BY <1>1, <1>2, <1>3, <2>2, FollowerTakes
  <2> QED
    BY <2>1, <2>3
<1>7. ASSUME NEW c \in Commands, QueuedProposal(r, c) PROVE \E m : Becomes(r, m) /\ Follows(m, l, k)
  <2>1. PICK merge \in BOOLEAN : Becomes(r, HandlePropose(n, r, c, merge))
    BY <1>7 DEF QueuedProposal, Merges
  <2>2. c \in n.queued
    BY <1>7 DEF QueuedProposal
  <2>3. c \in n.proposes /\ (n.desc[c].propose \/ n.desc[c].proposeDep # Nil)
    BY <1>1, <2>2 DEF Good, Sane
  <2> HIDE DEF n, l
  <2>4. After(n, HandlePropose(n, r, c, merge), r)
    BY <1>1, <2>3, HandlesPropose
  <2>5. Follows(HandlePropose(n, r, c, merge), l, k)
    BY <1>1, <1>3, <2>4, FollowsAfter
  <2> QED
    BY <2>1, <2>5
<1>8. ASSUME NEW c \in Commands, HandleLeaderAck(r, c) PROVE \E m : Becomes(r, m) /\ Follows(m, l, k)
  <2> DEFINE q == n.noted \ {c}
             h == Hearing(n, 0, c, q)
             a == NextOf(r, 0, c)
  <2>1. HasNext(r, 0, c) /\ c \in n.noted
    BY <1>1, <1>8, TypedAt DEF HandleLeaderAck, HasNext
  <2>2. a.dep # Nil \/ Leader(a.ballot) # 0
    BY <1>1, <2>1, NextTyped
  <2>3. [n EXCEPT !.noted = @ \ {c}, !.heard[0][c] = @ + 1] = h
    BY <1>1 DEF Node, Hearing
  <2>4. PICK merge \in BOOLEAN : Becomes(r, IF c \in Delivered(n) THEN h ELSE CallAfterPropagate(h, r, c, a, merge))
    BY <1>1, <1>8, <2>3 DEF HandleLeaderAck, Merges
  <2>5. Good(h, r) /\ h.ballot = n.ballot
    <3>1. q \in Deps /\ q \subseteq node[r].noted /\ c \notin q
      BY <1>1 DEF Deps
    <3> HIDE DEF q
    <3> QED
      BY <1>1, <2>1, <3>1, Hears
  <2>6. Follows(h, l, k)
    BY <1>1, <1>3, <2>1, HearsLeader
  <2>7. a \in Ack
    BY <1>1, <2>1, NextTyped
  <2> HIDE DEF h, a, n, l
  <2>8. h.status = "NORMAL" /\ a.ballot = h.ballot => a.dep # Nil
    BY <1>1, <2>2, <2>5
  <2>9. After(h, CallAfterPropagate(h, r, c, a, merge), r)
    BY <2>5, <2>7, <2>8, CallsAfter
  <2>10. Follows(CallAfterPropagate(h, r, c, a, merge), l, k)
    BY <1>1, <2>5, <2>6, <2>9, FollowsAfter
  <2> QED
    BY <2>4, <2>6, <2>10
<1>9. ASSUME NEW c \in Commands, NEW s \in Replicas, HandleAck(r, s, c) PROVE \E m : Becomes(r, m) /\ Follows(m, l, k)
  <2> DEFINE q == n.noted
             h == Hearing(n, s, c, q)
             a == NextOf(r, s, c)
  <2>1. HasNext(r, s, c) /\ s # 0
    BY <1>1, <1>9 DEF HandleAck
  <2>2. a \in Ack
    BY <1>1, <2>1, NextTyped
  <2>3. [n EXCEPT !.heard[s][c] = @ + 1] = h
    BY <1>1 DEF Node, Hearing
  <2>4. Becomes(r, CommonCaseFastAck(h, r, c, s, a))
    BY <1>9, <2>3 DEF HandleAck
  <2>5. Good(h, r) /\ h.ballot = n.ballot
    <3>1. q \in Deps /\ q \subseteq node[r].noted /\ s # Leader(node[r].ballot)
      BY <1>1, <2>1
    <3> HIDE DEF q
    <3> QED
      BY <1>1, <2>1, <3>1, Hears
  <2>6. Follows(h, l, k)
    BY <1>1, <1>3, <2>1, HearsOther
  <2> HIDE DEF h, a, n, l
  <2>7. After(h, CommonCaseFastAck(h, r, c, s, a), r)
    BY <2>2, <2>5, CommonCase
  <2>8. Follows(CommonCaseFastAck(h, r, c, s, a), l, k)
    BY <1>1, <2>5, <2>6, <2>7, FollowsAfter
  <2> QED
    BY <2>4, <2>8
<1>10. ASSUME NEW u \in Deps, NEW d \in Deps
       PROVE  Follows(Waking(n, u, d), l, k) /\ Good(Waking(n, u, d), r) /\ Waking(n, u, d).ballot = 0
  <2> DEFINE m == Waking(n, u, d)
  <2> HIDE DEF n, l
  <2>1. Good(m, r) /\ Moved(n, m, r) /\ m.proposes = n.proposes /\ m.log = n.log
        /\ m.pendingHashUpds = n.pendingHashUpds /\ m.again = n.again /\ m.heard = n.heard
        /\ m.replies = n.replies
    BY <1>1, Waked
  <2>2. m.noted = n.noted /\ m.ballot = 0
    BY <1>1, <2>1 DEF Moved
  <2> HIDE DEF m
  <2>3. Follows(m, l, k)
    BY <1>3, <2>1, <2>2, FollowsAlike
  <2> QED
    BY <2>1, <2>2, <2>3 DEF m
<1>11. ASSUME NEW c \in Commands, Wake(r, c) PROVE \E m : Becomes(r, m) /\ Follows(m, l, k)
  <2> DEFINE u == n.unwoken \ {c}
             d == n.deliverChan \cup n.desc[c].successors
  <2>1. u \in Deps /\ d \in Deps
    BY <1>1 DEF Node, Desc, Deps
  <2>2. Becomes(r, Waking(n, u, d))
    BY <1>11 DEF Wake, Waking
  <2> HIDE DEF u, d
  <2> QED
    BY <1>10, <2>1, <2>2
<1>12. ASSUME NEW c \in Commands, DeliverNext(r, c) PROVE \E m : Becomes(r, m) /\ Follows(m, l, k)
  <2> DEFINE u == n.unwoken
             d == n.deliverChan \ {c}
             w == Waking(n, u, d)
  <2>1. u \in Deps /\ d \in Deps
    BY <1>1 DEF Node, Deps
  <2>2. Becomes(r, Deliver(w, r, c))
    <3>1. w = [n EXCEPT !.deliverChan = d]
      BY <1>1 DEF Node, Waking
    <3> QED
      BY <1>12, <3>1 DEF DeliverNext
  <2> HIDE DEF u, d
  <2>3. Follows(w, l, k) /\ Good(w, r) /\ w.ballot = 0
    BY <1>10, <2>1
  <2> HIDE DEF w, n, l
  <2>4. After(w, Deliver(w, r, c), r)
    BY <2>3, Delivers
  <2>5. Follows(Deliver(w, r, c), l, k)
    BY <2>3, <2>4, FollowsAfter
  <2> QED
    BY <2>2, <2>5
<1>13. ASSUME NEW c \in Commands, NoteLeaderAck(r, c)
       PROVE  \E m : Becomes(r, m) /\ \E j \in 0 .. Len(l) : Follows(m, l, j)
  BY <1>1, <1>13, FollowerNotes
<1> HIDE DEF l, n
<1>14. \E m : Becomes(r, m) /\ \E j \in 0 .. Len(l) : Follows(m, l, j)
  BY <1>5, <1>6, <1>7, <1>8, <1>9, <1>11, <1>12, <1>13 DEF NormalStep
<1> QED
  BY <1>14 DEF l
(***************************************************************************)
(* The invariant, until a ballot is announced.                             *)
(***************************************************************************)
LEMMA OrderedInit ==
  ASSUME Init
  PROVE  Ordered
<1>1. \A r \in Replicas : node[r] = NewNode
  BY DEF Init
<1>2. 0 \in Replicas
  BY Group
<1>3. ToSet(<<>>) = {} /\ Len(<<>>) = 0
  BY DEF ToSet
<1>4. OrdersAll(NewNode)
  <2>1. Untouched(NewDesc)
    BY DEF Untouched, NewDesc, NewMsgSet
  <2> DEFINE n == NewNode
  <2>2. n.executed = <<>> /\ n.proposes = {} /\ n.seqnum = 0 /\ n.queued = {} /\ n.again = {} /\ n.noted = {}
        /\ n.pendingHashUpds = {} /\ n.lastCmd = {} /\ n.lastWrite = {} /\ n.replies = {}
        /\ n.log.hash = <<>> /\ n.log.syncedHash = <<>> /\ n.log.pending = <<>> /\ n.log.nodes = {}
        /\ n.log.pendingUpd = {} /\ \A c \in Commands : n.acked[c] = <<>> /\ n.desc[c] = NewDesc
    BY DEF NewNode, NewHashLog
  <2> HIDE DEF n
  <2>3. \A i \in 1 .. Len(n.executed) : FALSE
    BY <1>3, <2>2
  <2>4. OrdersAll(n)
    BY <1>3, <2>1, <2>2, <2>3 DEF OrdersAll
  <2> QED
    BY <2>4 DEF n
<1>5. Seen(NewNode) = {}
  BY <1>2 DEF Seen, NewNode
<1>6. Follows(NewNode, <<>>, 0)
  <2>1. Chained(NewHashLog, <<>>, 0, {})
    <3>1. SubSeq(<<>>, 1, 0) = <<>> /\ <<>> \o <<>> = <<>> /\ -1 + 1 = 0 /\ -1 \in -1 .. (0 - 1)
      OBVIOUS
    <3>2. IsInjective(<<>>)
      BY DEF IsInjective
    <3> QED
      BY <1>3, <3>1, <3>2 DEF Chained, NewHashLog
  <2>2. 1 .. 0 = {}
    OBVIOUS
  <2> QED
    BY <1>2, <1>5, <2>1, <2>2 DEF Follows, NewNode
<1>7. NewNode.executed = <<>> /\ 0 \in 0 .. Len(<<>>)
  BY <1>3 DEF NewNode
<1> QED
  BY <1>1, <1>2, <1>4, <1>6, <1>7 DEF Ordered, LeaderOrders, FollowersFollow

LEMMA OnlyNormal ==
  ASSUME Typed, Next, newLeaders' = {}
  PROVE  newLeaders = {} /\ (\A r \in Replicas : node[r].ballot = 0) /\ \E r \in Replicas : NormalStep(r)
<1>1. newLeaders = {}
  <2>1. PICK r \in Replicas : NormalStep(r) \/ RecoveryStep(r)
    BY DEF Next
  <2>2. ASSUME NEW m, Becomes(r, m) PROVE newLeaders = {}
    BY <2>2 DEF Becomes
  <2>3. CASE NormalStep(r)
    BY <2>2, <2>3 DEF NormalStep, TakeProposal, QueuedProposal, NoteLeaderAck, HandleLeaderAck, HandleAck,
                      Wake, DeliverNext
  <2>4. ASSUME NEW b \in 1..MaxBallot, BeTheLeader(r, b) PROVE newLeaders = {}
    BY <2>4 DEF BeTheLeader
  <2>5. ASSUME NEW b \in 1..MaxBallot, HandleNewLeader(r, b) PROVE newLeaders = {}
    BY <2>5 DEF HandleNewLeader
  <2>6. ASSUME NEW acks, HandleNewLeaderAcks(r, acks) PROVE newLeaders = {}
    BY <2>6 DEF HandleNewLeaderAcks
  <2>7. ASSUME NEW s, HandleSync(r, s) PROVE newLeaders = {}
    BY <2>2, <2>7 DEF HandleSync
  <2> QED
    BY <2>1, <2>3, <2>4, <2>5, <2>6, <2>7 DEF RecoveryStep
<1>2. \A r \in Replicas : node[r].ballot = 0 /\ node[r].status = "NORMAL"
  <2> SUFFICES ASSUME NEW r \in Replicas PROVE node[r].ballot = 0 /\ node[r].status = "NORMAL"
    OBVIOUS
  <2>1. node[r].ballot = 0
    BY <1>1 DEF Typed, Announced
  <2> QED
    BY <2>1, TypedAt DEF Good, Sane
<1>3. syncs = {}
  BY <1>1 DEF Typed, Announced
<1>4. \A r \in Replicas : ~ RecoveryStep(r)
  <2> SUFFICES ASSUME NEW r \in Replicas, RecoveryStep(r) PROVE FALSE
    OBVIOUS
  <2>1. \A b \in 1..MaxBallot : ~ BeTheLeader(r, b)
    BY DEF BeTheLeader
  <2>2. \A b \in 1..MaxBallot : ~ HandleNewLeader(r, b)
    BY <1>1 DEF HandleNewLeader
  <2>3. \A acks \in kSubset(Majority, newLeaderAcks) : ~ HandleNewLeaderAcks(r, acks)
    BY <1>2 DEF HandleNewLeaderAcks
  <2> QED
    BY <1>3, <2>1, <2>2, <2>3 DEF RecoveryStep
<1> QED
  BY <1>1, <1>2, <1>4 DEF Next

LEMMA OrderedNext ==
  ASSUME Typed, Ordered, [Next]_vars
  PROVE  Ordered'
<1> SUFFICES ASSUME newLeaders' = {} PROVE LeaderOrders' /\ FollowersFollow'
  BY DEF Ordered
<1>1. CASE UNCHANGED vars
  <2>1. node' = node /\ newLeaders = {}
    BY <1>1 DEF vars
  <2> QED
    BY <2>1 DEF Ordered, LeaderOrders, FollowersFollow
<1>2. CASE Next
  <2>1. newLeaders = {} /\ \A r \in Replicas : node[r].ballot = 0
    BY <1>2, OnlyNormal
  <2>2. PICK r \in Replicas : NormalStep(r)
    BY <1>2, OnlyNormal
  <2>3. OrdersAll(node[0]) /\ FollowersFollow /\ 0 \in Replicas /\ node \in [Replicas -> Node]
    BY <2>1, Group DEF Ordered, LeaderOrders, Typed
  <2>4. CASE r = 0
    <3>1. PICK m : Becomes(0, m) /\ LeadsTo(node[0], m)
      BY <2>1, <2>2, <2>3, <2>4, LeaderSteps
    <3>2. node'[0] = m /\ \A s \in Replicas \ {0} : node'[s] = node[s]
      BY <2>3, <3>1 DEF Becomes
    <3>3. LeaderOrders'
      BY <3>1, <3>2 DEF LeadsTo, LeaderOrders
    <3>4. node[0].executed \in Seq(Commands)
      BY <2>3 DEF Node, Path
    <3>5. ASSUME NEW s \in Replicas \ {0}
          PROVE  \E k \in 0 .. Len(node'[0].executed) : Follows(node'[s], node'[0].executed, k)
      <4> DEFINE l == node[0].executed
                 n == node[s]
      <4>1. PICK k \in 0 .. Len(l) : Follows(n, l, k)
        BY <2>3 DEF FollowersFollow
      <4>2. m.executed = l \/ \E c \in Commands : m.executed = Append(l, c)
        BY <3>1 DEF LeadsTo
      <4> HIDE DEF l, n
      <4>3. CASE m.executed = l
        BY <3>2, <4>1, <4>3 DEF n
      <4>4. ASSUME NEW c \in Commands, m.executed = Append(l, c)
            PROVE  \E j \in 0 .. Len(m.executed) : Follows(n, m.executed, j)
        <5>1. l \in Seq(Commands)
          BY <3>4 DEF l
        <5>2. Follows(n, Append(l, c), k)
          BY <4>1, <5>1, FollowsLonger
        <5>3. k \in 0 .. Len(Append(l, c))
          BY <4>1, <5>1
        <5> QED
          BY <4>4, <5>2, <5>3
      <4> QED
        BY <3>2, <4>2, <4>3, <4>4 DEF n
    <3> QED
      BY <3>3, <3>5 DEF FollowersFollow
  <2>5. CASE r # 0
    <3>1. PICK k \in 0 .. Len(node[0].executed) : Follows(node[r], node[0].executed, k)
      BY <2>2, <2>3, <2>5 DEF FollowersFollow
    <3>2. PICK m : Becomes(r, m) /\ \E j \in 0 .. Len(node[0].executed) : Follows(m, node[0].executed, j)
      BY <2>1, <2>2, <2>3, <2>5, <3>1, FollowerSteps
    <3>3. node'[r] = m /\ \A s \in Replicas \ {r} : node'[s] = node[s]
      BY <2>3, <3>2 DEF Becomes
    <3>4. node'[0] = node[0]
      BY <2>3, <2>5, <3>3
    <3>5. LeaderOrders'
      BY <2>3, <3>4 DEF LeaderOrders
    <3>6. ASSUME NEW s \in Replicas \ {0}
          PROVE  \E k1 \in 0 .. Len(node'[0].executed) : Follows(node'[s], node'[0].executed, k1)
      <4>1. CASE s = r
        BY <3>2, <3>3, <3>4, <4>1
      <4>2. CASE s # r
        BY <2>3, <3>3, <3>4, <4>2 DEF FollowersFollow
      <4> QED
        BY <4>1, <4>2
    <3> QED
      BY <3>5, <3>6 DEF FollowersFollow
  <2> QED
    BY <2>4, <2>5
<1> QED
  BY <1>1, <1>2

\* Until a ballot is announced, the leader's log, history and acks are one sequence, and a
\* follower's log is a beginning of it and the proposals whose hashes have not come.
THEOREM OrderedAlways == Spec => [](Typed /\ Ordered)
<1>1. Init => Typed /\ Ordered
  BY InitTyped, OrderedInit
<1>2. Typed /\ Ordered /\ [Next]_vars => (Typed /\ Ordered)'
  BY TypedNext, OrderedNext
<1> QED
  BY <1>1, <1>2, PTL DEF Spec

LEMMA OrderedHashes ==
  ASSUME Typed, Ordered
  PROVE  RepliesHashHistory
<1> SUFFICES ASSUME newLeaders = {}, NEW r \in Replicas, NEW rep \in node[r].replies
             PROVE  \E i \in DOMAIN node[r].executed :
                      rep.hs = SubSeq(node[r].executed, 1, i) /\ node[r].executed[i] = rep.cmd
  BY DEF RepliesHashHistory
<1>1. CASE r = 0
  <2>1. PICK i \in 1 .. Len(node[0].executed) :
          rep.hs = SubSeq(node[0].executed, 1, i) /\ rep.cmd = node[0].executed[i]
    BY <1>1 DEF Ordered, LeaderOrders, OrdersAll
  <2>2. node[0].executed \in Seq(Commands)
    BY Group, TypedAt DEF Node, Path
  <2> QED
    BY <1>1, <2>1, <2>2
<1>2. CASE r # 0
  <2>1. PICK k \in 0 .. Len(node[0].executed) : Follows(node[r], node[0].executed, k)
    BY <1>2 DEF Ordered, FollowersFollow
  <2> QED
    BY <2>1 DEF Follows
<1> QED
  BY <1>1, <1>2

\* A beginning of a path, and what is not in it.
LEMMA Joined ==
  ASSUME NEW S, NEW l \in Seq(S), NEW k \in 0 .. Len(l), NEW b \in Seq(S), IsInjective(l), IsInjective(b),
         \A i \in 1 .. k : l[i] \notin ToSet(b)
  PROVE  LET p == SubSeq(l, 1, k)
             x == p \o b
         IN  /\ IsPrefix(p, l) /\ IsInjective(x)
             /\ \A i \in 1 .. k : l[i] \in ToSet(x)
             /\ \A c \in ToSet(b) : c \in ToSet(x)
<1> DEFINE p == SubSeq(l, 1, k)
           x == p \o b
<1>1. Len(l) \in Nat /\ k \in Nat /\ k <= Len(l) /\ Len(b) \in Nat
  OBVIOUS
<1>2. p \in Seq(S) /\ Len(p) = k /\ \A i \in 1 .. k : p[i] = l[i]
  BY <1>1
<1>3. /\ x \in Seq(S) /\ Len(x) = Len(p) + Len(b)
      /\ \A i \in 1 .. Len(p) + Len(b) : x[i] = IF i <= Len(p) THEN p[i] ELSE b[i - Len(p)]
  <2> HIDE DEF p
  <2> QED
    BY <1>2, ConcatProperties
<1>4. IsPrefix(p, l)
  <2>1. SubSeq(p, 1, Len(p)) = p
    <3> HIDE DEF p
    <3> QED
      BY <1>1, <1>2
  <2> QED
    BY <1>1, <1>2, <2>1 DEF IsPrefix
<1> HIDE DEF p, x
<1>5. DOMAIN x = 1 .. k + Len(b) /\ DOMAIN b = 1 .. Len(b) /\ DOMAIN l = 1 .. Len(l)
  BY <1>2, <1>3
<1>6. \A i \in 1 .. k : i \in DOMAIN x /\ x[i] = l[i]
  BY <1>1, <1>2, <1>3, <1>5
<1>7. \A i \in DOMAIN x : i \in 1 .. k \/ (i - k \in 1 .. Len(b) /\ x[i] = b[i - k])
  BY <1>1, <1>2, <1>3, <1>5
<1>8. \A i \in 1 .. Len(b) : k + i \in DOMAIN x /\ x[k + i] = b[i]
  <2> SUFFICES ASSUME NEW i \in 1 .. Len(b) PROVE k + i \in DOMAIN x /\ x[k + i] = b[i]
    OBVIOUS
  <2>1. k + i \in 1 .. k + Len(b) /\ ~ (k + i <= k) /\ (k + i) - k = i
    BY <1>1
  <2> QED
    BY <1>2, <1>3, <1>5, <2>1
<1>9. IsInjective(x)
  <2> SUFFICES ASSUME NEW i \in DOMAIN x, NEW j \in DOMAIN x, x[i] = x[j] PROVE i = j
    BY DEF IsInjective
  <2>1. \A e \in 1 .. Len(b) : b[e] \in ToSet(b)
    BY <1>5 DEF ToSet
  <2>2. CASE i \in 1 .. k /\ j \in 1 .. k
    BY <1>1, <1>5, <1>6, <2>2 DEF IsInjective
  <2>3. CASE i \in 1 .. k /\ j \notin 1 .. k
    BY <1>6, <1>7, <2>1, <2>3
  <2>4. CASE i \notin 1 .. k /\ j \in 1 .. k
    BY <1>6, <1>7, <2>1, <2>4
  <2>5. CASE i \notin 1 .. k /\ j \notin 1 .. k
    <3>1. i - k \in DOMAIN b /\ j - k \in DOMAIN b /\ b[i - k] = b[j - k]
      BY <1>5, <1>7, <2>5
    <3>2. i - k = j - k
      BY <3>1 DEF IsInjective
    <3>3. i \in Int /\ j \in Int
      BY <1>5
    <3> QED
      BY <1>1, <3>2, <3>3
  <2> QED
    BY <2>2, <2>3, <2>4, <2>5
<1>10. \A i \in 1 .. k : l[i] \in ToSet(x)
  BY <1>6 DEF ToSet
<1>11. \A c \in ToSet(b) : c \in ToSet(x)
  BY <1>5, <1>8 DEF ToSet
<1> QED
  BY <1>4, <1>9, <1>10, <1>11 DEF p, x

LEMMA OrderedPaths ==
  ASSUME Typed, Ordered
  PROVE  Paths
<1> SUFFICES ASSUME newLeaders = {}, NEW r \in Replicas
             PROVE  LET n == node[r]
                    IN  /\ n.log.hash = n.log.syncedHash \o n.log.pending
                        /\ IsPrefix(n.log.syncedHash, node[0].log.hash)
                        /\ IsInjective(n.log.hash)
                        /\ n.pendingHashUpds = {} => n.proposes \subseteq ToSet(n.log.hash)
  BY DEF Paths
<1> DEFINE n == node[r]
           g == n.log
           l == node[0].executed
<1>1. 0 \in Replicas /\ node[0].ballot = 0 /\ OrdersAll(node[0])
  BY Group DEF Ordered, LeaderOrders, Typed, Announced
<1>2. History(l) /\ node[0].log.hash = l /\ l \in Seq(Commands)
  BY <1>1, LeadersHistory DEF OrdersAll, History
<1>3. n \in Node /\ g \in Log /\ g.pending \in Seq(Commands) /\ g.syncedHash \in Seq(Commands) /\ g.hash \in Seq(Commands)
  BY TypedAt DEF Node, Log, Path
<1>4. CASE r = 0
  <2>1. g.hash = l /\ g.syncedHash = <<>> /\ g.pending = l /\ ToSet(l) = n.proposes
    BY <1>1, <1>4 DEF OrdersAll
  <2>2. l = <<>> \o l
    BY <1>2
  <2>3. IsPrefix(<<>>, l)
    BY <1>2 DEF IsPrefix
  <2> QED
    BY <1>2, <2>1, <2>2, <2>3 DEF History
<1>5. CASE r # 0
  <2>1. PICK k \in 0 .. Len(l) : Follows(n, l, k)
    BY <1>5 DEF Ordered, FollowersFollow
  <2> DEFINE W == n.proposes \ Seen(n)
             q == g.pending
             y == g.synced
             p == SubSeq(l, 1, y + 1)
  <2>2. /\ y \in -1 .. (k - 1) /\ g.syncedHash = p /\ g.hash = p \o q
        /\ IsInjective(q) /\ ToSet(q) = W
    BY <2>1 DEF Follows, Chained
  <2>3. Seen(n) = {l[i] : i \in 1 .. k} /\ \A i \in 1 .. k : l[i] \in n.proposes => i - 1 <= y
    BY <2>1 DEF Follows
  <2>4. q \in Seq(Commands) /\ l \in Seq(Commands) /\ IsInjective(l) /\ Len(l) \in Nat
    BY <1>2, <1>3 DEF History
  <2> HIDE DEF n, g, l, W, y, q
  <2>5. k \in Nat /\ k <= Len(l) /\ y \in Int /\ y + 1 \in 0 .. Len(l) /\ y + 1 <= k
    BY <2>2, <2>4
  <2>6. \A i \in 1 .. y + 1 : l[i] \notin ToSet(q)
    <3>1. \A i \in 1 .. y + 1 : i \in 1 .. k
      BY <2>5
    <3> QED
      BY <2>2, <2>3, <3>1 DEF W
  <2>7. /\ IsPrefix(p, l) /\ IsInjective(p \o q)
        /\ \A i \in 1 .. y + 1 : l[i] \in ToSet(p \o q)
        /\ \A c \in ToSet(q) : c \in ToSet(p \o q)
    <3> DEFINE z == y + 1
    <3>1. z \in 0 .. Len(l) /\ \A i \in 1 .. z : l[i] \notin ToSet(q)
      BY <2>5, <2>6
    <3> HIDE DEF z
    <3>2. LET p1 == SubSeq(l, 1, z)
              x == p1 \o q
          IN  /\ IsPrefix(p1, l) /\ IsInjective(x)
              /\ \A i \in 1 .. z : l[i] \in ToSet(x)
              /\ \A c \in ToSet(q) : c \in ToSet(x)
      BY <2>2, <2>4, <3>1, Joined
    <3> QED
      BY <3>2 DEF z
  <2>8. n.proposes \subseteq ToSet(p \o q)
    <3> SUFFICES ASSUME NEW c \in n.proposes PROVE c \in ToSet(p \o q)
      OBVIOUS
    <3>1. CASE c \in Seen(n)
      <4>1. PICK i \in 1 .. k : l[i] = c
        BY <2>3, <3>1
      <4>2. i - 1 <= y
        BY <2>3, <4>1
      <4>3. i \in 1 .. y + 1
        BY <2>5, <4>2
      <4> QED
        BY <2>7, <4>1, <4>3
    <3>2. CASE c \notin Seen(n)
      BY <2>2, <2>7, <3>2 DEF W
    <3> QED
      BY <3>1, <3>2
  <2> HIDE DEF p
  <2> QED
    BY <1>2, <2>2, <2>7, <2>8 DEF n, g, l, q
<1> QED
  BY <1>4, <1>5

\* The path a reply's hash stands for is what the leader had executed, to the command.
THEOREM SwiftRepliesHashHistory == Spec => []RepliesHashHistory
<1>1. Typed /\ Ordered => RepliesHashHistory
  BY OrderedHashes
<1> QED
  BY <1>1, OrderedAlways, PTL

\* A follower's log begins with a path of the leader, names no command twice, and misses
\* none that was proposed to it once the hashes that came first are applied.
THEOREM SwiftPaths == Spec => []Paths
<1>1. Typed /\ Ordered => Paths
  BY OrderedPaths
<1> QED
  BY <1>1, OrderedAlways, PTL
====
