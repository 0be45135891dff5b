---------------------------- MODULE SwiftProofs ----------------------------
(***************************************************************************)
(* Proofs about Swift, for every group, set of commands and leaders: what  *)
(* each handler does to a replica's record, the types, and that nothing is *)
(* executed twice.                                                         *)
(***************************************************************************)
EXTENDS Swift, Induction, FiniteSetTheorems

USE NAssumption, CommandsAssumption, BallotAssumption, NilAssumption

(***************************************************************************)
(* What the handlers of acks do to a replica's state.                      *)
(***************************************************************************)
Good(n, r) == n \in Node /\ Sane(n, r)

\* A list of acks as it was and with acks of the ballot.
Grown(p, q, b) ==
  /\ Len(p) <= Len(q)
  /\ \A i \in 1 .. Len(q) : (i <= Len(p) /\ q[i] = p[i]) \/ q[i].ballot = b

\* The state m of replica r comes after n, with no proposal nor change of leader between.
Same(n, m) ==
  /\ m.dead = n.dead /\ m.status = n.status /\ m.ballot = n.ballot /\ m.cballot = n.cballot
  /\ m.lastCmd = n.lastCmd /\ m.lastWrite = n.lastWrite /\ m.log = n.log
  /\ m.proposes = n.proposes /\ m.again = n.again
  /\ m.pendingHashUpds = n.pendingHashUpds /\ m.kept = n.kept /\ m.accepts = n.accepts
  /\ m.noted = n.noted /\ m.deliverChan = n.deliverChan

After(n, m, r) ==
  /\ Same(n, m)
  /\ m.queued \subseteq n.queued
  /\ Delivered(n) \subseteq Delivered(m)
  /\ \A c \in Commands :
       /\ Grown(n.acked[c], m.acked[c], n.ballot)
       /\ n.desc[c].propose => m.desc[c].propose
       /\ m.desc[c].noop => n.desc[c].noop
       /\ \/ m.desc[c].phase = n.desc[c].phase
          \/ m.desc[c].phase \in {"ACCEPT", "COMMIT"}
          \/ ~ n.desc[c].propose
  /\ m.heard[Leader(n.ballot)] = n.heard[Leader(n.ballot)]
  /\ \A s \in Replicas, c \in Commands : m.heard[s][c] = n.heard[s][c] \/ m.heard[s][c] = Nil
  /\ ~ IsLeader(n, r) => m.replies = n.replies

LEMMA Division ==
  ASSUME NEW n \in Nat \ {0}, NEW a \in Nat
  PROVE  a % n \in 0 .. n - 1 /\ a \div n \in Nat
  BY SMT

\* There are replicas, a majority of them is more than half, and a ballot has a leader.
LEMMA Group ==
  /\ IsFiniteSet(Replicas) /\ Cardinality(Replicas) = N
  /\ Majority \in 1 .. N /\ Majority + Majority > N
  /\ \A b \in Nat : Leader(b) \in Replicas
  /\ Leader(0) = 0 /\ 0 \in Replicas /\ Replicas \subseteq Nat
<1>1. IsFiniteSet(Replicas) /\ Cardinality(Replicas) = N
  BY FS_Interval DEF Replicas
<1>2. Majority \in 1 .. N /\ Majority + Majority > N
  BY DEF Majority
<1>3. \A b \in Nat : b % N \in 0 .. N - 1
  BY Division
<1>4. 0 % N = 0
  OBVIOUS
<1> QED
  BY <1>1, <1>2, <1>3, <1>4 DEF Leader, Replicas

LEMMA GrownTrans ==
  ASSUME NEW p \in Seq(Ack), NEW q \in Seq(Ack), NEW s \in Seq(Ack), NEW b,
         Grown(p, q, b), Grown(q, s, b)
  PROVE  Grown(p, s, b)
<1>1. Len(p) \in Nat /\ Len(q) \in Nat /\ Len(s) \in Nat
  OBVIOUS
<1>2. \A i \in 1 .. Len(s) : i <= Len(q) => i \in 1 .. Len(q)
  BY <1>1
<1> QED
  BY <1>1, <1>2 DEF Grown

LEMMA AfterSelf ==
  ASSUME NEW n \in Node, NEW r
  PROVE  After(n, n, r)
<1>1. \A c \in Commands : n.acked[c] \in Seq(Ack) /\ Len(n.acked[c]) \in Nat
  BY DEF Node
<1> QED
  BY <1>1 DEF After, Same, Grown

LEMMA AfterTrans ==
  ASSUME NEW n \in Node, NEW m \in Node, NEW k \in Node, NEW r, After(n, m, r), After(m, k, r)
  PROVE  After(n, k, r)
<1>1. \A c \in Commands : n.acked[c] \in Seq(Ack) /\ m.acked[c] \in Seq(Ack) /\ k.acked[c] \in Seq(Ack)
  BY DEF Node
<1>2. m.ballot = n.ballot
  BY DEF After, Same
<1>3. \A c \in Commands : Grown(n.acked[c], k.acked[c], n.ballot)
  BY <1>1, <1>2, GrownTrans DEF After
<1>4. Same(n, k)
  BY DEF After, Same
<1>5. Delivered(n) \subseteq Delivered(k) /\ k.queued \subseteq n.queued
  BY DEF After
<1>6. \A c \in Commands :
       /\ n.desc[c].propose => k.desc[c].propose
       /\ k.desc[c].noop => n.desc[c].noop
       /\ \/ k.desc[c].phase = n.desc[c].phase
          \/ k.desc[c].phase \in {"ACCEPT", "COMMIT"}
          \/ ~ n.desc[c].propose
  BY DEF After
<1>7. k.heard[Leader(n.ballot)] = n.heard[Leader(n.ballot)]
  BY <1>2 DEF After
<1>8. \A s \in Replicas, c \in Commands : k.heard[s][c] = n.heard[s][c] \/ k.heard[s][c] = Nil
  BY DEF After
<1>9. ~ IsLeader(n, r) => k.replies = n.replies
  BY <1>2 DEF After, IsLeader
<1> QED
  BY <1>3, <1>4, <1>5, <1>6, <1>7, <1>8, <1>9 DEF After

\* Other descriptors.
LEMMA DescsChanged ==
  ASSUME NEW r \in Replicas, NEW n, Good(n, r), NEW D \in [Commands -> Desc],
         \A c \in Commands :
           /\ D[c].propose = n.desc[c].propose /\ D[c].proposeDep = n.desc[c].proposeDep
           /\ D[c].noop = n.desc[c].noop
           /\ D[c].waiting \subseteq n.desc[c].waiting
           /\ D[c].phase = n.desc[c].phase \/ D[c].phase \in {"ACCEPT", "COMMIT"}
  PROVE  LET m == [n EXCEPT !.desc = D]
         IN  /\ Good(m, r) /\ After(n, m, r)
             /\ m.desc = D /\ m.acked = n.acked /\ m.executed = n.executed /\ m.seqnum = n.seqnum
<1> DEFINE m == [n EXCEPT !.desc = D]
<1>1. m \in Node /\ m.desc = D /\ m.acked = n.acked /\ m.executed = n.executed /\ m.seqnum = n.seqnum
      /\ m.queued = n.queued /\ Same(n, m) /\ m.heard = n.heard /\ m.replies = n.replies
  BY DEF Node, Good, Same
<1> HIDE DEF m
<1>2. \A c \in Commands : n.acked[c] \in Seq(Ack) /\ Len(n.acked[c]) \in Nat
  BY DEF Node, Good
<1>3. After(n, m, r)
  BY <1>1, <1>2 DEF After, Grown, Delivered
<1>4. Sane(m, r)
  BY <1>1 DEF Good, Sane, Same, Delivered
<1> QED
  BY <1>1, <1>3, <1>4 DEF Good, m

LEMMA Appended ==
  ASSUME NEW S, NEW s \in Seq(S), NEW e \in S
  PROVE  /\ Append(s, e) \in Seq(S) /\ ToSet(Append(s, e)) = ToSet(s) \cup {e}
         /\ e \notin ToSet(s) /\ IsInjective(s) => IsInjective(Append(s, e))
<1> DEFINE x == Append(s, e)
<1>1. DOMAIN s = 1 .. Len(s) /\ Len(s) \in Nat /\ DOMAIN x = 1 .. Len(s) + 1 /\ x \in Seq(S)
  OBVIOUS
<1>2. (\A i \in 1 .. Len(s) : x[i] = s[i]) /\ x[Len(s) + 1] = e
  OBVIOUS
<1> HIDE DEF x
<1>3. ToSet(x) = ToSet(s) \cup {e}
  BY <1>1, <1>2 DEF ToSet
<1>4. e \notin ToSet(s) /\ IsInjective(s) => IsInjective(x)
  BY <1>1, <1>2 DEF ToSet, IsInjective
<1> QED
  BY <1>1, <1>3, <1>4 DEF x

LEMMA NewDescTyped == NewDesc \in Desc /\ NewMsgSet \in MsgSet
<1>1. <<>> \in UNION {[s -> {Nil} \cup Deps] : s \in SUBSET Replicas}
  <2>1. <<>> \in [{} -> {Nil} \cup Deps]
    OBVIOUS
  <2> QED
    BY <2>1
<1>2. NewMsgSet \in MsgSet
  BY <1>1 DEF MsgSet, NewMsgSet
<1>3. <<>> \in Path
  BY DEF Path
<1>4. NewDesc \in Desc
  BY <1>2, <1>3 DEF NewDesc, Desc, Phases, Deps, NoHash
<1> QED
  BY <1>2, <1>4

\* A delivery.
LEMMA Delivers ==
  ASSUME NEW r \in Replicas, NEW n, Good(n, r), NEW c \in Commands
  PROVE  LET m == Deliver(n, r, c)
         IN  /\ Good(m, r) /\ After(n, m, r)
             /\ m.acked = n.acked /\ m.seqnum = n.seqnum
             /\ \A e \in Commands \ {c} : m.desc[e] = n.desc[e]
             /\ Delivered(m) \subseteq Delivered(n) \cup {c}
<1> DEFINE m == Deliver(n, r, c)
<1>1. CASE ~ Deliverable(n, r, c)
  BY <1>1, AfterSelf DEF Deliver, Good
<1>2. CASE Deliverable(n, r, c)
  <2> DEFINE d == [NewDesc EXCEPT !.propose = TRUE, !.phase = "COMMIT",
                                  !.dep = n.desc[c].dep, !.noop = n.desc[c].noop,
                                  !.successors = n.desc[c].successors]
             h == [s \in Replicas |-> IF s = Leader(n.ballot) THEN n.heard[s]
                                      ELSE [n.heard[s] EXCEPT ![c] = Nil]]
             rs == IF IsLeader(n, r) THEN n.replies \cup {Reply(n, c, "result")} ELSE n.replies
             w == IF n.desc[c].successors = {} THEN n.unwoken ELSE n.unwoken \cup {c}
             o == IF n.desc[c].noop THEN n.noops \cup {c} ELSE n.noops
             x == Append(n.executed, c)
             k == [n EXCEPT !.executed = x, !.noops = o, !.unwoken = w, !.heard = h, !.replies = rs,
                            !.desc = [n.desc EXCEPT ![c] = d]]
  <2>1. m = k
    BY <1>2 DEF Deliver, Good, Node
  <2>3. d \in Desc /\ d.propose = TRUE /\ d.phase = "COMMIT" /\ d.waiting = {} /\ d.noop = n.desc[c].noop
    <3>1. n.desc[c].dep \in Deps /\ n.desc[c].successors \in Deps /\ n.desc[c].noop \in BOOLEAN
      BY DEF Good, Node, Desc
    <3> QED
      BY <3>1, NewDescTyped DEF Desc, NewDesc, Phases
  <2>4. h \in [Replicas -> [Commands -> {Nil} \cup Nat]]
    BY DEF Good, Node
  <2>5. rs \in SUBSET [cmd : Commands, ballot : Nat, hs : Path, val : {"result", "none"}]
    <3>1. n.desc[c].hs \in Path /\ n.ballot \in Nat
      BY DEF Good, Node, Desc
    <3>2. n.replies \in SUBSET [cmd : Commands, ballot : Nat, hs : Path, val : {"result", "none"}]
      BY DEF Good, Node
    <3> QED
      BY <3>1, <3>2 DEF Reply
  <2>6. w \in Deps /\ o \in Deps
    BY DEF Good, Node, Deps
  <2>7. x \in Path /\ ToSet(x) = ToSet(n.executed) \cup {c} /\ IsInjective(x)
    <3>1. n.executed \in Seq(Commands) /\ c \notin ToSet(n.executed) /\ IsInjective(n.executed)
      BY <1>2 DEF Good, Node, Path, Sane, Deliverable, Delivered
    <3> QED
      BY <3>1, Appended DEF Path
  <2> HIDE DEF d, h, rs, w, o, x
  <2>8. /\ k \in Node /\ Same(n, k) /\ k.queued = n.queued /\ k.acked = n.acked /\ k.seqnum = n.seqnum /\ k.executed = x
        /\ k.heard = h /\ k.replies = rs /\ k.desc = [n.desc EXCEPT ![c] = d]
    BY <2>3, <2>4, <2>5, <2>6, <2>7 DEF Good, Node, Same
  <2>9. n.desc \in [Commands -> Desc] /\ n.desc[c].propose
    BY <1>2 DEF Good, Node, Deliverable
  <2> HIDE DEF k
  <2>10. \A e \in Commands : n.acked[e] \in Seq(Ack) /\ Len(n.acked[e]) \in Nat
    BY DEF Node, Good
  <2>11. \A e \in Commands : e # c => k.desc[e] = n.desc[e]
    BY <2>8, <2>9
  <2>12. k.desc[c] = d
    BY <2>8, <2>9
  <2>13. Delivered(k) = Delivered(n) \cup {c}
    BY <2>7, <2>8 DEF Delivered
  <2>14. After(n, k, r)
    <3>1. k.heard[Leader(n.ballot)] = n.heard[Leader(n.ballot)]
      BY <2>8, Group DEF h, Good, Node
    <3>2. \A s \in Replicas, e \in Commands : k.heard[s][e] = n.heard[s][e] \/ k.heard[s][e] = Nil
      BY <2>8 DEF h, Good, Node
    <3>3. ~ IsLeader(n, r) => k.replies = n.replies
      BY <2>8 DEF rs
    <3>4. \A e \in Commands : Grown(n.acked[e], k.acked[e], n.ballot)
      BY <2>8, <2>10 DEF Grown
    <3>5. \A e \in Commands :
            /\ k.desc[e].propose = n.desc[e].propose /\ k.desc[e].noop = n.desc[e].noop
            /\ k.desc[e].phase = n.desc[e].phase \/ k.desc[e].phase \in {"ACCEPT", "COMMIT"}
      BY <2>3, <2>9, <2>11, <2>12
    <3> QED
      BY <2>8, <2>13, <3>1, <3>2, <3>3, <3>4, <3>5 DEF After
  <2>15. Sane(k, r)
    <3>1. Sane(n, r) /\ n.queued \subseteq n.proposes /\ c \in n.proposes
      BY <2>9 DEF Good, Sane
    <3>2. \A e \in Commands :
            /\ k.desc[e].propose => e \in k.proposes
            /\ e \in Delivered(k) => k.desc[e].propose /\ k.desc[e].waiting = {}
            /\ e \in k.queued => k.desc[e].propose \/ k.desc[e].proposeDep # Nil
            /\ \A a \in k.desc[e].waiting : k.status = "NORMAL" /\ a.ballot = k.ballot => a.dep # Nil
      BY <2>3, <2>8, <2>11, <2>12, <2>13, <3>1 DEF Sane, Same
    <3> QED
      BY <2>7, <2>8, <3>1, <3>2 DEF Sane, Same
  <2> QED
    BY <2>1, <2>8, <2>11, <2>13, <2>14, <2>15 DEF Good
<1> QED
  BY <1>1, <1>2

\* The handler of a complete set.
LEMMA Handles ==
  ASSUME NEW r \in Replicas, NEW n, Good(n, r), NEW c \in Commands
  PROVE  LET m == HandleAcks(n, r, c)
         IN  Good(m, r) /\ After(n, m, r) /\ m.acked = n.acked /\ m.seqnum = n.seqnum
<1> DEFINE D == [n.desc EXCEPT ![c] = [n.desc[c] EXCEPT !.phase = "COMMIT"]]
           n1 == [n EXCEPT !.desc = D]
           E == [e \in Commands |->
                  IF e \in n1.desc[c].dep /\ e \notin Delivered(n1)
                  THEN [n1.desc[e] EXCEPT !.successors = @ \cup {c}] ELSE n1.desc[e]]
           n2 == [n1 EXCEPT !.desc = E]
<1>1. n.desc \in [Commands -> Desc] /\ n \in Node
  BY DEF Good, Node
<1>2. D \in [Commands -> Desc]
      /\ \A e \in Commands :
           /\ D[e].propose = n.desc[e].propose /\ D[e].proposeDep = n.desc[e].proposeDep
           /\ D[e].noop = n.desc[e].noop
           /\ D[e].waiting \subseteq n.desc[e].waiting
           /\ D[e].phase = n.desc[e].phase \/ D[e].phase \in {"ACCEPT", "COMMIT"}
  BY <1>1 DEF Desc, Phases
<1> HIDE DEF D
<1>3. Good(n1, r) /\ After(n, n1, r) /\ n1.acked = n.acked /\ n1.seqnum = n.seqnum
  BY <1>2, DescsChanged
<1>4. n1 = [n EXCEPT !.desc[c].phase = "COMMIT"]
  BY <1>1 DEF Node, Desc, D
<1> HIDE DEF n1
<1>5. n1.desc \in [Commands -> Desc] /\ n1 \in Node
  BY <1>3 DEF Good, Node
<1>6. E \in [Commands -> Desc]
      /\ \A e \in Commands :
           /\ E[e].propose = n1.desc[e].propose /\ E[e].proposeDep = n1.desc[e].proposeDep
           /\ E[e].noop = n1.desc[e].noop
           /\ E[e].waiting \subseteq n1.desc[e].waiting
           /\ E[e].phase = n1.desc[e].phase \/ E[e].phase \in {"ACCEPT", "COMMIT"}
  BY <1>5 DEF Desc, Deps
<1>7. n2 = Registered(n1, c)
  BY DEF Registered
<1> HIDE DEF E
<1>8. Good(n2, r) /\ After(n1, n2, r) /\ n2.acked = n1.acked /\ n2.seqnum = n1.seqnum
  BY <1>3, <1>6, DescsChanged
<1> HIDE DEF n2
<1> DEFINE m == Deliver(n2, r, c)
<1>9. Good(m, r) /\ After(n2, m, r) /\ m.acked = n2.acked /\ m.seqnum = n2.seqnum
  BY <1>8, Delivers
<1>10. m = HandleAcks(n, r, c)
  BY <1>4, <1>7 DEF HandleAcks
<1> HIDE DEF m
<1>11. After(n, n2, r)
  BY <1>3, <1>8, AfterTrans DEF Good
<1>12. After(n, m, r)
  BY <1>3, <1>8, <1>9, <1>11, AfterTrans DEF Good
<1> QED
  BY <1>3, <1>8, <1>9, <1>10, <1>12

\* An ack put into a set.
LEMMA AddedTyped ==
  ASSUME NEW ms \in MsgSet, NEW from \in Replicas, NEW led \in BOOLEAN, NEW dep \in {Nil} \cup Deps
  PROVE  Added(ms, from, led, dep) \in MsgSet
<1>1. PICK s \in SUBSET Replicas : ms.msgs \in [s -> {Nil} \cup Deps]
  BY DEF MsgSet
<1>2. CASE led
  <2> DEFINE f == Restrict(ms.msgs, {q \in DOMAIN ms.msgs : Accepts(ms.msgs[q], <<dep>>)})
  <2>1. f \in [{q \in s : Accepts(ms.msgs[q], <<dep>>)} -> {Nil} \cup Deps]
    BY <1>1 DEF Restrict
  <2>2. f \in UNION {[q -> {Nil} \cup Deps] : q \in SUBSET Replicas}
    BY <2>1
  <2> HIDE DEF f
  <2> QED
    BY <1>2, <2>2 DEF Added, MsgSet, f
<1>3. CASE ~ led /\ Accepts(dep, ms.leader)
  <2> DEFINE f == [q \in DOMAIN ms.msgs \cup {from} |-> IF q = from THEN dep ELSE ms.msgs[q]]
  <2>1. f \in [s \cup {from} -> {Nil} \cup Deps]
    BY <1>1
  <2>2. f \in UNION {[q -> {Nil} \cup Deps] : q \in SUBSET Replicas}
    BY <2>1
  <2> HIDE DEF f
  <2>3. Added(ms, from, led, dep) = [ms EXCEPT !.msgs = f]
    BY <1>3 DEF Added, f, MsgSet
  <2> QED
    BY <2>2, <2>3 DEF MsgSet
<1> QED
  BY <1>2, <1>3 DEF Added

\* An ack handled.
LEMMA Adds ==
  ASSUME NEW r \in Replicas, NEW n, Good(n, r), NEW c \in Commands, NEW path \in {"slow", "fast"},
         NEW from \in Replicas, NEW dep \in {Nil} \cup Deps
  PROVE  LET m == AddAck(n, r, c, path, from, dep)
         IN  Good(m, r) /\ After(n, m, r) /\ m.acked = n.acked /\ m.seqnum = n.seqnum
<1> DEFINE ms == Added(n.desc[c].acks[path], from, from = Leader(n.ballot), dep)
           D == [n.desc EXCEPT ![c] = [n.desc[c] EXCEPT !.acks = [n.desc[c].acks EXCEPT ![path] = ms]]]
           n1 == [n EXCEPT !.desc = D]
<1>1. n.desc \in [Commands -> Desc] /\ n \in Node
  BY DEF Good, Node
<1>2. n.desc[c].acks[path] \in MsgSet
  BY <1>1 DEF Desc
<1>3. ms \in MsgSet
  BY <1>2, AddedTyped
<1> HIDE DEF ms
<1>4. D \in [Commands -> Desc]
      /\ \A e \in Commands :
           /\ D[e].propose = n.desc[e].propose /\ D[e].proposeDep = n.desc[e].proposeDep
           /\ D[e].noop = n.desc[e].noop
           /\ D[e].waiting \subseteq n.desc[e].waiting
           /\ D[e].phase = n.desc[e].phase \/ D[e].phase \in {"ACCEPT", "COMMIT"}
  BY <1>1, <1>3 DEF Desc
<1> HIDE DEF D
<1>5. Good(n1, r) /\ After(n, n1, r) /\ n1.acked = n.acked /\ n1.seqnum = n.seqnum
  BY <1>4, DescsChanged
<1>6. n1 = [n EXCEPT !.desc[c].acks[path] = Added(@, from, from = Leader(n.ballot), dep)]
  BY <1>1 DEF Node, Desc, D, ms
<1> HIDE DEF n1
<1>7. CASE AddAck(n, r, c, path, from, dep) = n
  BY <1>7, <1>1, AfterSelf
<1>8. CASE AddAck(n, r, c, path, from, dep) = n1
  BY <1>5, <1>8
<1>9. CASE AddAck(n, r, c, path, from, dep) = HandleAcks(n1, r, c)
  <2> DEFINE m == HandleAcks(n1, r, c)
  <2>1. Good(m, r) /\ After(n1, m, r) /\ m.acked = n1.acked /\ m.seqnum = n1.seqnum
    BY <1>5, Handles
  <2> HIDE DEF m
  <2>2. After(n, m, r)
    BY <1>5, <2>1, AfterTrans DEF Good
  <2> QED
    BY <1>5, <1>9, <2>1, <2>2 DEF m
<1> QED
  BY <1>6, <1>7, <1>8, <1>9 DEF AddAck, AfterAck

LEMMA CommonCase ==
  ASSUME NEW r \in Replicas, NEW n, Good(n, r), NEW c \in Commands, NEW from \in Replicas,
         NEW a \in Ack
  PROVE  LET m == CommonCaseFastAck(n, r, c, from, a)
         IN  Good(m, r) /\ After(n, m, r) /\ m.acked = n.acked /\ m.seqnum = n.seqnum
<1> DEFINE n1 == IF a.dep # Nil THEN n ELSE AddAck(n, r, c, "slow", from, Nil)
           n2 == AddAck(n1, r, c, "fast", from, a.dep)
<1>1. n \in Node /\ After(n, n, r)
  BY AfterSelf DEF Good
<1>2. a.dep \in {Nil} \cup Deps /\ Nil \in {Nil} \cup Deps
  BY DEF Ack
<1>3. Good(n1, r) /\ After(n, n1, r) /\ n1.acked = n.acked /\ n1.seqnum = n.seqnum
  BY <1>1, <1>2, Adds
<1> HIDE DEF n1
<1>4. Good(n2, r) /\ After(n1, n2, r) /\ n2.acked = n1.acked /\ n2.seqnum = n1.seqnum
  BY <1>2, <1>3, Adds
<1> HIDE DEF n2
<1>5. After(n, n2, r)
  BY <1>1, <1>3, <1>4, AfterTrans DEF Good
<1>6. CommonCaseFastAck(n, r, c, from, a) = n \/ CommonCaseFastAck(n, r, c, from, a) = n2
  BY DEF CommonCaseFastAck, n1, n2
<1> QED
  BY <1>1, <1>3, <1>4, <1>5, <1>6

\* Acks are sent.
LEMMA AckedChanged ==
  ASSUME NEW r \in Replicas, NEW n, Good(n, r), NEW c \in Commands, NEW q \in Seq(Ack),
         Grown(n.acked[c], q, n.ballot),
         \A i \in 1 .. Len(q) : q[i].ballot <= n.ballot /\ (Leader(q[i].ballot) = r => q[i].dep # Nil)
  PROVE  LET m == [n EXCEPT !.acked = [n.acked EXCEPT ![c] = q]]
         IN  /\ Good(m, r) /\ After(n, m, r) /\ m.seqnum = n.seqnum /\ m.desc = n.desc
             /\ m.executed = n.executed /\ m.acked = [n.acked EXCEPT ![c] = q]
<1> DEFINE A == [n.acked EXCEPT ![c] = q]
           m == [n EXCEPT !.acked = A]
<1>1. A \in [Commands -> Seq(Ack)] /\ n.acked \in [Commands -> Seq(Ack)] /\ A[c] = q
      /\ \A e \in Commands : e # c => A[e] = n.acked[e]
  BY DEF Good, Node
<1> HIDE DEF A
<1>2. /\ m \in Node /\ Same(n, m) /\ m.queued = n.queued /\ m.seqnum = n.seqnum /\ m.desc = n.desc
      /\ m.executed = n.executed /\ m.acked = A /\ m.heard = n.heard /\ m.replies = n.replies
  BY <1>1 DEF Good, Node, Same
<1> HIDE DEF m
<1>3. \A e \in Commands : Grown(n.acked[e], A[e], n.ballot)
  <2>1. \A e \in Commands : Grown(n.acked[e], n.acked[e], n.ballot)
    BY AfterSelf DEF Good, After
  <2> QED
    BY <1>1, <2>1
<1>4. After(n, m, r)
  BY <1>2, <1>3 DEF After, Delivered
<1>5. \A e \in Commands : \A i \in 1 .. Len(A[e]) :
        A[e][i].ballot <= n.ballot /\ (Leader(A[e][i].ballot) = r => A[e][i].dep # Nil)
  BY <1>1 DEF Good, Sane
<1>6. Sane(m, r)
  BY <1>2, <1>5 DEF Good, Sane, Same, Delivered
<1> QED
  BY <1>2, <1>4, <1>6 DEF Good, m, A

LEMMA Sends ==
  ASSUME NEW r \in Replicas, NEW n, Good(n, r), NEW c \in Commands, NEW a \in Ack,
         a.ballot = n.ballot, IsLeader(n, r) => a.dep # Nil
  PROVE  LET m == Send(n, c, a)
         IN  /\ Good(m, r) /\ After(n, m, r) /\ m.seqnum = n.seqnum /\ m.desc = n.desc
             /\ m.executed = n.executed /\ m.acked = [n.acked EXCEPT ![c] = Append(n.acked[c], a)]
             /\ m.acked[c] # <<>>
<1> DEFINE p == n.acked[c]
           q == Append(p, a)
<1>1. p \in Seq(Ack) /\ n.ballot \in Nat
  BY DEF Good, Node
<1>2. \A i \in 1 .. Len(p) : p[i].ballot <= n.ballot /\ (Leader(p[i].ballot) = r => p[i].dep # Nil)
  BY DEF Good, Sane
<1> HIDE DEF p
<1>3. q \in Seq(Ack) /\ Len(q) = Len(p) + 1 /\ Len(p) \in Nat /\ q[Len(p) + 1] = a
      /\ \A i \in 1 .. Len(p) : q[i] = p[i]
  BY <1>1
<1> HIDE DEF q
<1>4. Grown(p, q, n.ballot)
  BY <1>3 DEF Grown
<1>5. \A i \in 1 .. Len(q) : q[i].ballot <= n.ballot /\ (Leader(q[i].ballot) = r => q[i].dep # Nil)
  <2>1. \A i \in 1 .. Len(q) : i \in 1 .. Len(p) \/ i = Len(p) + 1
    BY <1>3
  <2> QED
    BY <1>1, <1>2, <1>3, <2>1 DEF IsLeader
<1>6. Send(n, c, a) = [n EXCEPT !.acked = [n.acked EXCEPT ![c] = q]]
  BY DEF Send, Good, Node, p, q
<1> DEFINE m == [n EXCEPT !.acked = [n.acked EXCEPT ![c] = q]]
<1>7. /\ Good(m, r) /\ After(n, m, r) /\ m.seqnum = n.seqnum /\ m.desc = n.desc
      /\ m.executed = n.executed /\ m.acked = [n.acked EXCEPT ![c] = q]
  BY <1>3, <1>4, <1>5, AckedChanged DEF p
<1> HIDE DEF m
<1>8. q # <<>> /\ m.acked[c] = q
  BY <1>3, <1>7 DEF Good, Node
<1> QED
  BY <1>6, <1>7, <1>8 DEF q, p, m

LEMMA SlowAckTyped ==
  ASSUME NEW n \in Node
  PROVE  SlowAck(n) \in Ack /\ SlowAck(n).ballot = n.ballot /\ SlowAck(n).dep = Nil
<1>1. <<>> \in Path
  BY DEF Path
<1> QED
  BY <1>1 DEF SlowAck, Ack, Node, NoHash

LEMMA SendsSlow ==
  ASSUME NEW r \in Replicas, NEW n, Good(n, r), NEW c \in Commands, NEW merge \in BOOLEAN,
         ~ IsLeader(n, r)
  PROVE  LET m == SendSlow(n, c, merge)
         IN  /\ Good(m, r) /\ After(n, m, r) /\ m.seqnum = n.seqnum /\ m.desc = n.desc
             /\ m.executed = n.executed /\ \A e \in Commands \ {c} : m.acked[e] = n.acked[e]
             /\ m.acked[c] # <<>>
<1> DEFINE p == n.acked[c]
           a == SlowAck(n)
<1>1. p \in Seq(Ack) /\ n.ballot \in Nat /\ n.acked \in [Commands -> Seq(Ack)]
  BY DEF Good, Node
<1>2. a \in Ack /\ a.ballot = n.ballot
  BY SlowAckTyped DEF Good
<1> HIDE DEF a
<1>3. CASE merge /\ p # <<>> /\ Last(p).ballot = n.ballot
  <2> DEFINE q == Append(Front(p), a)
  <2>1. Len(p) \in Nat \ {0} /\ Last(p) = p[Len(p)] /\ Front(p) = SubSeq(p, 1, Len(p) - 1)
    BY <1>1, <1>3 DEF Front, Last
  <2>2. Front(p) \in Seq(Ack) /\ Len(Front(p)) = Len(p) - 1
        /\ \A i \in 1 .. Len(p) - 1 : Front(p)[i] = p[i]
    BY <1>1, <2>1
  <2>3. q \in Seq(Ack) /\ Len(q) = Len(p) /\ q[Len(p)] = a /\ \A i \in 1 .. Len(p) - 1 : q[i] = p[i]
    BY <1>2, <2>1, <2>2
  <2>4. \A i \in 1 .. Len(p) : p[i].ballot <= n.ballot /\ (Leader(p[i].ballot) = r => p[i].dep # Nil)
    BY DEF Good, Sane
  <2> HIDE DEF p, q
  <2>5. \A i \in 1 .. Len(q) : i \in 1 .. Len(p) - 1 \/ i = Len(p)
    BY <2>1, <2>3
  <2>6. Grown(p, q, n.ballot)
    BY <1>2, <2>1, <2>3, <2>5 DEF Grown
  <2>7. \A i \in 1 .. Len(q) : q[i].ballot <= n.ballot /\ (Leader(q[i].ballot) = r => q[i].dep # Nil)
    <3>1. \A i \in 1 .. Len(p) - 1 : i \in 1 .. Len(p)
      BY <2>1
    <3> QED
      BY <1>1, <1>2, <2>3, <2>4, <2>5, <3>1 DEF IsLeader
  <2>8. SendSlow(n, c, merge) = [n EXCEPT !.acked = [n.acked EXCEPT ![c] = q]]
    BY <1>3 DEF SendSlow, Good, Node, p, q, a
  <2>9. q # <<>>
    BY <2>1, <2>3
  <2> QED
    BY <1>1, <2>3, <2>6, <2>7, <2>8, <2>9, AckedChanged DEF p
<1>4. CASE ~ (merge /\ p # <<>> /\ Last(p).ballot = n.ballot)
  <2>1. SendSlow(n, c, merge) = Send(n, c, a)
    BY <1>4 DEF SendSlow, a
  <2>2. ~ IsLeader(n, r)
    OBVIOUS
  <2> DEFINE m == Send(n, c, a)
  <2>3. /\ Good(m, r) /\ After(n, m, r) /\ m.seqnum = n.seqnum /\ m.desc = n.desc
        /\ m.executed = n.executed /\ m.acked = [n.acked EXCEPT ![c] = Append(n.acked[c], a)]
        /\ m.acked[c] # <<>>
    BY <1>1, <1>2, <2>2, Sends
  <2> HIDE DEF m
  <2>4. \A e \in Commands \ {c} : m.acked[e] = n.acked[e]
    BY <1>1, <2>3
  <2> QED
    BY <2>1, <2>3, <2>4 DEF m
<1> QED
  BY <1>3, <1>4

LEMMA LeadersAcks ==
  ASSUME NEW r \in Replicas, NEW n, Good(n, r), NEW c \in Commands, NEW dep \in {Nil} \cup Deps
  PROVE  LET m == AcksOfLeader(n, r, c, dep)
         IN  Good(m, r) /\ After(n, m, r) /\ m.acked = n.acked /\ m.seqnum = n.seqnum
<1> DEFINE l == Leader(n.ballot)
           n1 == AddAck(n, r, c, "slow", l, dep)
           n2 == AddAck(n1, r, c, "fast", l, dep)
<1>1. l \in Replicas
  BY Group DEF Good, Node
<1> HIDE DEF l
<1>2. Good(n1, r) /\ After(n, n1, r) /\ n1.acked = n.acked /\ n1.seqnum = n.seqnum
  BY <1>1, Adds
<1> HIDE DEF n1
<1>3. Good(n2, r) /\ After(n1, n2, r) /\ n2.acked = n1.acked /\ n2.seqnum = n1.seqnum
  BY <1>1, <1>2, Adds
<1> HIDE DEF n2
<1>4. After(n, n2, r)
  BY <1>2, <1>3, AfterTrans DEF Good
<1>5. AcksOfLeader(n, r, c, dep) = n2
  BY DEF AcksOfLeader, n1, n2, l
<1> QED
  BY <1>2, <1>3, <1>4, <1>5

LEMMA TakesOver ==
  ASSUME NEW r \in Replicas, NEW n, Good(n, r), NEW c \in Commands, NEW dep \in Deps
  PROVE  LET m == TakenOver(n, c, dep)
         IN  Good(m, r) /\ After(n, m, r) /\ m.acked = n.acked /\ m.seqnum = n.seqnum
<1>1. CASE c \in Delivered(n)
  BY <1>1, AfterSelf DEF TakenOver, Good
<1>2. CASE c \notin Delivered(n)
  <2> DEFINE D == [n.desc EXCEPT ![c] = [n.desc[c] EXCEPT !.dep = dep, !.slowPath = TRUE]]
  <2>1. n.desc \in [Commands -> Desc]
    BY DEF Good, Node
  <2>2. TakenOver(n, c, dep) = [n EXCEPT !.desc = D]
    BY <1>2, <2>1 DEF TakenOver, Good, Node, Desc
  <2>3. D \in [Commands -> Desc]
        /\ \A e \in Commands :
             /\ D[e].propose = n.desc[e].propose /\ D[e].proposeDep = n.desc[e].proposeDep
             /\ D[e].noop = n.desc[e].noop
             /\ D[e].waiting \subseteq n.desc[e].waiting
             /\ D[e].phase = n.desc[e].phase \/ D[e].phase \in {"ACCEPT", "COMMIT"}
    BY <2>1 DEF Desc
  <2> HIDE DEF D
  <2> QED
    BY <2>2, <2>3, DescsChanged
<1> QED
  BY <1>1, <1>2

\* A descriptor in another phase.
LEMMA PhaseChanged ==
  ASSUME NEW r \in Replicas, NEW n, Good(n, r), NEW c \in Commands
  PROVE  LET m == [n EXCEPT !.desc[c].phase = "ACCEPT"]
         IN  Good(m, r) /\ After(n, m, r) /\ m.acked = n.acked /\ m.seqnum = n.seqnum
             /\ m.executed = n.executed
<1> DEFINE D == [n.desc EXCEPT ![c] = [n.desc[c] EXCEPT !.phase = "ACCEPT"]]
<1>1. n.desc \in [Commands -> Desc]
  BY DEF Good, Node
<1>2. [n EXCEPT !.desc[c].phase = "ACCEPT"] = [n EXCEPT !.desc = D]
  BY <1>1 DEF Good, Node, Desc
<1>3. D \in [Commands -> Desc]
      /\ \A e \in Commands :
           /\ D[e].propose = n.desc[e].propose /\ D[e].proposeDep = n.desc[e].proposeDep
           /\ D[e].noop = n.desc[e].noop
           /\ D[e].waiting \subseteq n.desc[e].waiting
           /\ D[e].phase = n.desc[e].phase \/ D[e].phase \in {"ACCEPT", "COMMIT"}
  BY <1>1 DEF Desc, Phases
<1> HIDE DEF D
<1> QED
  BY <1>2, <1>3, DescsChanged

LEMMA FromLeader ==
  ASSUME NEW r \in Replicas, NEW n, Good(n, r), NEW c \in Commands, NEW a \in Ack,
         n.status = "NORMAL" /\ a.ballot = n.ballot => a.dep # Nil, NEW merge \in BOOLEAN
  PROVE  LET m == FastAckFromLeader(n, r, c, a, merge)
         IN  Good(m, r) /\ After(n, m, r) /\ m.seqnum = n.seqnum
             /\ (IsLeader(n, r) => m.acked = n.acked)
             /\ \A e \in Commands \ {c} : m.acked[e] = n.acked[e]
<1> DEFINE n1 == [n EXCEPT !.desc[c].phase = "ACCEPT"]
           n2 == AcksOfLeader(n1, r, c, a.dep)
           n3 == TakenOver(n2, c, a.dep)
           n4 == SendSlow(n3, c, merge)
           n5 == CommonCaseFastAck(n4, r, c, r, SlowAck(n4))
           m == FastAckFromLeader(n, r, c, a, merge)
<1>1. CASE n.status # "NORMAL" \/ n.ballot # a.ballot
  BY <1>1, AfterSelf DEF FastAckFromLeader, Good
<1>2. ASSUME ~ (n.status # "NORMAL" \/ n.ballot # a.ballot)
      PROVE  a.dep \in Deps
  BY <1>2 DEF Ack
<1>3. Good(n1, r) /\ After(n, n1, r) /\ n1.acked = n.acked /\ n1.seqnum = n.seqnum
  BY PhaseChanged
<1> HIDE DEF n1
<1>4. Good(n2, r) /\ After(n1, n2, r) /\ n2.acked = n1.acked /\ n2.seqnum = n1.seqnum
  BY <1>3, LeadersAcks DEF Ack
<1> HIDE DEF n2
<1>5. After(n, n2, r)
  BY <1>3, <1>4, AfterTrans DEF Good
<1>6. CASE ~ (n.status # "NORMAL" \/ n.ballot # a.ballot) /\ IsLeader(n, r)
  <2>1. m = n2
    BY <1>6 DEF FastAckFromLeader, n1, n2
  <2> QED
    BY <1>3, <1>4, <1>5, <2>1
<1>7. CASE ~ (n.status # "NORMAL" \/ n.ballot # a.ballot) /\ ~ IsLeader(n, r)
  <2>1. Good(n3, r) /\ After(n2, n3, r) /\ n3.acked = n2.acked /\ n3.seqnum = n2.seqnum
    BY <1>2, <1>4, <1>7, TakesOver
  <2> HIDE DEF n3
  <2>2. After(n, n3, r)
    BY <1>3, <1>4, <1>5, <2>1, AfterTrans DEF Good
  <2>3. ~ IsLeader(n3, r)
    BY <1>7, <2>2 DEF After, Same, IsLeader
  <2>4. Good(n4, r) /\ After(n3, n4, r) /\ n4.seqnum = n3.seqnum
        /\ \A e \in Commands \ {c} : n4.acked[e] = n3.acked[e]
    BY <2>1, <2>3, SendsSlow
  <2> HIDE DEF n4
  <2>5. SlowAck(n4) \in Ack
    BY <2>4, SlowAckTyped DEF Good
  <2>6. Good(n5, r) /\ After(n4, n5, r) /\ n5.acked = n4.acked /\ n5.seqnum = n4.seqnum
    BY <2>4, <2>5, CommonCase
  <2> HIDE DEF n5
  <2>7. After(n, n4, r)
    BY <2>1, <2>2, <2>4, AfterTrans DEF Good
  <2>8. After(n, n5, r)
    BY <2>4, <2>6, <2>7, AfterTrans DEF Good
  <2>11. SlowAck(n4) = SlowAck(n)
    BY <2>7 DEF After, Same, SlowAck
  <2>9. m = n5
    BY <1>7, <2>11 DEF FastAckFromLeader, n1, n2, n3, n4, n5
  <2>10. n5.seqnum = n.seqnum /\ \A e \in Commands \ {c} : n5.acked[e] = n.acked[e]
    BY <1>3, <1>4, <2>1, <2>4, <2>6
  <2> HIDE DEF m
  <2> QED
    BY <1>7, <2>6, <2>8, <2>9, <2>10 DEF m
<1> QED
  BY <1>1, <1>6, <1>7

\* A leader's ack waits for the proposal.
LEMMA Waits ==
  ASSUME NEW r \in Replicas, NEW n, Good(n, r), NEW c \in Commands, NEW a \in Ack,
         n.status = "NORMAL" /\ a.ballot = n.ballot => a.dep # Nil, ~ n.desc[c].propose
  PROVE  LET m == [n EXCEPT !.desc[c].waiting = @ \cup {a}]
         IN  Good(m, r) /\ After(n, m, r) /\ m.seqnum = n.seqnum /\ m.acked = n.acked
<1> DEFINE D == [n.desc EXCEPT ![c] = [n.desc[c] EXCEPT !.waiting = n.desc[c].waiting \cup {a}]]
           m == [n EXCEPT !.desc = D]
<1>1. n.desc \in [Commands -> Desc]
  BY DEF Good, Node
<1>2. [n EXCEPT !.desc[c].waiting = @ \cup {a}] = [n EXCEPT !.desc = D]
  BY <1>1 DEF Good, Node, Desc
<1>3. D \in [Commands -> Desc]
      /\ \A e \in Commands :
           /\ D[e].propose = n.desc[e].propose /\ D[e].proposeDep = n.desc[e].proposeDep
           /\ D[e].noop = n.desc[e].noop
           /\ D[e].phase = n.desc[e].phase
           /\ D[e].waiting = IF e = c THEN n.desc[e].waiting \cup {a} ELSE n.desc[e].waiting
  BY <1>1 DEF Desc, Phases
<1> HIDE DEF D
<1>4. /\ m \in Node /\ m.desc = D /\ m.acked = n.acked /\ m.executed = n.executed /\ m.seqnum = n.seqnum
      /\ Same(n, m) /\ m.heard = n.heard /\ m.replies = n.replies /\ m.queued = n.queued
  BY <1>3 DEF Node, Good, Same
<1> HIDE DEF m
<1>5. \A e \in Commands : Grown(n.acked[e], n.acked[e], n.ballot)
  BY AfterSelf DEF Good, After
<1>6. After(n, m, r)
  BY <1>3, <1>4, <1>5 DEF After, Delivered
<1>7. Sane(m, r)
  <2>1. c \notin Delivered(n)
    BY DEF Good, Sane
  <2>2. Sane(n, r) /\ n.ballot = m.ballot /\ n.status = m.status
    BY <1>4 DEF Good, Same
  <2>3. \A e \in Commands :
          /\ m.desc[e].propose => e \in m.proposes
          /\ e \in Delivered(m) => m.desc[e].propose /\ m.desc[e].waiting = {}
          /\ e \in m.queued => m.desc[e].propose \/ m.desc[e].proposeDep # Nil
    BY <1>3, <1>4, <2>1, <2>2 DEF Sane, Same, Delivered
  <2>4. \A e \in Commands : \A k \in m.desc[e].waiting :
          m.status = "NORMAL" /\ k.ballot = m.ballot => k.dep # Nil
    <3>1. \A e \in Commands : \A k \in n.desc[e].waiting :
            m.status = "NORMAL" /\ k.ballot = m.ballot => k.dep # Nil
      BY <2>2 DEF Sane
    <3> QED
      BY <1>3, <1>4, <2>2, <3>1
  <2> QED
    BY <1>3, <1>4, <2>2, <2>3, <2>4 DEF Sane, Same, Delivered
<1> QED
  BY <1>2, <1>4, <1>6, <1>7 DEF Good, m

LEMMA CallsAfter ==
  ASSUME NEW r \in Replicas, NEW n, Good(n, r), NEW c \in Commands, NEW a \in Ack,
         n.status = "NORMAL" /\ a.ballot = n.ballot => a.dep # Nil, NEW merge \in BOOLEAN
  PROVE  LET m == CallAfterPropagate(n, r, c, a, merge)
         IN  Good(m, r) /\ After(n, m, r) /\ m.seqnum = n.seqnum
             /\ (IsLeader(n, r) => m.acked = n.acked)
             /\ \A e \in Commands \ {c} : m.acked[e] = n.acked[e]
  BY FromLeader, Waits DEF CallAfterPropagate

LEMMA Recalls ==
  ASSUME NEW r \in Replicas, NEW n, Good(n, r), NEW c \in Commands, n.status = "NORMAL",
         NEW merge \in BOOLEAN
  PROVE  LET m == Recall(n, r, c, merge)
         IN  Good(m, r) /\ After(n, m, r) /\ m.seqnum = n.seqnum
             /\ (IsLeader(n, r) => m.acked = n.acked)
             /\ \A e \in Commands \ {c} : m.acked[e] = n.acked[e]
<1> DEFINE D == [n.desc EXCEPT ![c] = [n.desc[c] EXCEPT !.waiting = {}]]
           n1 == [n EXCEPT !.desc = D]
           now == {a \in n.desc[c].waiting : a.ballot = n.ballot}
           a == CHOOSE a \in now : TRUE
<1>1. n.desc \in [Commands -> Desc]
  BY DEF Good, Node
<1>2. D \in [Commands -> Desc]
      /\ \A e \in Commands :
           /\ D[e].propose = n.desc[e].propose /\ D[e].proposeDep = n.desc[e].proposeDep
           /\ D[e].noop = n.desc[e].noop
           /\ D[e].waiting \subseteq n.desc[e].waiting
           /\ D[e].phase = n.desc[e].phase \/ D[e].phase \in {"ACCEPT", "COMMIT"}
  BY <1>1 DEF Desc
<1>3. [n EXCEPT !.desc[c].waiting = {}] = n1
  BY <1>1 DEF Good, Node, Desc
<1> HIDE DEF D
<1>4. Good(n1, r) /\ After(n, n1, r) /\ n1.acked = n.acked /\ n1.seqnum = n.seqnum
  BY <1>2, DescsChanged
<1> HIDE DEF n1
<1>5. CASE now = {}
  BY <1>3, <1>4, <1>5 DEF Recall
<1>6. CASE now # {}
  <2> DEFINE m == FastAckFromLeader(n1, r, c, a, merge)
  <2>1. a \in n.desc[c].waiting /\ a.ballot = n.ballot
    BY <1>6
  <2> HIDE DEF a
  <2>2. a \in Ack /\ a.dep # Nil
    BY <1>1, <2>1 DEF Desc, Good, Sane
  <2>3. Good(m, r) /\ After(n1, m, r) /\ m.seqnum = n1.seqnum
        /\ (IsLeader(n1, r) => m.acked = n1.acked)
        /\ \A e \in Commands \ {c} : m.acked[e] = n1.acked[e]
    BY <1>4, <2>2, FromLeader
  <2>4. Recall(n, r, c, merge) = m
    BY <1>3, <1>6 DEF Recall, a
  <2> HIDE DEF m
  <2>5. After(n, m, r)
    BY <1>4, <2>3, AfterTrans DEF Good
  <2>6. IsLeader(n, r) => IsLeader(n1, r)
    BY <1>4 DEF After, Same, IsLeader
  <2> QED
    BY <1>4, <2>3, <2>4, <2>5, <2>6
<1> QED
  BY <1>5, <1>6

\* An own ack goes out.
LEMMA OwnAckTyped ==
  ASSUME NEW r \in Replicas, NEW n \in Node, NEW c \in Commands
  PROVE  OwnAck(n, r, c) \in Ack /\ OwnAck(n, r, c).ballot = n.ballot /\ OwnAck(n, r, c).dep # Nil
<1>1. n.desc[c].dep \in Deps /\ n.desc[c].hs \in Path /\ n.ballot \in Nat /\ n.seqnum \in Nat
  BY DEF Node, Desc
<1>2. n.desc[c].dep # Nil
  BY <1>1 DEF Deps
<1> QED
  BY <1>1, <1>2 DEF OwnAck, FastAck, Ack

LEMMA PreAccepts ==
  ASSUME NEW r \in Replicas, NEW n, Good(n, r), NEW c \in Commands, NEW a \in Ack,
         a.ballot = n.ballot, a.dep # Nil, NEW merge \in BOOLEAN
  PROVE  LET m == PreAccepted(n, r, c, a, merge)
         IN  Good(m, r) /\ After(n, m, r) /\ \A e \in Commands \ {c} : m.acked[e] = n.acked[e]
<1> DEFINE n1 == Send(n, c, a)
           m == PreAccepted(n, r, c, a, merge)
<1>1. /\ Good(n1, r) /\ After(n, n1, r) /\ n1.seqnum = n.seqnum /\ n1.desc = n.desc
      /\ n1.executed = n.executed /\ n1.acked = [n.acked EXCEPT ![c] = Append(n.acked[c], a)]
  BY Sends
<1> HIDE DEF n1
<1>2. n.acked \in [Commands -> Seq(Ack)]
  BY DEF Good, Node
<1>3. \A e \in Commands \ {c} : n1.acked[e] = n.acked[e]
  BY <1>1, <1>2
<1>4. CASE ~ IsLeader(n, r)
  <2> DEFINE n2 == CommonCaseFastAck(n1, r, c, r, a)
  <2>1. Good(n2, r) /\ After(n1, n2, r) /\ n2.acked = n1.acked
    BY <1>1, CommonCase
  <2>2. m = n2
    BY <1>4 DEF PreAccepted, n1
  <2> HIDE DEF n2
  <2>3. After(n, n2, r)
    BY <1>1, <2>1, AfterTrans DEF Good
  <2> QED
    BY <1>3, <2>1, <2>2, <2>3
<1>5. CASE IsLeader(n, r)
  <2> DEFINE n2 == [n1 EXCEPT !.seqnum = @ + 1]
             n3 == Deliver(n2, r, c)
             n4 == LeaderPropose(n3, r, c, a, merge)
  <2>1. /\ n2 \in Node /\ Same(n1, n2) /\ n2.queued = n1.queued /\ n2.desc = n1.desc
        /\ n2.acked = n1.acked /\ n2.executed = n1.executed /\ n2.heard = n1.heard
        /\ n2.replies = n1.replies
    <3>1. n1 \in Node
      BY <1>1 DEF Good
    <3>2. n1.seqnum + 1 \in Nat
      BY <3>1 DEF Node
    <3> DEFINE q == n1.seqnum + 1
    <3> HIDE DEF q
    <3>3. [n1 EXCEPT !.seqnum = q] \in Node
      BY <3>1, <3>2 DEF Node, q
    <3> QED
      BY <3>1, <3>3 DEF Node, Same, q
  <2> HIDE DEF n2
  <2>2. Sane(n2, r)
    BY <1>1, <2>1 DEF Good, Sane, Same, Delivered
  <2>3. After(n1, n2, r)
    <3>1. \A e \in Commands : Grown(n1.acked[e], n1.acked[e], n1.ballot)
      BY <1>1, AfterSelf DEF Good, After
    <3> QED
      BY <2>1, <3>1 DEF After, Delivered
  <2>4. Good(n3, r) /\ After(n2, n3, r) /\ n3.acked = n2.acked
    BY <2>1, <2>2, Delivers DEF Good
  <2> HIDE DEF n3
  <2>5. After(n, n2, r)
    BY <1>1, <2>1, <2>3, AfterTrans DEF Good
  <2>6. After(n, n3, r)
    BY <1>1, <2>1, <2>4, <2>5, AfterTrans DEF Good
  <2>7. Good(n4, r) /\ After(n3, n4, r) /\ \A e \in Commands \ {c} : n4.acked[e] = n3.acked[e]
    BY <2>4, CallsAfter, AfterSelf DEF LeaderPropose, Good
  <2>8. m = n4
    BY <1>5 DEF PreAccepted, n1, n2, n3
  <2> HIDE DEF n4, m
  <2>9. After(n, n4, r)
    BY <2>4, <2>6, <2>7, AfterTrans DEF Good
  <2> QED
    BY <1>3, <2>1, <2>4, <2>7, <2>8, <2>9 DEF m
<1> QED
  BY <1>4, <1>5

LEMMA AfterRecalls ==
  ASSUME NEW r \in Replicas, NEW n, Good(n, r), NEW c \in Commands, NEW ran \in BOOLEAN,
         NEW merge \in BOOLEAN
  PROVE  LET m == AfterRecall(n, r, c, ran, merge)
         IN  Good(m, r) /\ After(n, m, r) /\ \A e \in Commands \ {c} : m.acked[e] = n.acked[e]
<1>1. n \in Node /\ After(n, n, r)
  BY AfterSelf DEF Good
<1>2. OwnAck(n, r, c) \in Ack /\ OwnAck(n, r, c).ballot = n.ballot /\ OwnAck(n, r, c).dep # Nil
  BY <1>1, OwnAckTyped
<1> DEFINE m == PreAccepted(n, r, c, OwnAck(n, r, c), merge)
<1>3. Good(m, r) /\ After(n, m, r) /\ \A e \in Commands \ {c} : m.acked[e] = n.acked[e]
  BY <1>2, PreAccepts
<1> QED
  BY <1>1, <1>3 DEF AfterRecall

\* A proposal reaches its descriptor.
LEMMA ProposeSet ==
  ASSUME NEW r \in Replicas, NEW n, Good(n, r), NEW c \in Commands, c \in n.proposes,
         ~ n.desc[c].propose, NEW d \in Desc, d.propose, d.waiting = n.desc[c].waiting, ~ d.noop
  PROVE  LET m == [n EXCEPT !.desc = [n.desc EXCEPT ![c] = d]]
         IN  /\ Good(m, r) /\ After(n, m, r) /\ m.acked = n.acked /\ m.seqnum = n.seqnum
             /\ m.executed = n.executed /\ m.desc = [n.desc EXCEPT ![c] = d]
<1> DEFINE D == [n.desc EXCEPT ![c] = d]
           m == [n EXCEPT !.desc = D]
<1>1. D \in [Commands -> Desc] /\ D[c] = d /\ \A e \in Commands : e # c => D[e] = n.desc[e]
  BY DEF Good, Node
<1> HIDE DEF D
<1>2. /\ m \in Node /\ m.desc = D /\ m.acked = n.acked /\ m.executed = n.executed /\ m.seqnum = n.seqnum
      /\ Same(n, m) /\ m.heard = n.heard /\ m.replies = n.replies /\ m.queued = n.queued
  BY <1>1 DEF Node, Good, Same
<1> HIDE DEF m
<1>3. \A e \in Commands : Grown(n.acked[e], n.acked[e], n.ballot)
  BY AfterSelf DEF Good, After
<1>4. After(n, m, r)
  <2>1. \A e \in Commands :
          /\ n.desc[e].propose => m.desc[e].propose
          /\ m.desc[e].noop => n.desc[e].noop
          /\ m.desc[e].phase = n.desc[e].phase \/ ~ n.desc[e].propose
    BY <1>1, <1>2
  <2> QED
    BY <1>2, <1>3, <2>1 DEF After, Delivered
<1>5. Sane(m, r)
  <2>1. Sane(n, r) /\ c \notin Delivered(n)
    BY DEF Good, Sane
  <2> QED
    BY <1>1, <1>2, <2>1 DEF Sane, Same, Delivered
<1> QED
  BY <1>2, <1>4, <1>5 DEF Good, m, D

LEMMA Proposes ==
  ASSUME NEW r \in Replicas, NEW n, Good(n, r), NEW c \in Commands, c \in n.proposes,
         n.desc[c].propose \/ n.desc[c].proposeDep # Nil, NEW merge \in BOOLEAN
  PROVE  LET m == Proposed(n, r, c, merge)
         IN  Good(m, r) /\ After(n, m, r) /\ \A e \in Commands \ {c} : m.acked[e] = n.acked[e]
<1> DEFINE m == Proposed(n, r, c, merge)
<1>0. n \in Node /\ n.desc \in [Commands -> Desc] /\ n.desc[c] \in Desc
  BY DEF Good, Node
<1>1. CASE n.status # "NORMAL" \/ n.desc[c].propose
  BY <1>1, AfterSelf DEF Proposed, Good
<1>2. CASE ~ (n.status # "NORMAL" \/ n.desc[c].propose) /\ r \notin AQ(n.ballot)
  <2> DEFINE d == [n.desc[c] EXCEPT !.propose = TRUE, !.noop = FALSE]
             n1 == [n EXCEPT !.desc = [n.desc EXCEPT ![c] = d]]
             n2 == Recall(n1, r, c, merge)
  <2>1. d \in Desc /\ d.propose /\ d.waiting = n.desc[c].waiting /\ ~ d.noop
    BY <1>0 DEF Desc
  <2> HIDE DEF d
  <2>2. Good(n1, r) /\ After(n, n1, r) /\ n1.acked = n.acked
    <3>1. ~ n.desc[c].propose
      BY <1>2
    <3> QED
      BY <2>1, <3>1, ProposeSet
  <2>3. n1 = [n EXCEPT !.desc[c].propose = TRUE, !.desc[c].noop = FALSE]
    BY <1>0 DEF Node, Desc, d
  <2> HIDE DEF n1
  <2>4. n1.status = "NORMAL"
    BY <1>2, <2>2 DEF After, Same
  <2>5. Good(n2, r) /\ After(n1, n2, r) /\ \A e \in Commands \ {c} : n2.acked[e] = n1.acked[e]
    BY <2>2, <2>4, Recalls
  <2>6. m = n2
    BY <1>2, <2>3 DEF Proposed
  <2> HIDE DEF n2, m
  <2>7. After(n, n2, r)
    BY <2>2, <2>5, AfterTrans DEF Good
  <2> QED
    BY <2>2, <2>5, <2>6, <2>7 DEF m
<1>3. CASE ~ (n.status # "NORMAL" \/ n.desc[c].propose) /\ r \in AQ(n.ballot)
  <2> DEFINE d == [n.desc[c] EXCEPT !.propose = TRUE, !.noop = FALSE, !.phase = "PRE_ACCEPT",
                                     !.dep = n.desc[c].proposeDep]
             n1 == [n EXCEPT !.desc = [n.desc EXCEPT ![c] = d]]
             n2 == Recall(n1, r, c, merge)
             ran == n.desc[c].waiting # {}
             n3 == AfterRecall(n2, r, c, ran, merge)
  <2>1. d \in Desc /\ d.propose /\ d.waiting = n.desc[c].waiting /\ ~ d.noop
    <3>1. n.desc[c] \in Desc /\ n.desc[c].proposeDep \in Deps
      BY <1>0, <1>3 DEF Desc
    <3> QED
      BY <3>1 DEF Desc, Phases
  <2> HIDE DEF d
  <2>2. Good(n1, r) /\ After(n, n1, r) /\ n1.acked = n.acked
    <3>1. ~ n.desc[c].propose
      BY <1>3
    <3> QED
      BY <2>1, <3>1, ProposeSet
  <2>3. n1 = [n EXCEPT !.desc[c].propose = TRUE, !.desc[c].noop = FALSE, !.desc[c].phase = "PRE_ACCEPT",
                       !.desc[c].dep = n.desc[c].proposeDep]
    BY <1>0 DEF Node, Desc, d
  <2> HIDE DEF n1
  <2>4. n1.status = "NORMAL"
    BY <1>3, <2>2 DEF After, Same
  <2>5. Good(n2, r) /\ After(n1, n2, r) /\ \A e \in Commands \ {c} : n2.acked[e] = n1.acked[e]
    BY <2>2, <2>4, Recalls
  <2> HIDE DEF n2
  <2>6. After(n, n2, r)
    BY <2>2, <2>5, AfterTrans DEF Good
  <2>0. ran \in BOOLEAN
    OBVIOUS
  <2> HIDE DEF ran
  <2>7. Good(n3, r) /\ After(n2, n3, r) /\ \A e \in Commands \ {c} : n3.acked[e] = n2.acked[e]
    BY <2>0, <2>5, AfterRecalls
  <2>8. m = n3
    BY <1>3, <2>3 DEF Proposed, n2, ran
  <2> HIDE DEF n3, m
  <2>9. After(n, n3, r)
    BY <2>2, <2>5, <2>6, <2>7, AfterTrans DEF Good
  <2> QED
    BY <2>2, <2>5, <2>7, <2>8, <2>9 DEF m
<1> QED
  BY <1>1, <1>2, <1>3

(***************************************************************************)
(* The log of the key.                                                     *)
(***************************************************************************)
LEMMA LastAtIs ==
  ASSUME NEW S, NEW s \in Seq(S), NEW c
  PROVE  /\ LastAt(s, c) \in 0 .. Len(s) /\ (LastAt(s, c) # 0 => s[LastAt(s, c)] = c)
         /\ \A i \in 1 .. Len(s) : s[i] = c => i <= LastAt(s, c)
<1> DEFINE T == {0} \cup {i \in 1 .. Len(s) : s[i] = c}
           U == {Len(s) - j : j \in T}
<1>1. Len(s) \in Nat /\ T \subseteq 0 .. Len(s)
  OBVIOUS
<1>2. U \subseteq Nat /\ U # {}
  BY <1>1
<1>3. PICK u \in U : \A y \in U : u <= y
  BY <1>2, Least
<1>4. PICK j \in T : u = Len(s) - j
  BY <1>3
<1>5. \A y \in T : y <= j
  <2> SUFFICES ASSUME NEW y \in T PROVE y <= j
    OBVIOUS
  <2>1. Len(s) - y \in U /\ Len(s) - j <= Len(s) - y
    BY <1>3, <1>4
  <2>2. y \in 0 .. Len(s) /\ j \in 0 .. Len(s)
    BY <1>1
  <2> QED
    BY <1>1, <2>1, <2>2
<1>6. Max(T) \in T /\ \A y \in T : y <= Max(T)
  <2>1. \E x \in T : \A y \in T : x >= y
    BY <1>1, <1>5
  <2>2. Max(T) \in T /\ \A y \in T : Max(T) >= y
    BY <2>1 DEF Max
  <2> QED
    BY <1>1, <2>2
<1>7. LastAt(s, c) = Max(T)
  BY DEF LastAt
<1> HIDE DEF U
<1> QED
  BY <1>1, <1>6, <1>7

LEMMA WithoutTyped ==
  ASSUME NEW S, NEW s \in Seq(S), NEW c
  PROVE  Without(s, c) \in Seq(S)
<1> DEFINE k == LastAt(s, c)
<1>1. k \in 0 .. Len(s) /\ Len(s) \in Nat
  BY LastAtIs
<1> HIDE DEF k
<1>2. SubSeq(s, 1, k - 1) \in Seq(S) /\ SubSeq(s, k + 1, Len(s)) \in Seq(S)
  BY <1>1
<1> QED
  BY <1>2 DEF Without, RemoveAt, k

LEMMA UpdateTyped ==
  ASSUME NEW l \in Log, NEW c \in Commands, NEW s \in Int, NEW h \in Path
  PROVE  Update(l, c, s, h) \in Log
<1> DEFINE rest == IF c \in l.nodes THEN Without(l.pending, c) ELSE l.pending
           top == IF s > l.synced THEN h ELSE l.syncedHash
           k == IF s > l.synced THEN s ELSE l.synced
           all == top \o rest
<1>1. rest \in Path
  BY WithoutTyped DEF Log, Path
<1>2. top \in Path /\ k \in Int
  BY DEF Log
<1>3. all \in Path
  BY <1>1, <1>2 DEF Path
<1>4. Update(l, c, s, h) = l \/ Update(l, c, s, h) =
        [l EXCEPT !.synced = k, !.syncedHash = top, !.pending = rest, !.nodes = @ \ {c}, !.hash = all]
  BY DEF Update
<1> HIDE DEF rest, top, k, all
<1> QED
  BY <1>1, <1>2, <1>3, <1>4 DEF Log, Deps

LEMMA UpdateOrSaveTyped ==
  ASSUME NEW l \in Log, NEW c \in Commands, NEW s \in Nat, NEW h \in Path
  PROVE  UpdateOrSave(l, c, s, h) \in Log
<1>1. Update(l, c, s, h) \in Log
  BY UpdateTyped
<1>2. [cmd |-> c, seqnum |-> s, hash |-> h] \in HashUpdate
  BY DEF HashUpdate
<1> DEFINE us == {u \in l.pendingUpd : u.cmd # c} \cup {[cmd |-> c, seqnum |-> s, hash |-> h]}
<1>3. us \in SUBSET HashUpdate
  BY <1>2 DEF Log
<1>4. UpdateOrSave(l, c, s, h) = Update(l, c, s, h) \/ UpdateOrSave(l, c, s, h) = [l EXCEPT !.pendingUpd = us]
  BY DEF UpdateOrSave
<1> HIDE DEF us
<1> QED
  BY <1>1, <1>3, <1>4 DEF Log

LEMMA AppendTyped ==
  ASSUME NEW l \in Log, NEW c \in Commands
  PROVE  AppendTo(l, c) \in Log /\ AppendHash(l, c) \in Path
<1> DEFINE u == CHOOSE u \in Saved(l, c) : TRUE
<1>1. CASE Saved(l, c) = {}
  <2> DEFINE p == Append(l.pending, c)
             h == Append(l.hash, c)
             q == l.nodes \cup {c}
  <2>1. p \in Path /\ h \in Path /\ q \in Deps
    BY DEF Log, Path, Deps
  <2>2. AppendTo(l, c) = [l EXCEPT !.pending = p, !.nodes = q, !.hash = h] /\ AppendHash(l, c) = h
    BY <1>1 DEF AppendTo, AppendHash
  <2> HIDE DEF p, h, q
  <2> QED
    BY <2>1, <2>2 DEF Log
<1>2. CASE Saved(l, c) # {}
  <2>1. u \in Saved(l, c)
    BY <1>2
  <2>2. u \in HashUpdate
    BY <2>1 DEF Saved, Log
  <2>3. AppendTo(l, c) = Update([l EXCEPT !.pendingUpd = @ \ {u}], c, u.seqnum, u.hash)
        /\ AppendHash(l, c) = u.hash
    BY <1>2 DEF AppendTo, AppendHash
  <2> HIDE DEF u
  <2>4. [l EXCEPT !.pendingUpd = @ \ {u}] \in Log
    BY DEF Log
  <2>5. u.seqnum \in Int /\ u.hash \in Path
    BY <2>2 DEF HashUpdate
  <2> QED
    BY <2>3, <2>4, <2>5, UpdateTyped
<1> QED
  BY <1>1, <1>2

(***************************************************************************)
(* Proposals that the event loop takes.                                    *)
(***************************************************************************)
\* What a step of the normal case leaves of a replica's state, or how it changes it.
Moved(n, m, r) ==
  /\ m.status = n.status /\ m.ballot = n.ballot /\ m.cballot = n.cballot
  /\ m.kept = n.kept /\ m.accepts = n.accepts /\ m.noted = n.noted /\ n.proposes \subseteq m.proposes
  /\ Delivered(n) \subseteq Delivered(m)
  /\ \A c \in Commands :
       /\ Grown(n.acked[c], m.acked[c], n.ballot)
       /\ n.desc[c].propose => m.desc[c].propose
       /\ m.desc[c].noop => n.desc[c].noop
       /\ \/ m.desc[c].phase = n.desc[c].phase
          \/ m.desc[c].phase \in {"ACCEPT", "COMMIT"}
          \/ ~ n.desc[c].propose
  /\ m.heard[Leader(n.ballot)] = n.heard[Leader(n.ballot)]
  /\ \A s \in Replicas, c \in Commands : m.heard[s][c] = n.heard[s][c] \/ m.heard[s][c] = Nil
  /\ ~ IsLeader(n, r) => m.replies = n.replies

LEMMA MovedSelf ==
  ASSUME NEW n \in Node, NEW r
  PROVE  Moved(n, n, r)
<1>1. \A c \in Commands : Grown(n.acked[c], n.acked[c], n.ballot)
  BY AfterSelf DEF After
<1> QED
  BY <1>1 DEF Moved

LEMMA MovedAfter ==
  ASSUME NEW n \in Node, NEW m \in Node, NEW k \in Node, NEW r, Moved(n, m, r), After(m, k, r)
  PROVE  Moved(n, k, r)
<1>1. \A c \in Commands : n.acked[c] \in Seq(Ack) /\ m.acked[c] \in Seq(Ack) /\ k.acked[c] \in Seq(Ack)
  BY DEF Node
<1>2. m.ballot = n.ballot
  BY DEF Moved
<1>3. \A c \in Commands : Grown(n.acked[c], k.acked[c], n.ballot)
  BY <1>1, <1>2, GrownTrans DEF After, Moved
<1>4. /\ k.status = n.status /\ k.ballot = n.ballot /\ k.cballot = n.cballot
      /\ k.kept = n.kept /\ k.accepts = n.accepts /\ k.noted = n.noted /\ n.proposes \subseteq k.proposes
  BY DEF After, Same, Moved
<1>5. Delivered(n) \subseteq Delivered(k)
  BY DEF After, Moved
<1>6. \A c \in Commands :
       /\ n.desc[c].propose => k.desc[c].propose
       /\ k.desc[c].noop => n.desc[c].noop
       /\ \/ k.desc[c].phase = n.desc[c].phase
          \/ k.desc[c].phase \in {"ACCEPT", "COMMIT"}
          \/ ~ n.desc[c].propose
  BY DEF After, Moved
<1>7. k.heard[Leader(n.ballot)] = n.heard[Leader(n.ballot)]
  BY <1>2 DEF After, Moved
<1>8. \A s \in Replicas, c \in Commands : k.heard[s][c] = n.heard[s][c] \/ k.heard[s][c] = Nil
  BY DEF After, Moved
<1>9. ~ IsLeader(n, r) => k.replies = n.replies
  BY <1>2 DEF After, Moved, IsLeader
<1> QED
  BY <1>3, <1>4, <1>5, <1>6, <1>7, <1>8, <1>9 DEF Moved

\* What of the state Sane is about.
LEMMA SaneSame ==
  ASSUME NEW n, NEW m, NEW r, Sane(n, r),
         m.status = n.status /\ m.ballot = n.ballot /\ m.cballot = n.cballot,
         m.executed = n.executed, m.queued \subseteq n.queued, n.proposes \subseteq m.proposes,
         m.desc = n.desc, m.acked = n.acked
  PROVE  Sane(m, r)
  BY DEF Sane, Delivered

LEMMA RecordsHash ==
  ASSUME NEW r \in Replicas, NEW n, Good(n, r), NEW c \in Commands, NEW s \in Nat, NEW h \in Path
  PROVE  LET m == RecordLeaderHash(n, c, s, h)
         IN  /\ Good(m, r) /\ Moved(n, m, r) /\ m.acked = n.acked /\ m.desc = n.desc
             /\ m.executed = n.executed /\ m.proposes = n.proposes /\ m.queued = n.queued
             /\ m.heard = n.heard
<1> DEFINE us == {u \in n.pendingHashUpds : u.cmd # c} \cup {[cmd |-> c, seqnum |-> s, hash |-> h]}
           l == UpdateOrSave(n.log, c, s, h)
           m == RecordLeaderHash(n, c, s, h)
<1>1. n \in Node /\ n.log \in Log /\ n.pendingHashUpds \in SUBSET HashUpdate
  BY DEF Good, Node
<1>2. us \in SUBSET HashUpdate
  BY <1>1 DEF HashUpdate
<1>3. l \in Log
  BY <1>1, UpdateOrSaveTyped
<1>4. m = [n EXCEPT !.pendingHashUpds = us] \/ m = [n EXCEPT !.dead = TRUE] \/ m = [n EXCEPT !.log = l]
  BY DEF RecordLeaderHash
<1> HIDE DEF us, l, m
<1>5. /\ m \in Node /\ m.acked = n.acked /\ m.desc = n.desc
      /\ m.executed = n.executed /\ m.proposes = n.proposes /\ m.queued = n.queued
      /\ m.heard = n.heard /\ m.replies = n.replies
      /\ m.status = n.status /\ m.ballot = n.ballot /\ m.cballot = n.cballot
      /\ m.kept = n.kept /\ m.accepts = n.accepts /\ m.noted = n.noted
  <2>1. CASE m = [n EXCEPT !.pendingHashUpds = us]
    BY <1>1, <1>2, <2>1 DEF Node
  <2>2. CASE m = [n EXCEPT !.dead = TRUE]
    BY <1>1, <2>2 DEF Node
  <2>3. CASE m = [n EXCEPT !.log = l]
    BY <1>1, <1>3, <2>3 DEF Node
  <2> QED
    BY <1>4, <2>1, <2>2, <2>3
<1>6. Sane(m, r)
  BY <1>5, SaneSame DEF Good
<1>7. Moved(n, m, r)
  <2>1. \A e \in Commands : Grown(n.acked[e], n.acked[e], n.ballot)
    BY <1>1, AfterSelf DEF After
  <2> QED
    BY <1>5, <2>1 DEF Moved, Delivered
<1> QED
  BY <1>5, <1>6, <1>7 DEF Good, m

LEMMA Numbers ==
  ASSUME NEW r \in Replicas, NEW n, Good(n, r), NEW c \in Commands
  PROVE  LET m == Numbered(n, c)
         IN  /\ Good(m, r) /\ Moved(n, m, r) /\ m.acked = n.acked
             /\ m.executed = n.executed /\ m.proposes = n.proposes \cup {c} /\ m.queued = n.queued
             /\ m.heard = n.heard /\ m.desc[c].proposeDep # Nil
             /\ \A e \in Commands : m.desc[e].phase = n.desc[e].phase
<1> DEFINE d == IF n.desc[c].proposeDep # Nil THEN n.desc[c]
                ELSE [n.desc[c] EXCEPT !.proposeDep = Conflicts(n, c), !.hs = AppendHash(n.log, c)]
           D == [n.desc EXCEPT ![c] = d]
           l == AppendTo(n.log, c)
           w == IF c \in Reads THEN n.lastWrite ELSE {c}
           p == n.proposes \cup {c}
           q == n.again \ {c}
           o == {c}
           m == Numbered(n, c)
<1>1. n \in Node /\ n.log \in Log /\ n.desc \in [Commands -> Desc] /\ n.lastWrite \in Deps
      /\ n.lastCmd \in Deps
  BY DEF Good, Node
<1>2. l \in Log /\ AppendHash(n.log, c) \in Path
  BY <1>1, AppendTyped
<1>3. Conflicts(n, c) \in Deps /\ Conflicts(n, c) # Nil
  BY <1>1 DEF Conflicts, Deps
<1>4. d \in Desc /\ d.propose = n.desc[c].propose /\ d.waiting = n.desc[c].waiting
      /\ d.phase = n.desc[c].phase /\ d.proposeDep # Nil /\ d.noop = n.desc[c].noop
  BY <1>1, <1>2, <1>3 DEF Desc
<1>5. w \in Deps /\ p \in Deps /\ q \in Deps /\ o \in Deps
  BY <1>1 DEF Deps, Node
<1>6. m = [n EXCEPT !.proposes = p, !.again = q, !.lastCmd = o, !.lastWrite = w, !.log = l, !.desc = D]
  BY <1>1 DEF Numbered, Node
<1> HIDE DEF d, l, w, p, q, o, m
<1>7. D \in [Commands -> Desc] /\ D[c] = d /\ \A e \in Commands : e # c => D[e] = n.desc[e]
  BY <1>1, <1>4
<1> HIDE DEF D
<1>8. /\ m \in Node /\ m.acked = n.acked /\ m.desc = D
      /\ m.executed = n.executed /\ m.proposes = p /\ m.queued = n.queued
      /\ m.heard = n.heard /\ m.replies = n.replies
      /\ m.status = n.status /\ m.ballot = n.ballot /\ m.cballot = n.cballot
      /\ m.kept = n.kept /\ m.accepts = n.accepts /\ m.noted = n.noted
  BY <1>1, <1>2, <1>5, <1>6, <1>7 DEF Node
<1>9. \A e \in Commands :
        /\ D[e].propose = n.desc[e].propose /\ D[e].waiting = n.desc[e].waiting
        /\ D[e].noop = n.desc[e].noop
        /\ D[e].phase = n.desc[e].phase /\ (D[e].proposeDep = n.desc[e].proposeDep \/ D[e].proposeDep # Nil)
  BY <1>4, <1>7
<1>10. Sane(m, r)
  <2>1. Sane(n, r)
    BY DEF Good
  <2> QED
    BY <1>8, <1>9, <2>1 DEF Sane, Delivered, p
<1>11. Moved(n, m, r)
  <2>1. \A e \in Commands : Grown(n.acked[e], n.acked[e], n.ballot)
    BY <1>1, AfterSelf DEF After
  <2> QED
    BY <1>8, <1>9, <2>1 DEF Moved, Delivered, p
<1> QED
  BY <1>4, <1>7, <1>8, <1>9, <1>10, <1>11 DEF Good, m, p

LEMMA MovedTrans ==
  ASSUME NEW n \in Node, NEW m \in Node, NEW k \in Node, NEW r, Moved(n, m, r), Moved(m, k, r)
  PROVE  Moved(n, k, r)
<1>1. \A c \in Commands : n.acked[c] \in Seq(Ack) /\ m.acked[c] \in Seq(Ack) /\ k.acked[c] \in Seq(Ack)
  BY DEF Node
<1>2. m.ballot = n.ballot
  BY DEF Moved
<1>3. \A c \in Commands : Grown(n.acked[c], k.acked[c], n.ballot)
  BY <1>1, <1>2, GrownTrans DEF Moved
<1>4. /\ k.status = n.status /\ k.ballot = n.ballot /\ k.cballot = n.cballot
      /\ k.kept = n.kept /\ k.accepts = n.accepts /\ k.noted = n.noted /\ n.proposes \subseteq k.proposes
  BY DEF Moved
<1>5. Delivered(n) \subseteq Delivered(k)
  BY DEF Moved
<1>6. \A c \in Commands :
       /\ n.desc[c].propose => k.desc[c].propose
       /\ k.desc[c].noop => n.desc[c].noop
       /\ \/ k.desc[c].phase = n.desc[c].phase
          \/ k.desc[c].phase \in {"ACCEPT", "COMMIT"}
          \/ ~ n.desc[c].propose
  BY DEF Moved
<1>7. k.heard[Leader(n.ballot)] = n.heard[Leader(n.ballot)]
  BY <1>2 DEF Moved
<1>8. \A s \in Replicas, c \in Commands : k.heard[s][c] = n.heard[s][c] \/ k.heard[s][c] = Nil
  BY DEF Moved
<1>9. ~ IsLeader(n, r) => k.replies = n.replies
  BY <1>2 DEF Moved, IsLeader
<1> QED
  BY <1>3, <1>4, <1>5, <1>6, <1>7, <1>8, <1>9 DEF Moved

LEMMA Hashes ==
  ASSUME NEW r \in Replicas, NEW n, Good(n, r), NEW c \in Commands
  PROVE  LET m == Hashed(n, r, c)
         IN  /\ Good(m, r) /\ Moved(n, m, r) /\ m.acked = n.acked /\ m.desc = n.desc
             /\ m.executed = n.executed /\ m.proposes = n.proposes /\ m.queued = n.queued
             /\ m.heard = n.heard
<1> DEFINE us == {u \in n.pendingHashUpds : u.cmd = c}
           u == CHOOSE u \in us : TRUE
           rest == n.pendingHashUpds \ us
           n1 == [n EXCEPT !.pendingHashUpds = rest]
           m == RecordLeaderHash(n1, c, u.seqnum, u.hash)
<1>1. n \in Node /\ n.pendingHashUpds \in SUBSET HashUpdate
  BY DEF Good, Node
<1>2. CASE us = {} \/ IsLeader(n, r)
  BY <1>1, <1>2, MovedSelf DEF Hashed
<1>3. CASE ~ (us = {} \/ IsLeader(n, r))
  <2>1. u \in us
    BY <1>3
  <2>2. u.seqnum \in Nat /\ u.hash \in Path
    BY <1>1, <2>1 DEF HashUpdate
  <2>3. rest \in SUBSET HashUpdate
    BY <1>1
  <2>4. Hashed(n, r, c) = m
    BY <1>3 DEF Hashed
  <2> HIDE DEF u, rest
  <2>5. /\ n1 \in Node /\ n1.acked = n.acked /\ n1.desc = n.desc
        /\ n1.executed = n.executed /\ n1.proposes = n.proposes /\ n1.queued = n.queued
        /\ n1.heard = n.heard /\ n1.replies = n.replies
        /\ n1.status = n.status /\ n1.ballot = n.ballot /\ n1.cballot = n.cballot
        /\ n1.kept = n.kept /\ n1.accepts = n.accepts /\ n1.noted = n.noted
    BY <1>1, <2>3 DEF Node
  <2> HIDE DEF n1
  <2>6. Good(n1, r)
    BY <2>5, SaneSame DEF Good
  <2>7. Moved(n, n1, r)
    <3>1. \A e \in Commands : Grown(n.acked[e], n.acked[e], n.ballot)
      BY <1>1, AfterSelf DEF After
    <3> QED
      BY <2>5, <3>1 DEF Moved, Delivered
  <2>8. /\ Good(m, r) /\ Moved(n1, m, r) /\ m.acked = n1.acked /\ m.desc = n1.desc
        /\ m.executed = n1.executed /\ m.proposes = n1.proposes /\ m.queued = n1.queued
        /\ m.heard = n1.heard
    BY <2>2, <2>6, RecordsHash
  <2> HIDE DEF m
  <2>9. Moved(n, m, r)
    BY <1>1, <2>5, <2>7, <2>8, MovedTrans DEF Good
  <2> QED
    BY <2>4, <2>5, <2>8, <2>9
<1> QED
  BY <1>2, <1>3

\* A proposal is passed to its descriptor.
LEMMA HandlesPropose ==
  ASSUME NEW r \in Replicas, NEW n, Good(n, r), NEW c \in Commands, c \in n.proposes,
         n.desc[c].propose \/ n.desc[c].proposeDep # Nil, NEW merge \in BOOLEAN
  PROVE  LET m == HandlePropose(n, r, c, merge)
         IN  Good(m, r) /\ After(n, m, r) /\ \A e \in Commands \ {c} : m.acked[e] = n.acked[e]
<1> DEFINE q == n.queued \ {c}
           n1 == [n EXCEPT !.queued = q]
           m == Proposed(n1, r, c, merge)
<1>1. n \in Node /\ q \in Deps /\ q \subseteq n.queued
  BY DEF Good, Node, Deps
<1>2. HandlePropose(n, r, c, merge) = m
  BY DEF HandlePropose
<1> HIDE DEF q
<1>3. /\ n1 \in Node /\ Same(n, n1) /\ n1.acked = n.acked /\ n1.desc = n.desc
      /\ n1.executed = n.executed /\ n1.queued = q /\ n1.heard = n.heard /\ n1.replies = n.replies
  BY <1>1 DEF Node, Same
<1> HIDE DEF n1
<1>4. Good(n1, r)
  BY <1>1, <1>3, SaneSame DEF Good, Same
<1>5. After(n, n1, r)
  <2>1. \A e \in Commands : Grown(n.acked[e], n.acked[e], n.ballot)
    BY <1>1, AfterSelf DEF After
  <2> QED
    BY <1>1, <1>3, <2>1 DEF After, Delivered
<1>6. c \in n1.proposes /\ (n1.desc[c].propose \/ n1.desc[c].proposeDep # Nil)
  BY <1>3 DEF Same
<1>7. Good(m, r) /\ After(n1, m, r) /\ \A e \in Commands \ {c} : m.acked[e] = n1.acked[e]
  BY <1>4, <1>6, Proposes
<1> HIDE DEF m
<1>8. After(n, m, r)
  BY <1>1, <1>3, <1>5, <1>7, AfterTrans DEF Good
<1> QED
  BY <1>2, <1>3, <1>7, <1>8

LEMMA HandsOver ==
  ASSUME NEW r \in Replicas, NEW n, Good(n, r), NEW c \in Commands, c \in n.proposes,
         n.desc[c].proposeDep # Nil, NEW merge \in BOOLEAN
  PROVE  LET m == HandedOver(n, r, c, merge)
         IN  Good(m, r) /\ Moved(n, m, r) /\ \A e \in Commands \ {c} : m.acked[e] = n.acked[e]
<1> DEFINE m == HandedOver(n, r, c, merge)
           q == n.queued \cup {c}
<1>1. n \in Node /\ Sane(n, r) /\ q \in Deps
  BY DEF Good, Node, Deps
<1>2. CASE m = HandlePropose(n, r, c, merge)
  <2> DEFINE k == HandlePropose(n, r, c, merge)
  <2>1. Good(k, r) /\ After(n, k, r) /\ \A e \in Commands \ {c} : k.acked[e] = n.acked[e]
    BY HandlesPropose
  <2> HIDE DEF k
  <2>2. Moved(n, k, r)
    BY <1>1, <2>1, MovedSelf, MovedAfter DEF Good
  <2>3. m = k
    BY <1>2 DEF k
  <2> HIDE DEF m
  <2> QED
    BY <2>1, <2>2, <2>3 DEF m
<1>3. CASE m = [n EXCEPT !.dead = TRUE] \/ m = [n EXCEPT !.queued = q]
  <2> HIDE DEF m, q
  <2>1. /\ m \in Node /\ Same(n, [m EXCEPT !.dead = n.dead]) /\ m.acked = n.acked /\ m.desc = n.desc
        /\ m.executed = n.executed /\ m.queued \in {n.queued, q} /\ m.heard = n.heard /\ m.replies = n.replies
    <3>1. CASE m = [n EXCEPT !.dead = TRUE]
      BY <1>1, <3>1 DEF Node, Same
    <3>2. CASE m = [n EXCEPT !.queued = q]
      BY <1>1, <3>2 DEF Node, Same
    <3> QED
      BY <1>3, <3>1, <3>2
  <2>2. /\ m.status = n.status /\ m.ballot = n.ballot /\ m.cballot = n.cballot /\ m.proposes = n.proposes
        /\ m.kept = n.kept /\ m.accepts = n.accepts /\ m.noted = n.noted
    BY <2>1 DEF Same, Node
  <2>3. Sane(m, r)
    BY <1>1, <2>1, <2>2 DEF Sane, Delivered, q
  <2>4. \A e \in Commands : Grown(n.acked[e], n.acked[e], n.ballot)
    BY <1>1, AfterSelf DEF After
  <2>5. Moved(n, m, r)
    BY <2>1, <2>2, <2>4 DEF Moved, Delivered
  <2> QED
    BY <2>1, <2>3, <2>5 DEF Good, m
<1> QED
  BY <1>2, <1>3 DEF HandedOver

LEMMA Takes ==
  ASSUME NEW r \in Replicas, NEW n, Good(n, r), NEW c \in Commands, NEW merge \in BOOLEAN
  PROVE  LET m == Taken(n, r, c, merge)
         IN  /\ Good(m, r) /\ Moved(n, m, r) /\ c \in m.proposes
             /\ \A e \in Commands \ {c} : m.acked[e] = n.acked[e]
<1> DEFINE n1 == Numbered(n, c)
           n2 == Hashed(n1, r, c)
           m == HandedOver(n2, r, c, merge)
<1>1. /\ Good(n1, r) /\ Moved(n, n1, r) /\ n1.acked = n.acked /\ n1.proposes = n.proposes \cup {c}
      /\ n1.desc[c].proposeDep # Nil
  BY Numbers
<1> HIDE DEF n1
<1>2. /\ Good(n2, r) /\ Moved(n1, n2, r) /\ n2.acked = n1.acked /\ n2.desc = n1.desc
      /\ n2.proposes = n1.proposes
  BY <1>1, Hashes
<1> HIDE DEF n2
<1>3. Good(m, r) /\ Moved(n2, m, r) /\ \A e \in Commands \ {c} : m.acked[e] = n2.acked[e]
  BY <1>1, <1>2, HandsOver
<1>4. Taken(n, r, c, merge) = m
  BY DEF Taken, n1, n2
<1> HIDE DEF m
<1>5. n \in Node /\ n1 \in Node /\ n2 \in Node /\ m \in Node
  BY <1>1, <1>2, <1>3 DEF Good
<1>6. Moved(n, n2, r)
  BY <1>1, <1>2, <1>5, MovedTrans
<1>7. Moved(n, m, r)
  BY <1>3, <1>5, <1>6, MovedTrans
<1>8. c \in m.proposes
  BY <1>1, <1>2, <1>3 DEF Moved
<1> QED
  BY <1>1, <1>2, <1>3, <1>4, <1>7, <1>8

(***************************************************************************)
(* What a Sync brings.                                                     *)
(***************************************************************************)
LEMMA Tells ==
  ASSUME NEW r \in Replicas, NEW n, Good(n, r), NEW c \in Commands, IsLeader(n, r)
  PROVE  /\ Good(Told(n, c), r) /\ Moved(n, Told(n, c), r)
         /\ OwnAckOfSynced(n, c) \in Ack /\ OwnAckOfSynced(n, c).dep # Nil
<1> DEFINE a == OwnAckOfSynced(n, c)
           n1 == Send(n, c, a)
<1>1. n \in Node /\ n.ballot \in Nat /\ n.desc[c] \in Desc
  BY DEF Good, Node
<1>2. <<>> \in Path
  BY DEF Path
<1>3. a \in Ack /\ a.ballot = n.ballot /\ a.dep # Nil
  <2>1. n.desc[c].dep \in Deps /\ n.desc[c].hs \in Path /\ n.desc[c].dep # Nil
    BY <1>1 DEF Desc, Deps
  <2> QED
    BY <1>1, <1>2, <2>1 DEF OwnAckOfSynced, FastAck, Ack, NoHash
<1> HIDE DEF a
<1>4. /\ Good(n1, r) /\ After(n, n1, r) /\ n1.desc = n.desc /\ n1.executed = n.executed
  <2>1. a \in Ack
    BY <1>3
  <2>2. a.ballot = n.ballot
    BY <1>3
  <2>3. IsLeader(n, r) => a.dep # Nil
    BY <1>3
  <2>4. /\ Good(n1, r) /\ After(n, n1, r) /\ n1.seqnum = n.seqnum /\ n1.desc = n.desc
        /\ n1.executed = n.executed /\ n1.acked = [n.acked EXCEPT ![c] = Append(n.acked[c], a)]
        /\ n1.acked[c] # <<>>
    BY <2>1, <2>2, <2>3, Sends
  <2> QED
    BY <2>4
<1> DEFINE rs == n1.replies \cup {[cmd |-> c, ballot |-> n.ballot, hs |-> NoHash, val |-> "none"]}
           m == [n1 EXCEPT !.replies = rs]
<1>5. m = Told(n, c)
  BY DEF Told, a
<1> HIDE DEF n1
<1>6. rs \in SUBSET [cmd : Commands, ballot : Nat, hs : Path, val : {"result", "none"}]
  BY <1>1, <1>2, <1>4 DEF Good, Node, NoHash
<1> HIDE DEF rs
<1>7. /\ m \in Node /\ m.acked = n1.acked /\ m.desc = n1.desc
      /\ m.executed = n1.executed /\ m.proposes = n1.proposes /\ m.queued = n1.queued
      /\ m.heard = n1.heard /\ m.status = n1.status /\ m.ballot = n1.ballot /\ m.cballot = n1.cballot
      /\ m.kept = n1.kept /\ m.accepts = n1.accepts /\ m.noted = n1.noted
  BY <1>4, <1>6 DEF Good, Node
<1> HIDE DEF m
<1>8. Sane(m, r)
  BY <1>4, <1>7, SaneSame DEF Good
<1>9. Moved(n, n1, r)
  BY <1>1, <1>4, MovedSelf, MovedAfter DEF Good
<1>10. Moved(n, m, r)
  BY <1>7, <1>9 DEF Moved, Delivered
<1> QED
  BY <1>3, <1>5, <1>7, <1>8, <1>10 DEF Good, a

LEMMA AcksSynced ==
  ASSUME NEW r \in Replicas, NEW n, Good(n, r), NEW c \in Commands
  PROVE  Good(AckOfSynced(n, r, c), r) /\ Moved(n, AckOfSynced(n, r, c), r)
<1> DEFINE m == AckOfSynced(n, r, c)
<1>1. n \in Node
  BY DEF Good
<1>2. CASE ~ IsLeader(n, r)
  <2> DEFINE n1 == SendSlow(n, c, FALSE)
             n2 == CommonCaseFastAck(n1, r, c, r, SlowAck(n))
  <2>1. Good(n1, r) /\ After(n, n1, r)
    <3>1. FALSE \in BOOLEAN
      OBVIOUS
    <3> QED
      BY <1>2, <3>1, SendsSlow
  <2> HIDE DEF n1
  <2>2. SlowAck(n) \in Ack
    BY <1>1, SlowAckTyped
  <2>3. Good(n2, r) /\ After(n1, n2, r)
    BY <2>1, <2>2, CommonCase
  <2>4. m = n2
    BY <1>2 DEF AckOfSynced, n1
  <2> HIDE DEF n2, m
  <2>5. Moved(n, n2, r)
    BY <1>1, <2>1, <2>3, MovedSelf, MovedAfter DEF Good
  <2> QED
    BY <2>3, <2>4, <2>5 DEF m
<1>3. CASE IsLeader(n, r)
  <2> DEFINE n1 == Told(n, c)
             a == OwnAckOfSynced(n, c)
             n2 == CallAfterPropagate(n1, r, c, a, FALSE)
  <2>1. Good(n1, r) /\ Moved(n, n1, r) /\ a \in Ack /\ a.dep # Nil
    BY <1>3, Tells
  <2>2. m = n1 \/ m = n2
    BY <1>3 DEF AckOfSynced
  <2> HIDE DEF n1, a
  <2>3. Good(n2, r) /\ After(n1, n2, r)
    <3>1. FALSE \in BOOLEAN
      OBVIOUS
    <3> QED
      BY <2>1, <3>1, CallsAfter
  <2> HIDE DEF n2, m
  <2>4. Moved(n, n2, r)
    BY <1>1, <2>1, <2>3, MovedAfter DEF Good
  <2> QED
    BY <2>1, <2>2, <2>3, <2>4 DEF m
<1> QED
  BY <1>2, <1>3

\* The commands of a finite set in a row.
LEMMA InARow ==
  ASSUME NEW S, IsFiniteSet(S)
  PROVE  SetToSeq(S) \in Seq(S)
<1> DEFINE k == Cardinality(S)
<1>1. k \in Nat /\ ExistsBijection(1 .. k, S)
  BY FS_CardinalityType
<1>2. \E f \in [1 .. k -> S] : IsInjective(f)
  BY <1>1 DEF ExistsBijection, Bijection, Injection, IsInjective
<1>3. SetToSeq(S) \in [1 .. k -> S]
  BY <1>2 DEF SetToSeq
<1> HIDE DEF k
<1> QED
  BY <1>1, <1>3

LEMMA InOrderIs ==
  ASSUME NEW V, NEW n \in V, NEW r, NEW order,
         \A k \in Nat : \A v \in V : AckNext(v, r, order, k) \in V
  PROVE  \A k \in Nat : AcksInOrder(n, r, order)[k] =
           IF k = 0 THEN n ELSE AckNext(AcksInOrder(n, r, order)[k - 1], r, order, k - 1)
<1> DEFINE G == [k \in Nat |-> [v \in V |-> AckNext(v, r, order, k)]]
<1>1. /\ G \in [Nat -> [V -> V]]
      /\ \A k \in Nat : \A v \in V : G[k][v] = AckNext(v, r, order, k)
  OBVIOUS
<1> HIDE DEF G
<1>2. PICK f \in [Nat -> V] :
        \A k \in Nat : f[k] = IF k = 0 THEN n ELSE G[k - 1][f[k - 1]]
  BY <1>1, Iterated
<1>3. ASSUME NEW k \in Nat, k # 0 PROVE f[k] = AckNext(f[k - 1], r, order, k - 1)
  <2>1. k - 1 \in Nat /\ f[k - 1] \in V
    BY <1>3
  <2> QED
    BY <1>1, <1>2, <1>3, <2>1
<1>4. f = [k \in Nat |-> IF k = 0 THEN n ELSE AckNext(f[k - 1], r, order, k - 1)]
  BY <1>2, <1>3
<1>5. AcksInOrder(n, r, order) =
        [k \in Nat |-> IF k = 0 THEN n ELSE AckNext(AcksInOrder(n, r, order)[k - 1], r, order, k - 1)]
  BY <1>4 DEF AcksInOrder
<1> QED
  BY <1>5

LEMMA AllAcksSynced ==
  ASSUME NEW r \in Replicas, NEW n, Good(n, r), NEW T \in SUBSET Commands
  PROVE  Good(AcksOfSynced(n, r, T), r) /\ Moved(n, AcksOfSynced(n, r, T), r)
<1> DEFINE order == SetToSeq(T)
           V == {v \in Node : Good(v, r) /\ Moved(n, v, r)}
           S == {k \in Nat : AcksInOrder(n, r, order)[k] \in V}
<1>1. order \in Seq(T)
  <2>1. IsFiniteSet(T)
    BY FS_Subset
  <2> QED
    BY <2>1, InARow
<1>2. AcksOfSynced(n, r, T) = AcksInOrder(n, r, order)[Len(order)]
  BY DEF AcksOfSynced
<1> HIDE DEF order
<1>3. n \in V
  BY MovedSelf DEF Good
<1>4. \A k \in Nat : \A v \in V : AckNext(v, r, order, k) \in V
  <2> SUFFICES ASSUME NEW k \in Nat, NEW v \in V
               PROVE  AckNext(v, r, order, k) \in V
    OBVIOUS
  <2>1. CASE k < Len(order)
    <3>1. order[k + 1] \in Commands
      BY <1>1, <2>1
    <3> DEFINE m == AckOfSynced(v, r, order[k + 1])
    <3>2. Good(m, r) /\ Moved(v, m, r)
      BY <3>1, AcksSynced
    <3>3. AckNext(v, r, order, k) = m
      BY <2>1 DEF AckNext
    <3> HIDE DEF m
    <3>4. Moved(n, m, r)
      BY <1>3, <3>2, MovedTrans DEF Good
    <3> QED
      BY <3>2, <3>3, <3>4 DEF Good
  <2>2. CASE ~ (k < Len(order))
    BY <2>2 DEF AckNext
  <2> QED
    BY <2>1, <2>2
<1> HIDE DEF V
<1>5. \A k \in Nat : AcksInOrder(n, r, order)[k] =
        IF k = 0 THEN n ELSE AckNext(AcksInOrder(n, r, order)[k - 1], r, order, k - 1)
  BY <1>3, <1>4, InOrderIs
<1>6. 0 \in S
  BY <1>3, <1>5
<1>7. ASSUME NEW k \in Nat, k \in S PROVE k + 1 \in S
  <2>1. AcksInOrder(n, r, order)[k + 1] = AckNext(AcksInOrder(n, r, order)[k], r, order, k)
    BY <1>5
  <2> QED
    BY <1>4, <1>7, <2>1
<1> HIDE DEF S
<1>8. Len(order) \in S
  BY <1>1, <1>6, <1>7, Inductive
<1> QED
  BY <1>2, <1>8 DEF S, V

\* The state that a Sync leaves before the acks.
LEMMA SyncedTyped ==
  ASSUME NEW r \in Replicas, NEW n, Good(n, r), NEW sync \in Sync, n.ballot <= sync.ballot,
         NEW woken \in Deps
  PROVE  LET m == Synced(n, sync, woken)
         IN  /\ Good(m, r) /\ m.status = "NORMAL" /\ m.ballot = sync.ballot /\ m.cballot = sync.ballot
             /\ m.acked = n.acked /\ m.executed = n.executed /\ m.proposes = n.proposes
             /\ m.heard = n.heard /\ m.noted = {} /\ m.log = n.log /\ m.replies = n.replies
<1> DEFINE D == [c \in Commands |-> Refreshed(n, c, sync)]
           dc == n.deliverChan \cup woken
           ag == n.again \cup (Described(n) \ InSync(sync))
           ac == n.accepts \cup (n.proposes \ InSync(sync))
           m == [n EXCEPT !.status = "NORMAL", !.ballot = sync.ballot, !.cballot = sync.ballot,
                          !.lastCmd = {}, !.lastWrite = {}, !.kept = {}, !.queued = {}, !.noted = {},
                          !.again = ag, !.desc = D, !.deliverChan = dc, !.accepts = ac]
<1>1. n \in Node /\ n.desc \in [Commands -> Desc] /\ n.ballot \in Nat
  BY DEF Good, Node
<1>2. \A c \in Commands :
        /\ Refreshed(n, c, sync) \in Desc
        /\ c \in Delivered(n) => Refreshed(n, c, sync) = n.desc[c]
        /\ c \notin Delivered(n) =>
             /\ Refreshed(n, c, sync).waiting = {}
             /\ Refreshed(n, c, sync).propose => c \in n.proposes
  <2> SUFFICES ASSUME NEW c \in Commands
               PROVE  /\ Refreshed(n, c, sync) \in Desc
                      /\ c \in Delivered(n) => Refreshed(n, c, sync) = n.desc[c]
                      /\ c \notin Delivered(n) =>
                           /\ Refreshed(n, c, sync).waiting = {}
                           /\ Refreshed(n, c, sync).propose => c \in n.proposes
    OBVIOUS
  <2> DEFINE es == {e \in sync.entries : e.cmd = c}
             su == {e.cmd : e \in {f \in sync.entries : c \in f.dep /\ f.cmd \notin Delivered(n)}}
             e == CHOOSE e \in es : TRUE
             q == c \in n.proposes
             pd == ProposeDep(e)
  <2>1. sync.entries \in SUBSET Entry
    BY DEF Sync
  <2>2. su \in Deps
    BY <2>1 DEF Entry, Deps
  <2>3. CASE c \in Delivered(n)
    BY <1>1, <2>3 DEF Refreshed
  <2>4. CASE c \notin Delivered(n) /\ es = {}
    <3>1. Refreshed(n, c, sync) = [NewDesc EXCEPT !.successors = su]
      BY <2>4 DEF Refreshed
    <3> HIDE DEF su
    <3> QED
      BY <2>2, <2>4, <3>1, NewDescTyped DEF Desc, NewDesc
  <2>5. CASE c \notin Delivered(n) /\ es # {}
    <3>1. e \in Entry
      BY <2>1, <2>5
    <3>2. Refreshed(n, c, sync) = [NewDesc EXCEPT !.phase = e.phase, !.dep = e.dep, !.proposeDep = pd,
                                     !.noop = e.noop, !.propose = q, !.successors = su]
      BY <2>5 DEF Refreshed
    <3>3. q \in BOOLEAN /\ pd \in {Nil} \cup Deps
      BY <3>1 DEF ProposeDep, Entry
    <3> HIDE DEF su, e, q, pd
    <3>4. Refreshed(n, c, sync) \in Desc /\ Refreshed(n, c, sync).waiting = {} /\ Refreshed(n, c, sync).propose = q
      BY <2>2, <3>1, <3>2, <3>3, NewDescTyped DEF Desc, NewDesc, Entry
    <3> QED
      BY <2>5, <3>4 DEF q
  <2> QED
    BY <2>3, <2>4, <2>5
<1>3. /\ D \in [Commands -> Desc] /\ \A c \in Commands : D[c] = Refreshed(n, c, sync)
  BY <1>2
<1>4. dc \in Deps /\ ag \in Deps /\ ac \in Deps /\ sync.ballot \in Nat
  BY <1>1 DEF Deps, Node, Described, Sync
<1>5. Synced(n, sync, woken) = m
  BY DEF Synced
<1> HIDE DEF D, dc, ag, ac
<1>6. /\ m \in Node /\ m.status = "NORMAL" /\ m.ballot = sync.ballot /\ m.cballot = sync.ballot
      /\ m.acked = n.acked /\ m.executed = n.executed /\ m.proposes = n.proposes
      /\ m.heard = n.heard /\ m.noted = {} /\ m.queued = {} /\ m.desc = D /\ m.log = n.log
      /\ m.replies = n.replies
  BY <1>1, <1>3, <1>4 DEF Node, Deps
<1> HIDE DEF m
<1>7. Sane(m, r)
  <2>1. Sane(n, r)
    BY DEF Good
  <2>2. \A c \in Commands :
          /\ m.desc[c].propose => c \in m.proposes
          /\ c \in Delivered(m) => m.desc[c].propose /\ m.desc[c].waiting = {}
          /\ m.desc[c].waiting = {}
    BY <1>2, <1>3, <1>6, <2>1 DEF Sane, Delivered
  <2>3. \A c \in Commands : \A i \in 1 .. Len(m.acked[c]) :
          m.acked[c][i].ballot <= m.ballot /\ (Leader(m.acked[c][i].ballot) = r => m.acked[c][i].dep # Nil)
    <3>1. \A c \in Commands : n.acked[c] \in Seq(Ack)
      BY <1>1 DEF Node
    <3>2. \A q \in Seq(Ack) : \A i \in 1 .. Len(q) : q[i].ballot \in Nat
      <4>1. \A q \in Seq(Ack) : \A i \in 1 .. Len(q) : q[i] \in Ack
        OBVIOUS
      <4> QED
        BY <4>1 DEF Ack
    <3> QED
      BY <1>1, <1>4, <1>6, <2>1, <3>1, <3>2 DEF Sane
  <2> QED
    BY <1>4, <1>6, <2>1, <2>2, <2>3 DEF Sane
<1> QED
  BY <1>5, <1>6, <1>7 DEF Good

(***************************************************************************)
(* Types.                                                                  *)
(***************************************************************************)
\* What is shown of every step of replica r that leaves it in state m.
LEMMA TypedStep ==
  ASSUME Typed, NEW r \in Replicas, NEW m, Good(m, r), node' = [node EXCEPT ![r] = m],
         newLeaders \subseteq newLeaders', newLeaders' \subseteq 1..MaxBallot,
         newLeaderAcks' \subseteq NewLeaderAck, syncs' \subseteq Sync,
         m.ballot \in newLeaders' \cup {0}, \A s \in syncs' : s.ballot \in newLeaders',
         \A c \in Commands : Len(node[r].acked[c]) <= Len(m.acked[c]),
         \A s \in Replicas, c \in Commands :
           m.heard[s][c] # Nil => m.heard[s][c] <= Len(node[s].acked[c]),
         \A c \in m.noted :
           LET s == Leader(m.ballot)
           IN  r # s /\ m.heard[s][c] # Nil /\ m.heard[s][c] < Len(node[s].acked[c])
  PROVE  Typed'
<1>1. node \in [Replicas -> Node] /\ m \in Node
  BY DEF Typed, Good
<1>2. node' \in [Replicas -> Node] /\ node'[r] = m /\ \A s \in Replicas : s # r => node'[s] = node[s]
  BY <1>1
<1>3. \A n \in Node : /\ n.acked \in [Commands -> Seq(Ack)] /\ n.ballot \in Nat /\ n.noted \subseteq Commands
                      /\ n.heard \in [Replicas -> [Commands -> {Nil} \cup Nat]]
  BY DEF Node, Deps
<1>4. \A s \in Replicas, c \in Commands :
        /\ Len(node[s].acked[c]) \in Nat /\ Len(node'[s].acked[c]) \in Nat
        /\ Len(node[s].acked[c]) <= Len(node'[s].acked[c])
  <2> SUFFICES ASSUME NEW s \in Replicas, NEW c \in Commands
               PROVE  /\ Len(node[s].acked[c]) \in Nat /\ Len(node'[s].acked[c]) \in Nat
                      /\ Len(node[s].acked[c]) <= Len(node'[s].acked[c])
    OBVIOUS
  <2>1. node[s].acked[c] \in Seq(Ack) /\ node'[s].acked[c] \in Seq(Ack)
    BY <1>1, <1>2, <1>3
  <2> QED
    BY <1>2, <2>1
<1>5. \A s \in Replicas : Sane(node[s], s)'
  <2>1. \A s \in Replicas : Sane(node'[s], s)
    BY <1>2 DEF Typed, Good
  <2> QED
    BY <2>1 DEF Sane, Delivered
<1>6. NotedWaits'
  <2> SUFFICES ASSUME NEW q \in Replicas, NEW c \in node'[q].noted
               PROVE  LET s == Leader(node'[q].ballot)
                      IN  q # s /\ node'[q].heard[s][c] # Nil /\ node'[q].heard[s][c] < Len(node'[s].acked[c])
    BY DEF NotedWaits, HasNext
  <2> DEFINE s == Leader(node'[q].ballot)
  <2>1. node'[q].ballot \in Nat /\ c \in Commands /\ node'[q].heard \in [Replicas -> [Commands -> {Nil} \cup Nat]]
    BY <1>2, <1>3
  <2>2. s \in Replicas
    BY <2>1, Group
  <2>3. q # s /\ node'[q].heard[s][c] # Nil /\ node'[q].heard[s][c] < Len(node[s].acked[c])
    <3>1. CASE q = r
      BY <1>2, <3>1
    <3>2. CASE q # r
      BY <1>2, <3>2 DEF Typed, NotedWaits, HasNext
    <3> QED
      BY <3>1, <3>2
  <2> HIDE DEF s
  <2>4. node'[q].heard[s][c] \in Nat
    BY <2>1, <2>2, <2>3
  <2>5. node'[q].heard[s][c] < Len(node'[s].acked[c])
    BY <1>4, <2>1, <2>2, <2>3, <2>4
  <2> QED
    BY <2>3, <2>5 DEF s
<1>7. HeardSent'
  <2> SUFFICES ASSUME NEW q \in Replicas, NEW s \in Replicas, NEW c \in Commands, node'[q].heard[s][c] # Nil
               PROVE  node'[q].heard[s][c] <= Len(node'[s].acked[c])
    BY DEF HeardSent
  <2>1. node'[q].heard \in [Replicas -> [Commands -> {Nil} \cup Nat]]
    BY <1>2, <1>3
  <2>2. node'[q].heard[s][c] \in Nat
    BY <2>1
  <2>3. node'[q].heard[s][c] <= Len(node[s].acked[c])
    <3>1. CASE q = r
      BY <1>2, <3>1
    <3>2. CASE q # r
      BY <1>2, <3>2 DEF Typed, HeardSent
    <3> QED
      BY <3>1, <3>2
  <2> QED
    BY <1>4, <2>2, <2>3
<1>8. Announced'
  <2>1. \A s \in Replicas : node'[s].ballot \in newLeaders' \cup {0}
    BY <1>2 DEF Typed, Announced
  <2> QED
    BY <2>1 DEF Announced
<1> QED
  BY <1>2, <1>5, <1>6, <1>7, <1>8 DEF Typed

\* A step of the normal case, from a state n that has the replica's acks.
LEMMA TypedMove ==
  ASSUME Typed, NEW r \in Replicas, NEW n, NEW m, Good(n, r), Good(m, r), Moved(n, m, r), Becomes(r, m),
         n.ballot = node[r].ballot, n.acked = node[r].acked,
         \A s \in Replicas, c \in Commands :
           n.heard[s][c] # Nil => n.heard[s][c] <= Len(node[s].acked[c]),
         \A c \in n.noted :
           LET s == Leader(n.ballot)
           IN  r # s /\ n.heard[s][c] # Nil /\ n.heard[s][c] < Len(node[s].acked[c])
  PROVE  Typed'
<1>1. node' = [node EXCEPT ![r] = m] /\ newLeaders' = newLeaders /\ newLeaderAcks' = newLeaderAcks
      /\ syncs' = syncs
  BY DEF Becomes
<1>2. newLeaders \subseteq 1..MaxBallot /\ newLeaderAcks \subseteq NewLeaderAck /\ syncs \subseteq Sync
      /\ (\A s \in syncs : s.ballot \in newLeaders) /\ node[r].ballot \in newLeaders \cup {0}
  BY DEF Typed, Announced
<1>3. m.ballot = n.ballot /\ m.noted = n.noted
  BY DEF Moved
<1>4. \A c \in Commands : Len(node[r].acked[c]) <= Len(m.acked[c])
  BY DEF Moved, Grown
<1>5. \A s \in Replicas, c \in Commands :
        m.heard[s][c] # Nil => m.heard[s][c] <= Len(node[s].acked[c])
  BY DEF Moved
<1>6. m.heard[Leader(n.ballot)] = n.heard[Leader(n.ballot)]
  BY DEF Moved
<1>7. \A c \in m.noted :
        LET s == Leader(m.ballot)
        IN  r # s /\ m.heard[s][c] # Nil /\ m.heard[s][c] < Len(node[s].acked[c])
  BY <1>3, <1>6
<1> QED
  BY <1>1, <1>2, <1>3, <1>4, <1>5, <1>7, TypedStep

LEMMA InitTyped ==
  ASSUME Init
  PROVE  Typed
<1>1. NewDesc \in Desc
  BY NewDescTyped
<1>2. <<>> \in Path /\ <<>> \in Seq(Ack)
  BY DEF Path
<1>3. NewHashLog \in Log
  BY <1>2 DEF NewHashLog, Log, Deps
<1>4. NewNode \in Node
  BY <1>1, <1>2, <1>3 DEF NewNode, Node, Deps
<1>5. /\ NewNode.ballot = 0 /\ NewNode.cballot = 0 /\ NewNode.status = "NORMAL" /\ NewNode.executed = <<>>
      /\ NewNode.queued = {} /\ NewNode.noted = {} /\ NewNode.desc = [c \in Commands |-> NewDesc]
      /\ NewNode.acked = [c \in Commands |-> <<>>] /\ NewNode.proposes = {}
      /\ NewNode.heard = [s \in Replicas |-> [c \in Commands |-> 0]]
  BY DEF NewNode
<1>6. ~ NewDesc.propose /\ NewDesc.waiting = {}
  BY DEF NewDesc
<1> HIDE DEF NewNode, NewDesc
<1>7. \A r \in Replicas : Sane(NewNode, r)
  <2>1. ToSet(<<>>) = {} /\ IsInjective(<<>>) /\ Len(<<>>) = 0
    BY DEF ToSet, IsInjective
  <2> QED
    BY <1>5, <1>6, <2>1 DEF Sane, Delivered
<1>8. node \in [Replicas -> Node] /\ \A r \in Replicas : node[r] = NewNode
  BY <1>4 DEF Init
<1>9. \A r \in Replicas : Sane(node[r], r)
  BY <1>7, <1>8
<1>10. NotedWaits
  BY <1>5, <1>8 DEF NotedWaits
<1>11. HeardSent
  <2>1. Len(<<>>) = 0
    OBVIOUS
  <2> QED
    BY <1>5, <1>8, <2>1 DEF HeardSent
<1> QED
  BY <1>5, <1>8, <1>9, <1>10, <1>11 DEF Typed, Init, Announced

LEMMA TypedAt ==
  ASSUME Typed, NEW r \in Replicas
  PROVE  /\ Good(node[r], r) /\ node[r] \in Node /\ node[r].ballot \in Nat
         /\ Leader(node[r].ballot) \in Replicas
         /\ \A s \in Replicas, c \in Commands :
              node[r].heard[s][c] # Nil => node[r].heard[s][c] <= Len(node[s].acked[c])
         /\ \A c \in node[r].noted :
              LET s == Leader(node[r].ballot)
              IN  r # s /\ node[r].heard[s][c] # Nil /\ node[r].heard[s][c] < Len(node[s].acked[c])
<1>1. Good(node[r], r) /\ node[r] \in Node
  BY DEF Typed, Good
<1>2. node[r].ballot \in Nat
  BY <1>1 DEF Node
<1>3. Leader(node[r].ballot) \in Replicas
  BY <1>2, Group
<1>4. \A c \in node[r].noted :
        LET s == Leader(node[r].ballot)
        IN  r # s /\ node[r].heard[s][c] # Nil /\ node[r].heard[s][c] < Len(node[s].acked[c])
  BY DEF Typed, NotedWaits, HasNext
<1> QED
  BY <1>1, <1>2, <1>3, <1>4 DEF Typed, HeardSent

\* An ack that is next is one, and the leader's have dependencies.
LEMMA NextTyped ==
  ASSUME Typed, NEW r \in Replicas, NEW s \in Replicas, NEW c \in Commands, HasNext(r, s, c)
  PROVE  /\ NextOf(r, s, c) \in Ack
         /\ Leader(NextOf(r, s, c).ballot) = s => NextOf(r, s, c).dep # Nil
         /\ \E i \in 1 .. Len(node[s].acked[c]) : NextOf(r, s, c) = node[s].acked[c][i]
         /\ node[r].heard[s][c] \in Nat /\ node[r].heard[s][c] + 1 <= Len(node[s].acked[c])
<1>1. node[r].heard[s][c] \in {Nil} \cup Nat /\ node[s].acked[c] \in Seq(Ack)
  BY DEF Typed, Node
<1> DEFINE i == node[r].heard[s][c] + 1
           q == node[s].acked[c]
<1>2. node[r].heard[s][c] \in Nat /\ i \in 1 .. Len(q)
  BY <1>1 DEF HasNext
<1>3. q[i] \in Ack
  BY <1>1, <1>2
<1>4. Leader(q[i].ballot) = s => q[i].dep # Nil
  BY <1>2 DEF Typed, Sane
<1>5. NextOf(r, s, c) = q[i]
  BY DEF NextOf
<1>6. i <= Len(q)
  BY <1>1, <1>2
<1>7. \E j \in 1 .. Len(q) : NextOf(r, s, c) = q[j]
  BY <1>2, <1>5
<1> QED
  BY <1>2, <1>3, <1>4, <1>5, <1>6, <1>7

\* An ack has been handled.
LEMMA HeardMore ==
  ASSUME Typed, NEW r \in Replicas, NEW s \in Replicas, NEW c \in Commands, HasNext(r, s, c),
         NEW q \in Deps, q \subseteq node[r].noted, c \notin q \/ s # Leader(node[r].ballot)
  PROVE  LET n == node[r]
             m == [n EXCEPT !.noted = q, !.heard = [n.heard EXCEPT ![s] = [n.heard[s] EXCEPT ![c] = n.heard[s][c] + 1]]]
         IN  /\ Good(m, r) /\ m.ballot = n.ballot /\ m.acked = n.acked /\ m.desc = n.desc /\ m.status = n.status
             /\ m.executed = n.executed /\ m.cballot = n.cballot /\ m.noted = q
             /\ \A e \in Replicas, d \in Commands :
                  m.heard[e][d] # Nil => m.heard[e][d] <= Len(node[e].acked[d])
             /\ \A d \in m.noted :
                  LET e == Leader(m.ballot)
                  IN  r # e /\ m.heard[e][d] # Nil /\ m.heard[e][d] < Len(node[e].acked[d])
<1> DEFINE n == node[r]
           h == [n.heard EXCEPT ![s] = [n.heard[s] EXCEPT ![c] = n.heard[s][c] + 1]]
           m == [n EXCEPT !.noted = q, !.heard = h]
           l == Leader(n.ballot)
<1>1. n \in Node /\ n.heard \in [Replicas -> [Commands -> {Nil} \cup Nat]] /\ n.noted \subseteq Commands
      /\ Good(n, r) /\ l \in Replicas
  BY TypedAt DEF Node, Deps
<1>2. n.heard[s][c] \in Nat /\ n.heard[s][c] + 1 <= Len(node[s].acked[c])
  BY NextTyped
<1>3. h \in [Replicas -> [Commands -> {Nil} \cup Nat]]
      /\ h[s][c] = n.heard[s][c] + 1
      /\ \A e \in Replicas, d \in Commands : e # s \/ d # c => h[e][d] = n.heard[e][d]
  BY <1>1, <1>2
<1>4. \A e \in Replicas, d \in Commands : h[e][d] # Nil => h[e][d] <= Len(node[e].acked[d])
  BY <1>2, <1>3, TypedAt
<1>5. \A d \in q : r # l /\ h[l][d] # Nil /\ h[l][d] < Len(node[l].acked[d])
  <2>1. \A d \in q : d \in Commands /\ (d # c \/ l # s)
    BY <1>1
  <2>2. \A d \in q : r # l /\ n.heard[l][d] # Nil /\ n.heard[l][d] < Len(node[l].acked[d])
    BY TypedAt
  <2> QED
    BY <1>1, <1>3, <2>1, <2>2
<1> HIDE DEF h
<1>6. /\ m \in Node /\ m.ballot = n.ballot /\ m.acked = n.acked /\ m.desc = n.desc
      /\ m.executed = n.executed /\ m.proposes = n.proposes /\ m.queued = n.queued
      /\ m.status = n.status /\ m.cballot = n.cballot /\ m.noted = q /\ m.heard = h
  BY <1>1, <1>3 DEF Node
<1>7. Sane(m, r)
  BY <1>1, <1>6, SaneSame DEF Good
<1>8. Good(m, r)
  BY <1>6, <1>7 DEF Good
<1> HIDE DEF m, n, l
<1> QED
  BY <1>4, <1>5, <1>6, <1>8 DEF m, n, l, h

LEMMA TypedTake ==
  ASSUME Typed, NEW r \in Replicas, NEW c \in Commands, TakeProposal(r, c)
  PROVE  Typed'
<1>1. PICK merge \in BOOLEAN : Becomes(r, Taken(node[r], r, c, merge))
  BY DEF TakeProposal, Merges
<1> DEFINE m == Taken(node[r], r, c, merge)
<1>2. Good(node[r], r)
  BY TypedAt
<1>3. Good(m, r) /\ Moved(node[r], m, r)
  BY <1>2, Takes
<1>4. Becomes(r, m)
  BY <1>1
<1> HIDE DEF m
<1> QED
  BY <1>2, <1>3, <1>4, TypedAt, TypedMove

LEMMA TypedQueued ==
  ASSUME Typed, NEW r \in Replicas, NEW c \in Commands, QueuedProposal(r, c)
  PROVE  Typed'
<1>1. PICK merge \in BOOLEAN : Becomes(r, HandlePropose(node[r], r, c, merge))
  BY DEF QueuedProposal, Merges
<1> DEFINE n == node[r]
           m == HandlePropose(node[r], r, c, merge)
<1>2. Good(n, r) /\ n \in Node
  BY TypedAt
<1>3. c \in n.proposes /\ (n.desc[c].propose \/ n.desc[c].proposeDep # Nil)
  BY <1>2 DEF QueuedProposal, Good, Sane
<1>4. Good(m, r) /\ After(n, m, r)
  BY <1>2, <1>3, HandlesPropose
<1>5. Becomes(r, m)
  BY <1>1
<1> HIDE DEF m
<1>6. Moved(n, m, r)
  BY <1>2, <1>4, MovedSelf, MovedAfter DEF Good
<1> QED
  BY <1>2, <1>4, <1>5, <1>6, TypedAt, TypedMove

LEMMA TypedNote ==
  ASSUME Typed, NEW r \in Replicas, NEW c \in Commands, NoteLeaderAck(r, c)
  PROVE  Typed'
<1> DEFINE n == node[r]
           s == Leader(n.ballot)
           a == NextOf(r, s, c)
           k == RecordLeaderHash(n, c, a.seqnum, a.hs)
           m == [k EXCEPT !.noted = @ \cup {c}]
<1>1. r # s /\ HasNext(r, s, c) /\ Becomes(r, m)
  BY DEF NoteLeaderAck
<1>2. Good(n, r) /\ n \in Node /\ s \in Replicas
  BY TypedAt
<1>3. a \in Ack
  BY <1>1, <1>2, NextTyped
<1>4. a.seqnum \in Nat /\ a.hs \in Path
  BY <1>3 DEF Ack
<1> HIDE DEF a
<1>5. /\ Good(k, r) /\ Moved(n, k, r) /\ k.acked = n.acked /\ k.heard = n.heard
  BY <1>2, <1>4, RecordsHash
<1> HIDE DEF k
<1>6. k.noted = n.noted /\ k.ballot = n.ballot
  BY <1>5 DEF Moved
<1>7. /\ m \in Node /\ m.ballot = k.ballot /\ m.acked = k.acked /\ m.desc = k.desc
      /\ m.executed = k.executed /\ m.proposes = k.proposes /\ m.queued = k.queued
      /\ m.status = k.status /\ m.cballot = k.cballot /\ m.noted = k.noted \cup {c} /\ m.heard = k.heard
  BY <1>5 DEF Good, Node, Deps
<1> HIDE DEF m
<1>8. Good(m, r)
  BY <1>5, <1>7, SaneSame DEF Good
<1>9. Moved(m, m, r)
  BY <1>7, MovedSelf
<1>10. \A d \in m.noted : r # s /\ m.heard[s][d] # Nil /\ m.heard[s][d] < Len(node[s].acked[d])
  BY <1>1, <1>5, <1>6, <1>7, TypedAt DEF HasNext
<1>11. \A e \in Replicas, d \in Commands : m.heard[e][d] # Nil => m.heard[e][d] <= Len(node[e].acked[d])
  BY <1>5, <1>7, TypedAt
<1>12. m.ballot = n.ballot /\ m.acked = n.acked
  BY <1>5, <1>6, <1>7
<1> QED
  BY <1>1, <1>8, <1>9, <1>10, <1>11, <1>12, TypedMove

LEMMA TypedLeaderAck ==
  ASSUME Typed, NEW r \in Replicas, NEW c \in Commands, HandleLeaderAck(r, c)
  PROVE  Typed'
<1> DEFINE n == node[r]
           s == Leader(n.ballot)
           a == NextOf(r, s, c)
           q == n.noted \ {c}
           h == [n EXCEPT !.noted = q, !.heard = [n.heard EXCEPT ![s] = [n.heard[s] EXCEPT ![c] = n.heard[s][c] + 1]]]
<1>1. Good(n, r) /\ n \in Node /\ s \in Replicas /\ n.heard \in [Replicas -> [Commands -> {Nil} \cup Nat]]
      /\ q \in Deps /\ q \subseteq n.noted /\ c \notin q
  BY TypedAt DEF Node, Deps
<1>2. HasNext(r, s, c)
  BY <1>1, TypedAt DEF HandleLeaderAck, HasNext
<1>3. a \in Ack /\ (Leader(a.ballot) = s => a.dep # Nil)
  BY <1>1, <1>2, NextTyped
<1>4. [n EXCEPT !.noted = @ \ {c}, !.heard[s][c] = @ + 1] = h
  BY <1>1 DEF Node
<1>5. PICK merge \in BOOLEAN :
        Becomes(r, IF c \in Delivered(n) THEN h ELSE CallAfterPropagate(h, r, c, a, merge))
  BY <1>4 DEF HandleLeaderAck, Merges
<1>6. /\ Good(h, r) /\ h.ballot = n.ballot /\ h.acked = n.acked /\ h.desc = n.desc /\ h.status = n.status
      /\ h.executed = n.executed /\ h.cballot = n.cballot /\ h.noted = q
      /\ \A e \in Replicas, d \in Commands :
           h.heard[e][d] # Nil => h.heard[e][d] <= Len(node[e].acked[d])
      /\ \A d \in h.noted :
           LET e == Leader(h.ballot)
           IN  r # e /\ h.heard[e][d] # Nil /\ h.heard[e][d] < Len(node[e].acked[d])
  <2>1. q \in Deps /\ q \subseteq node[r].noted /\ (c \notin q \/ s # Leader(node[r].ballot)) /\ s \in Replicas
        /\ HasNext(r, s, c)
    BY <1>1, <1>2
  <2> HIDE DEF q, s, a
  <2> QED
    BY <2>1, HeardMore
<1> HIDE DEF h
<1>7. a.ballot = h.ballot => a.dep # Nil
  BY <1>3, <1>6
<1> HIDE DEF a
<1> DEFINE k == CallAfterPropagate(h, r, c, a, merge)
<1>8. Good(k, r) /\ After(h, k, r)
  BY <1>3, <1>6, <1>7, CallsAfter
<1> HIDE DEF k
<1>9. Moved(h, h, r) /\ Moved(h, k, r)
  BY <1>6, <1>8, MovedSelf, MovedAfter DEF Good
<1>10. CASE Becomes(r, h)
  BY <1>6, <1>9, <1>10, TypedMove
<1>11. CASE Becomes(r, k)
  BY <1>6, <1>8, <1>9, <1>11, TypedMove
<1> QED
  BY <1>5, <1>10, <1>11 DEF k

LEMMA TypedAck ==
  ASSUME Typed, NEW r \in Replicas, NEW s \in Replicas, NEW c \in Commands, HandleAck(r, s, c)
  PROVE  Typed'
<1> DEFINE n == node[r]
           a == NextOf(r, s, c)
           q == n.noted
           h == [n EXCEPT !.noted = q, !.heard = [n.heard EXCEPT ![s] = [n.heard[s] EXCEPT ![c] = n.heard[s][c] + 1]]]
           k == CommonCaseFastAck(h, r, c, s, a)
<1>1. Good(n, r) /\ n \in Node /\ n.heard \in [Replicas -> [Commands -> {Nil} \cup Nat]]
      /\ q \in Deps /\ q \subseteq n.noted /\ s # Leader(n.ballot) /\ HasNext(r, s, c)
  BY TypedAt DEF Node, HandleAck
<1>2. a \in Ack
  BY <1>1, NextTyped
<1>3. [n EXCEPT !.heard[s][c] = @ + 1] = h
  BY <1>1 DEF Node
<1>4. Becomes(r, k)
  BY <1>3 DEF HandleAck
<1>5. /\ Good(h, r) /\ h.ballot = n.ballot /\ h.acked = n.acked /\ h.desc = n.desc /\ h.status = n.status
      /\ h.executed = n.executed /\ h.cballot = n.cballot /\ h.noted = q
      /\ \A e \in Replicas, d \in Commands :
           h.heard[e][d] # Nil => h.heard[e][d] <= Len(node[e].acked[d])
      /\ \A d \in h.noted :
           LET e == Leader(h.ballot)
           IN  r # e /\ h.heard[e][d] # Nil /\ h.heard[e][d] < Len(node[e].acked[d])
  <2>1. q \in Deps /\ q \subseteq node[r].noted /\ (c \notin q \/ s # Leader(node[r].ballot)) /\ s \in Replicas
        /\ HasNext(r, s, c)
    BY <1>1
  <2> HIDE DEF q, a, k
  <2> QED
    BY <2>1, HeardMore
<1> HIDE DEF h, a
<1>6. Good(k, r) /\ After(h, k, r)
  BY <1>2, <1>5, CommonCase
<1> HIDE DEF k
<1>7. Moved(h, k, r)
  BY <1>5, <1>6, MovedSelf, MovedAfter DEF Good
<1> QED
  BY <1>4, <1>5, <1>6, <1>7, TypedMove

\* Wake and DeliverNext.
Waking(n, u, d) == [n EXCEPT !.unwoken = u, !.deliverChan = d]

LEMMA Waked ==
  ASSUME NEW r \in Replicas, NEW n, Good(n, r), NEW u \in Deps, NEW d \in Deps
  PROVE  LET m == Waking(n, u, d)
         IN  /\ Good(m, r) /\ Moved(n, m, r) /\ m.acked = n.acked /\ m.desc = n.desc
             /\ m.executed = n.executed /\ m.proposes = n.proposes /\ m.log = n.log
             /\ m.pendingHashUpds = n.pendingHashUpds /\ m.again = n.again /\ m.heard = n.heard
             /\ m.queued = n.queued /\ m.seqnum = n.seqnum /\ m.replies = n.replies
             /\ m.lastCmd = n.lastCmd /\ m.lastWrite = n.lastWrite
<1> DEFINE m == Waking(n, u, d)
<1>1. n \in Node
  BY DEF Good
<1>2. /\ m \in Node /\ m.acked = n.acked /\ m.desc = n.desc
      /\ m.executed = n.executed /\ m.proposes = n.proposes /\ m.queued = n.queued
      /\ m.heard = n.heard /\ m.replies = n.replies
      /\ m.status = n.status /\ m.ballot = n.ballot /\ m.cballot = n.cballot
      /\ m.kept = n.kept /\ m.accepts = n.accepts /\ m.noted = n.noted /\ m.log = n.log
      /\ m.pendingHashUpds = n.pendingHashUpds /\ m.again = n.again
      /\ m.seqnum = n.seqnum /\ m.lastCmd = n.lastCmd /\ m.lastWrite = n.lastWrite
  BY <1>1 DEF Node, Waking
<1> HIDE DEF m
<1>3. Sane(m, r)
  BY <1>2, SaneSame DEF Good
<1>4. \A c \in Commands : Grown(n.acked[c], n.acked[c], n.ballot)
  BY <1>1, AfterSelf DEF After
<1>5. Moved(n, m, r)
  BY <1>2, <1>4 DEF Moved, Delivered
<1> QED
  BY <1>2, <1>3, <1>5 DEF Good, m

LEMMA TypedWake ==
  ASSUME Typed, NEW r \in Replicas, NEW c \in Commands, Wake(r, c)
  PROVE  Typed'
<1> DEFINE n == node[r]
           u == n.unwoken \ {c}
           d == n.deliverChan \cup n.desc[c].successors
           m == Waking(n, u, d)
<1>1. Good(n, r) /\ n \in Node
  BY TypedAt
<1>2. u \in Deps /\ d \in Deps
  BY <1>1 DEF Node, Desc, Deps
<1>3. Becomes(r, m)
  BY DEF Wake, Waking
<1> HIDE DEF u, d
<1>4. Good(m, r) /\ Moved(n, m, r)
  BY <1>1, <1>2, Waked
<1> HIDE DEF m
<1> QED
  BY <1>1, <1>3, <1>4, TypedAt, TypedMove

LEMMA TypedDeliver ==
  ASSUME Typed, NEW r \in Replicas, NEW c \in Commands, DeliverNext(r, c)
  PROVE  Typed'
<1> DEFINE n == node[r]
           d == n.deliverChan \ {c}
           u == n.unwoken
           m == Waking(n, u, d)
           k == Deliver(m, r, c)
<1>1. Good(n, r) /\ n \in Node
  BY TypedAt
<1>2. u \in Deps /\ d \in Deps
  BY <1>1 DEF Node, Deps
<1>3. Becomes(r, k)
  <2>1. m = [n EXCEPT !.deliverChan = d]
    BY <1>1 DEF Node, Waking
  <2> QED
    BY <2>1 DEF DeliverNext
<1> HIDE DEF u, d
<1>4. Good(m, r) /\ Moved(n, m, r)
  BY <1>1, <1>2, Waked
<1> HIDE DEF m
<1>5. Good(k, r) /\ After(m, k, r)
  BY <1>4, Delivers
<1> HIDE DEF k
<1>6. Moved(n, k, r)
  BY <1>1, <1>4, <1>5, MovedAfter DEF Good
<1> QED
  BY <1>1, <1>3, <1>5, <1>6, TypedAt, TypedMove

\* Counted: what a replica has heard when it counts the acks of delivered commands.
LEMMA CountedTyped ==
  ASSUME Typed, NEW r \in Replicas
  PROVE  LET n == node[r]
             m == Counted(n)
         IN  /\ Good(m, r)
             /\ m.status = n.status /\ m.ballot = n.ballot /\ m.cballot = n.cballot /\ m.executed = n.executed
             /\ m.proposes = n.proposes /\ m.queued = n.queued /\ m.desc = n.desc /\ m.acked = n.acked
             /\ m.noted = n.noted /\ m.log = n.log /\ m.replies = n.replies /\ m.kept = n.kept
             /\ \A s \in Replicas, c \in Commands : m.heard[s][c] \in Nat /\ m.heard[s][c] <= Len(node[s].acked[c])
<1> DEFINE n == node[r]
           h == [s \in Replicas |-> [c \in Commands |->
                   IF n.heard[s][c] = Nil THEN Len(node[s].acked[c]) ELSE n.heard[s][c]]]
           m == Counted(n)
<1>1. Good(n, r) /\ n \in Node /\ n.heard \in [Replicas -> [Commands -> {Nil} \cup Nat]]
  BY TypedAt DEF Node
<1>2. \A s \in Replicas, c \in Commands : Len(node[s].acked[c]) \in Nat
  <2>1. \A s \in Replicas, c \in Commands : node[s].acked[c] \in Seq(Ack)
    BY DEF Typed, Node
  <2> QED
    BY <2>1
<1>3. \A s \in Replicas, c \in Commands : h[s][c] \in Nat /\ h[s][c] <= Len(node[s].acked[c])
  BY <1>1, <1>2, TypedAt
<1>4. h \in [Replicas -> [Commands -> {Nil} \cup Nat]]
  BY <1>1, <1>2
<1>5. m = [n EXCEPT !.heard = h]
  BY <1>1 DEF Counted, Node
<1> HIDE DEF h
<1>6. /\ m \in Node
      /\ m.status = n.status /\ m.ballot = n.ballot /\ m.cballot = n.cballot /\ m.executed = n.executed
      /\ m.proposes = n.proposes /\ m.queued = n.queued /\ m.desc = n.desc /\ m.acked = n.acked
      /\ m.noted = n.noted /\ m.log = n.log /\ m.replies = n.replies /\ m.kept = n.kept /\ m.heard = h
  BY <1>1, <1>4, <1>5 DEF Node
<1> HIDE DEF m
<1>7. Sane(m, r)
  BY <1>1, <1>6, SaneSame DEF Good
<1>8. Good(m, r)
  BY <1>6, <1>7 DEF Good
<1> QED
  BY <1>3, <1>6, <1>8 DEF m, n

\* A replica that starts a recovery.
LEMMA RecoveringTyped ==
  ASSUME NEW r \in Replicas, NEW n, Good(n, r), NEW b \in Nat, n.ballot < b, NEW kept \in Deps
  PROVE  LET m == Recovering(n, b, kept)
         IN  /\ Good(m, r) /\ m.status = "RECOVERING" /\ m.ballot = b /\ m.cballot = n.cballot
             /\ m.executed = n.executed /\ m.proposes = n.proposes /\ m.desc = n.desc /\ m.acked = n.acked
             /\ m.noted = {} /\ m.heard = n.heard /\ m.replies = n.replies /\ m.kept = kept
<1> DEFINE m == [n EXCEPT !.status = "RECOVERING", !.ballot = b, !.kept = kept, !.queued = {}, !.noted = {}]
<1>1. n \in Node /\ Sane(n, r) /\ n.ballot \in Nat /\ n.cballot \in Nat
  BY DEF Good, Node
<1>2. Recovering(n, b, kept) = m
  BY DEF Recovering
<1>3. /\ m \in Node /\ m.status = "RECOVERING" /\ m.ballot = b /\ m.cballot = n.cballot
      /\ m.executed = n.executed /\ m.proposes = n.proposes /\ m.desc = n.desc /\ m.acked = n.acked
      /\ m.noted = {} /\ m.heard = n.heard /\ m.replies = n.replies /\ m.kept = kept /\ m.queued = {}
  BY <1>1 DEF Node, Deps
<1> HIDE DEF m
<1>4. \A c \in Commands : \A i \in 1 .. Len(m.acked[c]) :
        m.acked[c][i].ballot <= m.ballot /\ (Leader(m.acked[c][i].ballot) = r => m.acked[c][i].dep # Nil)
  <2>1. \A c \in Commands : n.acked[c] \in Seq(Ack)
    BY <1>1 DEF Node
  <2>2. \A q \in Seq(Ack) : \A i \in 1 .. Len(q) : q[i].ballot \in Nat
    <3>1. \A q \in Seq(Ack) : \A i \in 1 .. Len(q) : q[i] \in Ack
      OBVIOUS
    <3> QED
      BY <3>1 DEF Ack
  <2> QED
    BY <1>1, <1>3, <2>1, <2>2 DEF Sane
<1>5. \A c \in Commands :
        /\ m.desc[c].propose => c \in m.proposes
        /\ c \in Delivered(m) => m.desc[c].propose /\ m.desc[c].waiting = {}
  BY <1>1, <1>3 DEF Sane, Delivered
<1>6. Sane(m, r)
  BY <1>1, <1>3, <1>4, <1>5 DEF Sane
<1> QED
  BY <1>2, <1>3, <1>6 DEF Good

LEMMA EntriesTyped ==
  ASSUME NEW n \in Node
  PROVE  Entries(n) \subseteq Entry
<1>1. \A c \in Commands : n.desc[c] \in Desc
  BY DEF Node
<1>2. Described(n) \subseteq Commands /\ n.proposes \subseteq Commands
  BY DEF Described, Node, Deps
<1>3. \A c \in Commands :
        /\ [cmd |-> c, phase |-> n.desc[c].phase, dep |-> n.desc[c].dep, noop |-> n.desc[c].noop] \in Entry
        /\ [cmd |-> c, phase |-> "ACCEPT", dep |-> {}, noop |-> TRUE] \in Entry
  BY <1>1 DEF Desc, Entry, Phases, Deps
<1> QED
  BY <1>2, <1>3 DEF Entries

LEMMA TypedStart ==
  ASSUME Typed, NEW r \in Replicas, NEW b \in 1..MaxBallot, StartRecovery(r, b),
         newLeaders \subseteq newLeaders', newLeaders' \subseteq 1..MaxBallot, b \in newLeaders'
  PROVE  Typed'
<1>1. PICK kept \in MayKeep(r) :
        LET n == Recovering(Counted(node[r]), b, kept)
        IN  /\ node' = [node EXCEPT ![r] = n]
            /\ newLeaderAcks' = newLeaderAcks \cup
                 {[from |-> r, ballot |-> b, cballot |-> n.cballot, entries |-> Entries(n),
                   executed |-> Delivered(n)]}
  BY DEF StartRecovery
<1> DEFINE n == Counted(node[r])
           m == Recovering(n, b, kept)
           a == [from |-> r, ballot |-> b, cballot |-> m.cballot, entries |-> Entries(m),
                 executed |-> Delivered(m)]
<1>2. node[r].ballot < b /\ syncs' = syncs
  BY DEF StartRecovery
<1>3. b \in Nat /\ kept \in Deps /\ node[r] \in Node
  <2>1. Delivered(node[r]) \subseteq Commands /\ node[r] \in Node
    <3>1. node[r] \in Node /\ node[r].executed \in Seq(Commands)
      BY TypedAt DEF Node, Path
    <3>2. \A x \in Seq(Commands) : ToSet(x) \subseteq Commands
      BY DEF ToSet
    <3> QED
      BY <3>1, <3>2 DEF Delivered
  <2> QED
    BY <2>1, <1>1 DEF MayKeep, Deps
<1>4. /\ Good(n, r) /\ n.ballot < b /\ n.acked = node[r].acked
      /\ \A s \in Replicas, c \in Commands : n.heard[s][c] \in Nat /\ n.heard[s][c] <= Len(node[s].acked[c])
  BY <1>2, CountedTyped
<1> HIDE DEF n
<1>5. /\ Good(m, r) /\ m.ballot = b /\ m.acked = n.acked /\ m.noted = {} /\ m.heard = n.heard
  BY <1>3, <1>4, RecoveringTyped
<1>6. node' = [node EXCEPT ![r] = m] /\ newLeaderAcks' = newLeaderAcks \cup {a}
  BY <1>1 DEF n
<1> HIDE DEF m
<1>7. a \in NewLeaderAck
  <2>1. m \in Node /\ m.cballot \in Nat /\ m.executed \in Seq(Commands)
    BY <1>5 DEF Good, Node, Path
  <2>2. \A x \in Seq(Commands) : ToSet(x) \subseteq Commands
    BY DEF ToSet
  <2>3. Delivered(m) \in Deps
    BY <2>1, <2>2 DEF Delivered, Deps
  <2> QED
    BY <1>3, <2>1, <2>3, EntriesTyped DEF NewLeaderAck
<1> HIDE DEF a
<1>8. newLeaderAcks' \subseteq NewLeaderAck /\ syncs' \subseteq Sync /\ \A s \in syncs' : s.ballot \in newLeaders'
  BY <1>2, <1>6, <1>7 DEF Typed, Announced
<1>9. m.ballot \in newLeaders' \cup {0}
  BY <1>5
<1>10. \A c \in Commands : Len(node[r].acked[c]) <= Len(m.acked[c])
  <2>1. \A c \in Commands : node[r].acked[c] \in Seq(Ack)
    BY <1>3 DEF Node
  <2>2. \A c \in Commands : Len(node[r].acked[c]) \in Nat
    BY <2>1
  <2> QED
    BY <1>4, <1>5, <2>2
<1>11. \A s \in Replicas, c \in Commands :
         m.heard[s][c] # Nil => m.heard[s][c] <= Len(node[s].acked[c])
  BY <1>4, <1>5
<1>12. \A c \in m.noted :
         LET s == Leader(m.ballot)
         IN  r # s /\ m.heard[s][c] # Nil /\ m.heard[s][c] < Len(node[s].acked[c])
  BY <1>5
<1> QED
  BY <1>5, <1>6, <1>8, <1>9, <1>10, <1>11, <1>12, TypedStep

\* What a Sync leaves.
LEMMA TypedSync ==
  ASSUME Typed, NEW r \in Replicas, NEW n, Good(n, r), NEW sync \in Sync, n.ballot <= sync.ballot,
         n.acked = node[r].acked,
         \A s \in Replicas, c \in Commands : n.heard[s][c] # Nil => n.heard[s][c] <= Len(node[s].acked[c]),
         NEW woken \in Deps, node' = [node EXCEPT ![r] = AfterSync(n, r, sync, woken)],
         newLeaders' = newLeaders, newLeaderAcks' = newLeaderAcks, syncs \subseteq syncs',
         syncs' \subseteq syncs \cup {sync}, sync.ballot \in newLeaders
  PROVE  Typed'
<1> DEFINE k == Synced(n, sync, woken)
           T == n.proposes \cap InSync(sync)
           m == AcksOfSynced(k, r, T)
<1>1. /\ Good(k, r) /\ k.ballot = sync.ballot /\ k.acked = n.acked /\ k.heard = n.heard /\ k.noted = {}
  BY SyncedTyped
<1>2. AfterSync(n, r, sync, woken) = m
  BY DEF AfterSync
<1>3. T \in SUBSET Commands
  BY DEF Good, Node, Deps
<1> HIDE DEF k, T
<1>4. Good(m, r) /\ Moved(k, m, r)
  BY <1>1, <1>3, AllAcksSynced
<1> HIDE DEF m
<1>5. node' = [node EXCEPT ![r] = m]
  BY <1>2
<1>6. newLeaders' \subseteq 1..MaxBallot /\ newLeaderAcks' \subseteq NewLeaderAck /\ syncs' \subseteq Sync
      /\ (\A s \in syncs' : s.ballot \in newLeaders') /\ newLeaders \subseteq newLeaders'
  BY DEF Typed, Announced
<1>7. m.ballot \in newLeaders' \cup {0}
  BY <1>1, <1>4 DEF Moved
<1>8. \A c \in Commands : Len(node[r].acked[c]) <= Len(m.acked[c])
  BY <1>1, <1>4 DEF Moved, Grown
<1>9. \A s \in Replicas, c \in Commands :
        m.heard[s][c] # Nil => m.heard[s][c] <= Len(node[s].acked[c])
  BY <1>1, <1>4 DEF Moved
<1>10. m.noted = {}
  BY <1>1, <1>4 DEF Moved
<1>11. \A c \in m.noted :
         LET s == Leader(m.ballot)
         IN  r # s /\ m.heard[s][c] # Nil /\ m.heard[s][c] < Len(node[s].acked[c])
  BY <1>10
<1> QED
  BY <1>4, <1>5, <1>6, <1>7, <1>8, <1>9, <1>11, TypedStep

LEMMA TypedHandleSync ==
  ASSUME Typed, NEW r \in Replicas, NEW sync \in syncs, HandleSync(r, sync)
  PROVE  Typed'
<1>1. PICK kept \in (IF node[r].status = "NORMAL" THEN MayKeep(r) ELSE {node[r].kept}),
           woken \in MayWake(node[r], sync) :
        Becomes(r, AfterSync([Counted(node[r]) EXCEPT !.kept = kept], r, sync, woken))
  BY DEF HandleSync
<1> DEFINE c == Counted(node[r])
           n == [c EXCEPT !.kept = kept]
<1>2. sync \in Sync /\ sync.ballot \in newLeaders /\ sync.ballot \in Nat /\ Good(node[r], r) /\ node[r] \in Node
      /\ node[r].ballot \in Nat
  BY TypedAt DEF Typed, Announced, Sync
<1>3. node[r].ballot <= sync.ballot
  BY <1>2 DEF HandleSync
<1>4. woken \in Deps
  <2>1. InSync(sync) \subseteq Commands
    BY <1>2 DEF InSync, Sync, Entry
  <2> QED
    BY <1>1, <2>1 DEF MayWake, Wakeable, Deps
<1>5. kept \in Deps
  <2>1. Delivered(node[r]) \subseteq Commands
    <3>1. node[r].executed \in Seq(Commands)
      BY <1>2 DEF Node, Path
    <3>2. \A x \in Seq(Commands) : ToSet(x) \subseteq Commands
      BY DEF ToSet
    <3> QED
      BY <3>1, <3>2 DEF Delivered
  <2>2. node[r].kept \in Deps
    BY <1>2 DEF Node
  <2> QED
    BY <1>1, <2>1, <2>2 DEF MayKeep, Deps
<1>6. /\ Good(c, r) /\ c.ballot = node[r].ballot /\ c.acked = node[r].acked
      /\ \A s \in Replicas, d \in Commands : c.heard[s][d] \in Nat /\ c.heard[s][d] <= Len(node[s].acked[d])
  BY CountedTyped
<1>7. Becomes(r, AfterSync(n, r, sync, woken))
  BY <1>1
<1> HIDE DEF c
<1>8. /\ n \in Node /\ n.status = c.status /\ n.ballot = c.ballot /\ n.cballot = c.cballot
      /\ n.executed = c.executed /\ n.queued = c.queued /\ n.proposes = c.proposes /\ n.desc = c.desc
      /\ n.acked = c.acked /\ n.heard = c.heard
  BY <1>5, <1>6 DEF Good, Node
<1> HIDE DEF n
<1>9. Good(n, r)
  BY <1>6, <1>8, SaneSame DEF Good
<1>10. /\ node' = [node EXCEPT ![r] = AfterSync(n, r, sync, woken)]
       /\ newLeaders' = newLeaders /\ newLeaderAcks' = newLeaderAcks /\ syncs' = syncs
  BY <1>7 DEF Becomes
<1>11. n.ballot <= sync.ballot /\ n.acked = node[r].acked
       /\ \A s \in Replicas, d \in Commands : n.heard[s][d] # Nil => n.heard[s][d] <= Len(node[s].acked[d])
  BY <1>3, <1>6, <1>8
<1> QED
  BY <1>2, <1>4, <1>9, <1>10, <1>11, TypedSync

LEMMA TypedAnswers ==
  ASSUME Typed, NEW r \in Replicas, NEW acks \in kSubset(Majority, newLeaderAcks), HandleNewLeaderAcks(r, acks)
  PROVE  Typed'
<1>1. PICK es \in LastRead(AcceptedIn(acks)) :
        LET sync == [ballot |-> node[r].ballot, entries |-> es, acks |-> acks]
        IN  /\ syncs' = syncs \cup {sync}
            /\ \E woken \in MayWake(node[r], sync) :
                   node' = [node EXCEPT ![r] = AfterSync(node[r], r, sync, woken)]
  BY DEF HandleNewLeaderAcks
<1> DEFINE n == node[r]
           sync == [ballot |-> n.ballot, entries |-> es, acks |-> acks]
<1>2. PICK woken \in MayWake(n, sync) : node' = [node EXCEPT ![r] = AfterSync(n, r, sync, woken)]
  BY <1>1
<1>3. Good(n, r) /\ n \in Node /\ n.ballot \in Nat /\ n.status = "RECOVERING"
      /\ newLeaderAcks \subseteq NewLeaderAck
  BY TypedAt DEF HandleNewLeaderAcks, Typed
<1>4. acks \subseteq newLeaderAcks
  BY DEF kSubset
<1>5. es \subseteq Entry
  <2>1. \A a \in Highest(acks) : a.entries \subseteq Entry
    BY <1>3, <1>4 DEF Highest, NewLeaderAck
  <2>2. AcceptedIn(acks) \subseteq Entry
    BY <2>1 DEF AcceptedIn
  <2> QED
    BY <1>1, <2>2 DEF LastRead
<1>6. sync \in Sync
  BY <1>3, <1>4, <1>5 DEF Sync
<1>7. woken \in Deps
  <2>1. InSync(sync) \subseteq Commands
    BY <1>5 DEF InSync, Entry
  <2> QED
    BY <1>2, <2>1 DEF MayWake, Wakeable, Deps
<1>8. n.ballot # 0
  BY <1>3 DEF Good, Sane
<1>9. n.ballot \in newLeaders
  BY <1>8 DEF Typed, Announced
<1>10. newLeaders' = newLeaders /\ newLeaderAcks' = newLeaderAcks /\ syncs' = syncs \cup {sync}
  BY <1>1 DEF HandleNewLeaderAcks
<1>11. sync.ballot = n.ballot
  OBVIOUS
<1> HIDE DEF sync
<1>12. n.ballot <= sync.ballot /\ sync.ballot \in newLeaders
  BY <1>3, <1>9, <1>11
<1>13. \A s \in Replicas, d \in Commands : n.heard[s][d] # Nil => n.heard[s][d] <= Len(node[s].acked[d])
  BY TypedAt
<1> QED
  BY <1>2, <1>3, <1>6, <1>7, <1>10, <1>12, <1>13, TypedSync

LEMMA TypedSame ==
  ASSUME Typed, UNCHANGED vars
  PROVE  Typed'
<1>1. node' = node /\ newLeaders' = newLeaders /\ newLeaderAcks' = newLeaderAcks /\ syncs' = syncs
  BY DEF vars
<1>2. NotedWaits'
  BY <1>1 DEF Typed, NotedWaits, HasNext
<1>3. HeardSent' /\ Announced'
  BY <1>1 DEF Typed, HeardSent, Announced
<1>4. \A r \in Replicas : Sane(node[r], r)'
  BY <1>1 DEF Typed, Sane, Delivered
<1> QED
  BY <1>1, <1>2, <1>3, <1>4 DEF Typed

LEMMA TypedNext ==
  ASSUME Typed, [Next]_vars
  PROVE  Typed'
<1>1. CASE UNCHANGED vars
  BY <1>1, TypedSame
<1>2. ASSUME NEW r \in Replicas, NormalStep(r) PROVE Typed'
  BY <1>2, TypedTake, TypedQueued, TypedNote, TypedLeaderAck, TypedAck, TypedWake, TypedDeliver DEF NormalStep
<1>3. ASSUME NEW r \in Replicas, RecoveryStep(r) PROVE Typed'
  <2>1. newLeaders \subseteq 1..MaxBallot
    BY DEF Typed
  <2>2. ASSUME NEW b \in 1..MaxBallot, BeTheLeader(r, b) PROVE Typed'
    BY <2>1, <2>2, TypedStart DEF BeTheLeader
  <2>3. ASSUME NEW b \in 1..MaxBallot, HandleNewLeader(r, b) PROVE Typed'
    BY <2>1, <2>3, TypedStart DEF HandleNewLeader
  <2> QED
    BY <1>3, <2>2, <2>3, TypedAnswers, TypedHandleSync DEF RecoveryStep
<1> QED
  BY <1>1, <1>2, <1>3 DEF Next

\* Every replica's record keeps its type and is sane, through any recoveries: ballots only
\* grow, what is queued or delivered was proposed, and a leader's acks have dependencies.
THEOREM TypesOfSwift == Spec => []Typed
<1>1. Init => Typed
  BY InitTyped
<1>2. Typed /\ [Next]_vars => Typed'
  BY TypedNext
<1> QED
  BY <1>1, <1>2, PTL DEF Spec

LEMMA TypedIsTypeOK ==
  ASSUME Typed
  PROVE  TypeOK /\ ExecutedOnce
<1>1. \A r \in Replicas : Good(node[r], r) /\ node[r] \in Node /\ node[r].ballot \in newLeaders \cup {0}
  BY TypedAt DEF Typed, Announced
<1>2. newLeaders \subseteq 1..MaxBallot
  BY DEF Typed
<1>3. ExecutedOnce
  BY <1>1 DEF ExecutedOnce, Good, Sane
<1>4. \A d \in Desc : DescTyped(d)
  <2> SUFFICES ASSUME NEW d \in Desc PROVE DescTyped(d)
    OBVIOUS
  <2>1. d.acks.slow \in MsgSet /\ d.acks.fast \in MsgSet
    BY DEF Desc
  <2>2. \A s \in MsgSet : Len(s.leader) <= 1 /\ DOMAIN s.msgs \subseteq Replicas
    <3> SUFFICES ASSUME NEW s \in MsgSet PROVE Len(s.leader) <= 1 /\ DOMAIN s.msgs \subseteq Replicas
      OBVIOUS
    <3>1. s.leader = <<>> \/ \E d1 \in {Nil} \cup Deps : s.leader = <<d1>>
      BY DEF MsgSet
    <3>2. Len(s.leader) <= 1
      <4>1. CASE s.leader = <<>>
        BY <4>1
      <4>2. ASSUME NEW e \in {Nil} \cup Deps, s.leader = <<e>> PROVE Len(s.leader) <= 1
        <5>1. Len(<<e>>) = 1
          OBVIOUS
        <5> QED
          BY <4>2, <5>1
      <4> QED
        BY <3>1, <4>1, <4>2
    <3>3. DOMAIN s.msgs \subseteq Replicas
      BY DEF MsgSet
    <3> QED
      BY <3>2, <3>3
  <2>3. \A p \in {"slow", "fast"} : d.acks[p] \in MsgSet
    BY <2>1
  <2>4. d.phase \in Phases /\ d.dep \in Deps /\ d.successors \in Deps /\ d.proposeDep \in {Nil} \cup Deps
    BY DEF Desc
  <2> QED
    BY <2>2, <2>3, <2>4 DEF DescTyped, Phases, Deps
<1>5. ASSUME NEW r \in Replicas
      PROVE  /\ node[r].ballot \in 0..MaxBallot /\ node[r].cballot <= node[r].ballot
             /\ node[r].status \in {"NORMAL", "RECOVERING"}
             /\ Delivered(node[r]) \subseteq node[r].proposes
             /\ \A c \in Commands : DescTyped(node[r].desc[c])
             /\ \A s \in Replicas, c \in Commands :
                  node[r].heard[s][c] = Nil \/ node[r].heard[s][c] <= Len(node[s].acked[c])
  <2>1. node[r].ballot \in 0..MaxBallot /\ node[r].cballot <= node[r].ballot
    <3>1. 0 \in 0..MaxBallot /\ \A b \in 1..MaxBallot : b \in 0..MaxBallot
      OBVIOUS
    <3> QED
      BY <1>1, <1>2, <3>1 DEF Good, Sane
  <2>2. node[r].status \in {"NORMAL", "RECOVERING"} /\ node[r].desc \in [Commands -> Desc]
    BY <1>1 DEF Node
  <2>3. Delivered(node[r]) \subseteq node[r].proposes
    <3>1. node[r].executed \in Seq(Commands)
      BY <1>1 DEF Node, Path
    <3>2. \A x \in Seq(Commands) : ToSet(x) \subseteq Commands
      BY DEF ToSet
    <3>3. Delivered(node[r]) \subseteq Commands
      BY <3>1, <3>2 DEF Delivered
    <3> QED
      BY <1>1, <3>3 DEF Good, Sane
  <2> QED
    BY <1>4, <2>1, <2>2, <2>3, TypedAt
<1> QED
  BY <1>2, <1>3, <1>5 DEF TypeOK

\* The variables have their types, and what is delivered was proposed.
THEOREM SwiftTypeOK == Spec => []TypeOK
<1>1. Typed => TypeOK
  BY TypedIsTypeOK
<1> QED
  BY <1>1, TypesOfSwift, PTL

\* deliver() executes a command once, whichever of acks, successors and Syncs calls it.
THEOREM SwiftExecutesOnce == Spec => []ExecutedOnce
<1>1. Typed => ExecutedOnce
  BY TypedIsTypeOK
<1> QED
  BY <1>1, TypesOfSwift, PTL
====
