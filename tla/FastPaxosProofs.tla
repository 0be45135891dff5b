-------------------------- MODULE FastPaxosProofs --------------------------
(***************************************************************************)
(* Proofs about FastPaxos, for every group of replicas, every set of       *)
(* commands and all ballots: the types, and, where the quorum is fixed,    *)
(* that its members commit and execute the same commands, once each, and   *)
(* for good, and that every collision is resolved once nothing is left to  *)
(* handle.                                                                 *)
(***************************************************************************)
EXTENDS FastPaxos, Induction, FiniteSetTheorems

USE NAssumption, QuorumAssumption, BoundAssumption, CommandsAssumption

----------------------------------------------------------------------------
\* A set of replicas has a greatest member.
LEMMA Greatest ==
  ASSUME NEW S \in SUBSET Replicas, S # {}
  PROVE  Max(S) \in S /\ \A q \in S : q <= Max(S)
<1> DEFINE T == {N - q : q \in S}
<1>1. T \subseteq Nat /\ T # {}
  <2>1. T \subseteq Nat
    BY DEF Replicas
  <2>2. PICK q \in S : TRUE
    OBVIOUS
  <2>3. N - q \in T
    BY <2>2
  <2> QED
    BY <2>1, <2>3
<1>2. PICK x \in T : \A y \in T : x <= y
  BY <1>1, Least
<1>3. PICK m \in S : x = N - m
  OBVIOUS
<1>4. ASSUME NEW q \in S PROVE m >= q
  <2>1. N - m <= N - q
    BY <1>2, <1>3
  <2> QED
    BY <2>1 DEF Replicas
<1>5. Max(S) \in S /\ \A q \in S : Max(S) >= q
  BY <1>4 DEF Max
<1> QED
  BY <1>5 DEF Replicas

\* The least of a set of numbers.
LEMMA LeastIsMin ==
  ASSUME NEW S, S \subseteq Nat, S # {}
  PROVE  Min(S) \in S /\ \A k \in S : Min(S) <= k
BY Least DEF Min

\* The elements of two sequences in a row.
LEMMA Joined ==
  ASSUME NEW S, NEW s \in Seq(S), NEW t \in Seq(S)
  PROVE  /\ s \o t \in Seq(S)
         /\ \A k \in 1 .. Len(s \o t) :
              \/ \E j \in 1 .. Len(s) : (s \o t)[k] = s[j]
              \/ \E j \in 1 .. Len(t) : (s \o t)[k] = t[j]
<1>1. /\ s \o t \in Seq(S) /\ Len(s \o t) = Len(s) + Len(t)
      /\ \A k \in 1 .. Len(s) + Len(t) :
           (s \o t)[k] = IF k <= Len(s) THEN s[k] ELSE t[k - Len(s)]
  OBVIOUS
<1>2. Len(s) \in Nat /\ Len(t) \in Nat
  OBVIOUS
<1>3. ASSUME NEW k \in 1 .. Len(s \o t)
      PROVE  \/ \E j \in 1 .. Len(s) : (s \o t)[k] = s[j]
             \/ \E j \in 1 .. Len(t) : (s \o t)[k] = t[j]
  <2>1. CASE k <= Len(s)
    <3>1. k \in 1 .. Len(s) /\ (s \o t)[k] = s[k]
      BY <1>1, <1>2, <2>1
    <3> QED
      BY <3>1
  <2>2. CASE k > Len(s)
    <3>1. k - Len(s) \in 1 .. Len(t) /\ (s \o t)[k] = t[k - Len(s)]
      BY <1>1, <1>2, <2>2
    <3> QED
      BY <3>1
  <2> QED
    BY <1>1, <1>2, <2>1, <2>2
<1> QED
  BY <1>1, <1>3

----------------------------------------------------------------------------
(***************************************************************************)
(* The calls of handleM2Bs() that one 2B leads to keep what each keeps.    *)
(***************************************************************************)
LEMMA CallsAre ==
  ASSUME NEW V, NEW s \in V, NEW r, NEW i,
         \A n \in Nat : \A v \in V : Called(v, r, i, n) \in V
  PROVE  \A n \in Nat : Calls(s, r, i)[n] =
           IF n = 0 THEN s ELSE Called(Calls(s, r, i)[n - 1], r, i, n - 1)
<1> DEFINE G == [n \in Nat |-> [v \in V |-> Called(v, r, i, n)]]
<1>1. /\ G \in [Nat -> [V -> V]]
      /\ \A n \in Nat : \A v \in V : G[n][v] = Called(v, r, i, n)
  OBVIOUS
<1> HIDE DEF G
<1>2. PICK f \in [Nat -> V] :
        \A n \in Nat : f[n] = IF n = 0 THEN s ELSE G[n - 1][f[n - 1]]
  BY <1>1, Iterated
<1>3. ASSUME NEW n \in Nat, n # 0 PROVE f[n] = Called(f[n - 1], r, i, n - 1)
  <2>1. n - 1 \in Nat /\ f[n - 1] \in V
    BY <1>3
  <2> QED
    BY <1>1, <1>2, <1>3, <2>1
<1>4. f = [n \in Nat |-> IF n = 0 THEN s ELSE Called(f[n - 1], r, i, n - 1)]
  BY <1>2, <1>3
<1>5. Calls(s, r, i) =
        [n \in Nat |-> IF n = 0 THEN s ELSE Called(Calls(s, r, i)[n - 1], r, i, n - 1)]
  BY <1>4 DEF Calls
<1> QED
  BY <1>5

LEMMA SettledIn ==
  ASSUME NEW V, NEW s \in V, NEW r, NEW i,
         \A n \in Nat : \A v \in V : Called(v, r, i, n) \in V
  PROVE  Settled(s, r, i) \in V
<1> DEFINE S == {n \in Nat : Calls(s, r, i)[n] \in V}
<1>1. \A n \in Nat : Calls(s, r, i)[n] =
        IF n = 0 THEN s ELSE Called(Calls(s, r, i)[n - 1], r, i, n - 1)
  BY CallsAre
<1>2. 0 \in S
  BY <1>1
<1>3. ASSUME NEW n \in Nat, n \in S PROVE n + 1 \in S
  <2>1. Calls(s, r, i)[n + 1] = Called(Calls(s, r, i)[n], r, i, n)
    BY <1>1
  <2> QED
    BY <1>3, <2>1
<1> HIDE DEF S
<1>4. MaxBallot + 1 \in S
  BY <1>2, <1>3, Inductive
<1> QED
  BY <1>4 DEF S, Settled

----------------------------------------------------------------------------
(***************************************************************************)
(* The views of instance i that a handler of r goes through.  Where the    *)
(* quorum is fixed, p is the command that r has proposed in instance i     *)
(* once it has n instances, if it is a member.                             *)
(***************************************************************************)
Values == Commands \cup {None}
ViewOf(i) ==
  [inst : [value : Values, ballot : Nat, committed : BOOLEAN],
   sets : [Ballots -> [Replicas -> Values]],
   sent : Seq([inst : {i}, bal : Nat, val : Commands]),
   grown : Ballots \cup {-1}]

Typed(s) ==
  /\ s.grown # -1 => Voters(s.sets[s.grown]) # {}
  /\ \A k \in 1 .. Len(s.sent) : s.sent[k].bal <= s.inst.ballot

\* The command that collisions in instance i are resolved in favour of.
TopsOwn(r, i, p) == IF Top = r THEN p ELSE Own(Top, i, 0)

\* What a view of r counts are the 2Bs of the members, and r's stay.
Counted(s, r, i, p) ==
  /\ \A b \in Ballots, q \in Replicas : s.sets[b][q] # None =>
       q \in quorum.members /\ (q # r => s.sets[b][q] = Own(q, i, b))
  /\ \A b \in Ballots : Own(r, i, b) # None => s.sets[b][r] = Own(r, i, b)
  /\ s.sets[0][r] = p

\* What r, a member, sends in a view.
Sound(s, r, i, n, p) ==
  /\ \A b \in Ballots : s.sets[b][r] # None => i < n /\ b <= s.inst.ballot
  /\ n <= i => s.inst.ballot = 0
  /\ \A b \in Ballots \ {0} :
       s.sets[b][r] # None => b = 1 /\ s.sets[b][r] = TopsOwn(r, i, p)
  /\ s.inst.committed =>
       i < n /\ TopsOwn(r, i, p) # None /\ s.inst.value = TopsOwn(r, i, p)
  /\ instances[r][i].committed => s.inst.committed
  /\ \A k \in 1 .. Len(s.sent) :
       s.sent[k].bal \in Ballots => s.sent[k].val = s.sets[s.sent[k].bal][r]

Fixed(s, r, i, n, p) ==
  FixedQuorum => /\ Counted(s, r, i, p)
                 /\ r \in quorum.members => Sound(s, r, i, n, p)
Views(r, i, n, p) == {s \in ViewOf(i) : Typed(s) /\ Fixed(s, r, i, n, p)}

\* A quorum is a set of replicas, and a full one that is fixed all its members.
LEMMA QuorumMembers ==
  ASSUME quorum \in Quorums
  PROVE  /\ quorum.members \subseteq Replicas
         /\ \A set \in [Replicas -> Values] :
              /\ FixedQuorum /\ Voters(set) \subseteq quorum.members /\ HasQuorum(set)
                   => Voters(set) = quorum.members
              /\ Voters(set) # {} => LastValue(set) \in Commands
<1>1. quorum.members \subseteq Replicas
  BY DEF ThreeQuarters, QuorumOf
<1>2. IsFiniteSet(quorum.members)
  <2>1. IsFiniteSet(Replicas)
    BY FS_Interval DEF Replicas
  <2> QED
    BY <1>1, <2>1, FS_Subset
<1>3. ASSUME NEW set \in [Replicas -> Values], FixedQuorum,
             Voters(set) \subseteq quorum.members, HasQuorum(set)
      PROVE  Voters(set) = quorum.members
  <2>1. /\ IsFiniteSet(Voters(set)) /\ Cardinality(Voters(set)) <= Cardinality(quorum.members)
        /\ Cardinality(Voters(set)) = Cardinality(quorum.members)
             => quorum.members = Voters(set)
    BY <1>2, <1>3, FS_Subset
  <2>2. Cardinality(Voters(set)) \in Nat /\ Cardinality(quorum.members) \in Nat
    BY <1>2, <2>1, FS_CardinalityType
  <2> QED
    BY <1>3, <2>1, <2>2 DEF FixedQuorum, HasQuorum
<1>4. ASSUME NEW set \in [Replicas -> Values], Voters(set) # {}
      PROVE  LastValue(set) \in Commands
  <2>1. Max(Voters(set)) \in Voters(set)
    BY <1>4, Greatest DEF Voters
  <2> QED
    BY <2>1 DEF Voters, LastValue, Values
<1> QED
  BY <1>1, <1>3, <1>4

\* r's own 2B: it is sent, and counts if r is a member.
LEMMA Sends ==
  ASSUME quorum \in Quorums, NEW r \in Replicas, NEW i \in Instances, NEW s \in ViewOf(i),
         s.inst.value \in Commands
  PROVE  LET t == SendM2B(s, r, i)
             b == s.inst.ballot
             counts == r \in quorum.members /\ b \in Ballots
         IN /\ t \in ViewOf(i) /\ t.inst = s.inst
            /\ t.grown = IF counts THEN b ELSE -1
            /\ t.sent = Append(s.sent, [inst |-> i, bal |-> b, val |-> s.inst.value])
            /\ \A a \in Ballots, q \in Replicas :
                 t.sets[a][q] = IF counts /\ a = b /\ q = r THEN s.inst.value
                                ELSE s.sets[a][q]
<1> DEFINE b == s.inst.ballot
           m == [inst |-> i, bal |-> b, val |-> s.inst.value]
           u == [s EXCEPT !.sent = Append(@, m)]
           counts == r \in quorum.members /\ b \in Ballots
<1>1. /\ m \in [inst : {i}, bal : Nat, val : Commands] /\ b \in Nat
      /\ m.bal = b /\ m.val = s.inst.value
  BY DEF ViewOf
<1>2. SendM2B(s, r, i) = Add(u, r, b, s.inst.value)
  BY <1>1 DEF SendM2B
<1>3. /\ u \in ViewOf(i) /\ u.inst = s.inst /\ u.sets = s.sets
      /\ u.sent = Append(s.sent, m)
  <2> HIDE DEF m
  <2>1. Append(s.sent, m) \in Seq([inst : {i}, bal : Nat, val : Commands])
    BY <1>1 DEF ViewOf
  <2> QED
    BY <2>1 DEF ViewOf
<1> HIDE DEF u, m
<1>4. CASE counts
  <2>1. Add(u, r, b, s.inst.value) = [u EXCEPT !.sets[b][r] = s.inst.value, !.grown = b]
    BY <1>4 DEF Add
  <2>2. s.inst.value \in Values /\ u.sets \in [Ballots -> [Replicas -> Values]]
    BY <1>3 DEF Values, ViewOf
  <2> DEFINE z == [u.sets EXCEPT ![b][r] = s.inst.value]
  <2>3. /\ z \in [Ballots -> [Replicas -> Values]]
        /\ \A a \in Ballots, q \in Replicas :
             z[a][q] = IF a = b /\ q = r THEN s.inst.value ELSE u.sets[a][q]
    BY <1>4, <2>2
  <2>4. Add(u, r, b, s.inst.value) = [u EXCEPT !.sets = z, !.grown = b]
    BY <1>3, <2>1 DEF ViewOf
  <2> HIDE DEF z
  <2> DEFINE t == [u EXCEPT !.sets = z, !.grown = b]
  <2>5. t \in ViewOf(i)
    BY <1>3, <1>4, <2>3 DEF ViewOf
  <2>6. t.inst = s.inst /\ t.grown = b /\ t.sets = z /\ t.sent = Append(s.sent, m)
    BY <1>3 DEF ViewOf
  <2>7. SendM2B(s, r, i) = t
    BY <1>2, <2>4
  <2> HIDE DEF t
  <2> QED
    BY <1>3, <1>4, <2>3, <2>5, <2>6, <2>7 DEF m
<1>5. CASE ~ counts
  <2>1. Add(u, r, b, s.inst.value) = [u EXCEPT !.grown = -1]
    BY <1>5 DEF Add
  <2> QED
    BY <1>2, <1>3, <1>5, <2>1 DEF ViewOf, m
<1> QED
  BY <1>4, <1>5

\* The handling of a 2B of q, and of a collision.
LEMMA Adds ==
  ASSUME NEW q \in Replicas, NEW i \in Instances, NEW s \in ViewOf(i),
         NEW b \in Ballots, NEW v \in Commands
  PROVE  LET t == Add(s, q, b, v)
         IN /\ t \in ViewOf(i) /\ t.inst = s.inst /\ t.sent = s.sent
            /\ t.grown = IF q \in quorum.members THEN b ELSE -1
            /\ \A a \in Ballots, p \in Replicas :
                 t.sets[a][p] = IF q \in quorum.members /\ a = b /\ p = q THEN v
                                ELSE s.sets[a][p]
<1>1. v \in Values /\ s.sets \in [Ballots -> [Replicas -> Values]]
  BY DEF Values, ViewOf
<1> DEFINE z == [s.sets EXCEPT ![b][q] = v]
<1>2. /\ z \in [Ballots -> [Replicas -> Values]]
      /\ \A a \in Ballots, p \in Replicas :
           z[a][p] = IF a = b /\ p = q THEN v ELSE s.sets[a][p]
  BY <1>1
<1>3. q \in quorum.members => Add(s, q, b, v) = [s EXCEPT !.sets = z, !.grown = b]
  BY DEF Add, ViewOf
<1>4. q \notin quorum.members => Add(s, q, b, v) = [s EXCEPT !.grown = -1]
  BY DEF Add
<1> HIDE DEF z
<1> DEFINE t == [s EXCEPT !.sets = z, !.grown = b]
           w == [s EXCEPT !.grown = -1]
<1>5. /\ t \in ViewOf(i) /\ t.inst = s.inst /\ t.sent = s.sent
      /\ t.grown = b /\ t.sets = z
  BY <1>2 DEF ViewOf
<1>6. /\ w \in ViewOf(i) /\ w.inst = s.inst /\ w.sent = s.sent
      /\ w.grown = -1 /\ w.sets = s.sets
  BY DEF ViewOf
<1>7. Add(s, q, b, v) = IF q \in quorum.members THEN t ELSE w
  BY <1>3, <1>4
<1> HIDE DEF t, w
<1> QED
  BY <1>2, <1>5, <1>6, <1>7

\* What handleM2Bs() does, by the values it assigns.
Idles(s, t, b) ==
  /\ ~ HasQuorum(s.sets[b]) \/ (~ Unanimous(s.sets[b]) /\ s.inst.ballot # b)
  /\ t.grown = -1 /\ t.inst = s.inst /\ t.sets = s.sets /\ t.sent = s.sent
Commits(s, t, b) ==
  /\ HasQuorum(s.sets[b]) /\ Unanimous(s.sets[b])
  /\ t.grown = -1 /\ t.sets = s.sets /\ t.sent = s.sent
  /\ t.inst = [s.inst EXCEPT !.value = LastValue(s.sets[b]), !.committed = TRUE]
Counts(r, b) == r \in quorum.members /\ b \in Ballots
Recovers(s, t, r, i, b) ==
  LET v == LastValue(s.sets[b])
  IN /\ HasQuorum(s.sets[b]) /\ ~ Unanimous(s.sets[b]) /\ s.inst.ballot = b
     /\ t.inst = [s.inst EXCEPT !.value = v, !.ballot = b + 1]
     /\ t.grown = IF Counts(r, b + 1) THEN b + 1 ELSE -1
     /\ t.sent = Append(s.sent, [inst |-> i, bal |-> b + 1, val |-> v])
     /\ \A a \in Ballots, q \in Replicas :
          t.sets[a][q] = IF Counts(r, b + 1) /\ a = b + 1 /\ q = r THEN v
                         ELSE s.sets[a][q]

LEMMA Handles ==
  ASSUME quorum \in Quorums, NEW r \in Replicas, NEW i \in Instances, NEW s \in ViewOf(i),
         NEW b \in Ballots, Voters(s.sets[b]) # {}
  PROVE  LET t == HandleM2Bs(s, r, i, b)
         IN t \in ViewOf(i) /\ (Idles(s, t, b) \/ Commits(s, t, b) \/ Recovers(s, t, r, i, b))
<1> DEFINE set == s.sets[b]
           t == HandleM2Bs(s, r, i, b)
           x == [s.inst EXCEPT !.value = LastValue(set), !.committed = TRUE]
           y == [s.inst EXCEPT !.value = LastValue(set), !.ballot = b + 1]
           n == [s EXCEPT !.grown = -1]
           c == [s EXCEPT !.inst = x, !.grown = -1]
           u == [s EXCEPT !.inst = y]
<1>1. LastValue(set) \in Commands /\ LastValue(set) \in Values /\ b \in Nat
  BY QuorumMembers DEF ViewOf, Values, Ballots
<1>2. /\ x \in [value : Values, ballot : Nat, committed : BOOLEAN]
      /\ y \in [value : Values, ballot : Nat, committed : BOOLEAN]
      /\ y.value = LastValue(set) /\ y.ballot = b + 1
  <2>1. s.inst \in [value : Values, ballot : Nat, committed : BOOLEAN]
    BY DEF ViewOf
  <2>2. b + 1 \in Nat
    BY <1>1
  <2> HIDE DEF set
  <2>3. x \in [value : Values, ballot : Nat, committed : BOOLEAN]
    BY <1>1, <2>1
  <2>4. y \in [value : Values, ballot : Nat, committed : BOOLEAN]
    BY <1>1, <2>1, <2>2
  <2>5. y.value = LastValue(set) /\ y.ballot = b + 1
    BY <2>1
  <2> QED
    BY <2>3, <2>4, <2>5
<1>3. t = IF ~ HasQuorum(set) THEN n
          ELSE IF Unanimous(set) THEN c
          ELSE IF s.inst.ballot # b THEN n
          ELSE SendM2B(u, r, i)
  <2>1. [s EXCEPT !.inst.value = LastValue(set), !.inst.committed = TRUE,
                  !.grown = -1] = c
    BY DEF ViewOf
  <2>2. [s EXCEPT !.inst.value = LastValue(set), !.inst.ballot = b + 1] = u
    BY DEF ViewOf
  <2> QED
    BY <2>1, <2>2 DEF HandleM2Bs
<1> HIDE DEF x, y
<1>4. /\ n \in ViewOf(i) /\ n.grown = -1 /\ n.inst = s.inst /\ n.sets = s.sets
      /\ n.sent = s.sent
  BY DEF ViewOf
<1>5. /\ c \in ViewOf(i) /\ c.grown = -1 /\ c.inst = x /\ c.sets = s.sets
      /\ c.sent = s.sent
  BY <1>2 DEF ViewOf
<1>6. /\ u \in ViewOf(i) /\ u.inst = y /\ u.sets = s.sets /\ u.sent = s.sent
  BY <1>2 DEF ViewOf
<1> HIDE DEF n, c, u, t, set
<1>7. CASE ~ HasQuorum(set) \/ (~ Unanimous(set) /\ s.inst.ballot # b)
  BY <1>3, <1>4, <1>7 DEF t, set, Idles
<1>8. CASE HasQuorum(set) /\ Unanimous(set)
  BY <1>3, <1>5, <1>8 DEF t, set, x, Commits
<1>9. CASE HasQuorum(set) /\ ~ Unanimous(set) /\ s.inst.ballot = b
  <2> DEFINE counts == Counts(r, b + 1)
  <2>1. /\ u.inst.value = LastValue(set) /\ u.inst.ballot = b + 1
        /\ u.inst.value \in Commands
    BY <1>1, <1>2, <1>6
  <2>2. t = SendM2B(u, r, i)
    BY <1>3, <1>9
  <2>3. /\ t \in ViewOf(i) /\ t.inst = y
        /\ t.grown = IF counts THEN b + 1 ELSE -1
        /\ t.sent = Append(s.sent, [inst |-> i, bal |-> b + 1, val |-> LastValue(set)])
        /\ \A a \in Ballots, q \in Replicas :
             t.sets[a][q] = IF counts /\ a = b + 1 /\ q = r THEN LastValue(set)
                            ELSE s.sets[a][q]
    BY <1>6, <2>1, <2>2, Sends DEF Counts
  <2> QED
    BY <1>9, <2>3 DEF t, set, y, Recovers
<1>10. \/ ~ HasQuorum(set) \/ (~ Unanimous(set) /\ s.inst.ballot # b)
       \/ HasQuorum(set) /\ Unanimous(set)
       \/ HasQuorum(set) /\ ~ Unanimous(set) /\ s.inst.ballot = b
  OBVIOUS
<1> QED
  BY <1>7, <1>8, <1>9, <1>10

\* Where the quorum is fixed, and some members' 2Bs complete it in ballot b,
\* their votes are all of the members'.
LEMMA FullQuorum ==
  ASSUME IInv, FixedQuorum, NEW r \in Replicas, NEW i \in Instances,
         NEW n \in Nat, NEW p, NEW s \in ViewOf(i), Counted(s, r, i, p),
         r \in quorum.members => Sound(s, r, i, n, p),
         NEW b \in Ballots, Voters(s.sets[b]) # {}, HasQuorum(s.sets[b])
  PROVE  LET set == s.sets[b]
         IN /\ Voters(set) = quorum.members /\ LastValue(set) = set[Top]
            /\ Top \in quorum.members /\ LastValue(set) \in Commands
            /\ r \in quorum.members =>
                 /\ i < n /\ b <= s.inst.ballot
                 /\ LastValue(set) = TopsOwn(r, i, p)
                 /\ b = 0 \/ Unanimous(set)
<1> DEFINE set == s.sets[b]
<1>1. /\ set \in [Replicas -> Values] /\ quorum \in Quorums
      /\ quorum.members \subseteq Replicas /\ 0 \in Ballots /\ b \in Nat
  BY QuorumMembers DEF ViewOf, IInv, TypeOK, Ballots
<1>2. Voters(set) \subseteq quorum.members
  BY DEF Counted, Voters
<1>3. Voters(set) = quorum.members /\ LastValue(set) \in Commands
  BY <1>1, <1>2, QuorumMembers
<1>4. LastValue(set) = set[Top] /\ Top \in quorum.members
  BY <1>1, <1>3, Greatest DEF LastValue, Top
<1>5. ASSUME NEW q \in quorum.members, r \in quorum.members, b # 0
      PROVE  set[q] = TopsOwn(r, i, p)
  <2>1. /\ set[q] # None /\ q \in Replicas
        /\ set[r] # None
    BY <1>1, <1>3, <1>5 DEF Voters
  <2>2. b \in Ballots \ {0}
    BY <1>5
  <2>3. b = 1 /\ set[r] = TopsOwn(r, i, p) /\ 1 \in Ballots
    BY <1>5, <2>1, <2>2 DEF Sound
  <2>4. CASE q # r
    <3>1. set[q] = Own(q, i, b)
      BY <2>1, <2>4 DEF Counted
    <3>2. Own(q, i, b) = Own(Top, i, 0)
      BY <2>1, <2>2, <3>1 DEF IInv, RecoveredAlike
    <3>3. CASE Top = r
      <4>1. Own(Top, i, 0) # None /\ Top \in Replicas
        BY <2>1, <3>1, <3>2, <3>3
      <4>2. s.sets[0][r] = Own(r, i, 0)
        BY <1>1, <3>3, <4>1 DEF Counted
      <4> QED
        BY <3>1, <3>2, <3>3, <4>2 DEF TopsOwn, Counted
    <3> QED
      BY <3>1, <3>2, <3>3 DEF TopsOwn
  <2> QED
    BY <2>3, <2>4
<1>6. ASSUME r \in quorum.members
      PROVE  /\ i < n /\ b <= s.inst.ballot
             /\ LastValue(set) = TopsOwn(r, i, p)
             /\ b = 0 \/ Unanimous(set)
  <2>1. set[r] # None
    BY <1>3, <1>6 DEF Voters
  <2>2. i < n /\ b <= s.inst.ballot
    BY <1>6, <2>1 DEF Sound
  <2>3. b # 0 => Unanimous(set)
    BY <1>3, <1>5, <1>6 DEF Unanimous
  <2>4. ASSUME b = 0 PROVE LastValue(set) = TopsOwn(r, i, p)
    <3>1. CASE Top = r
      BY <1>4, <2>4, <3>1 DEF Counted, TopsOwn
    <3>2. CASE Top # r
      <4>1. set[Top] # None /\ Top \in Replicas
        BY <1>1, <1>3, <1>4 DEF Voters
      <4> QED
        BY <1>4, <2>4, <3>2, <4>1 DEF Counted, TopsOwn
    <3> QED
      BY <3>1, <3>2
  <2>5. b # 0 => LastValue(set) = TopsOwn(r, i, p)
    BY <1>4, <1>5, <1>6
  <2> QED
    BY <2>2, <2>3, <2>4, <2>5
<1> QED
  BY <1>3, <1>4, <1>6

\* handleM2Bs() keeps a view a view.
LEMMA CalledKeeps ==
  ASSUME IInv, NEW r \in Replicas, NEW i \in Instances, NEW n \in Nat, NEW p,
         NEW s \in Views(r, i, n, p), NEW b \in Nat
  PROVE  Called(s, r, i, b) \in Views(r, i, n, p)
<1> SUFFICES ASSUME s.grown = b
             PROVE  HandleM2Bs(s, r, i, b) \in Views(r, i, n, p)
  BY DEF Called
<1> DEFINE t == HandleM2Bs(s, r, i, b)
           set == s.sets[b]
           v == LastValue(set)
           idles == Idles(s, t, b)
           commits == Commits(s, t, b)
           recovers == Recovers(s, t, r, i, b)
           counts == Counts(r, b + 1)
<1>1. /\ s \in ViewOf(i) /\ Typed(s) /\ Fixed(s, r, i, n, p)
      /\ b \in Ballots /\ Voters(set) # {} /\ quorum \in Quorums
  BY DEF Views, ViewOf, Typed, IInv, TypeOK
<1>2. t \in ViewOf(i) /\ (idles \/ commits \/ recovers)
  BY <1>1, Handles
<1>3. /\ s.inst \in [value : Values, ballot : Nat, committed : BOOLEAN]
      /\ s.sent \in Seq([inst : {i}, bal : Nat, val : Commands])
      /\ \A k \in 1 .. Len(s.sent) :
           s.sent[k].bal \in Nat /\ s.sent[k].bal <= s.inst.ballot
  <2>1. /\ s.inst \in [value : Values, ballot : Nat, committed : BOOLEAN]
        /\ s.sent \in Seq([inst : {i}, bal : Nat, val : Commands])
    BY <1>1 DEF ViewOf
  <2>2. ASSUME NEW k \in 1 .. Len(s.sent) PROVE s.sent[k].bal \in Nat
    <3> DEFINE M == [inst : {i}, bal : Nat, val : Commands]
               z == s.sent
    <3>1. z \in Seq(M) /\ k \in 1 .. Len(z)
      BY <2>1
    <3>2. \A m \in M : m.bal \in Nat
      OBVIOUS
    <3> HIDE DEF M, z
    <3>3. z[k] \in M
      BY <3>1
    <3> QED
      BY <3>2, <3>3 DEF z
  <2> QED
    BY <1>1, <2>1, <2>2 DEF Typed
<1>4. v \in Commands /\ v # None
  BY <1>1, QuorumMembers DEF ViewOf
<1>5. idles => t.grown = -1 /\ t.inst = s.inst /\ t.sets = s.sets /\ t.sent = s.sent
  BY DEF Idles
<1>6. commits => /\ HasQuorum(set) /\ t.grown = -1 /\ t.sets = s.sets /\ t.sent = s.sent
                 /\ t.inst.value = v /\ t.inst.committed = TRUE
                 /\ t.inst.ballot = s.inst.ballot
  BY <1>3 DEF Commits
<1>7. recovers => /\ HasQuorum(set) /\ ~ Unanimous(set) /\ s.inst.ballot = b
                  /\ t.inst.value = v /\ t.inst.committed = s.inst.committed
                  /\ t.inst.ballot = b + 1
                  /\ t.grown = IF counts THEN b + 1 ELSE -1
                  /\ \A a \in Ballots, q \in Replicas :
                       t.sets[a][q] = IF counts /\ a = b + 1 /\ q = r THEN v
                                      ELSE s.sets[a][q]
  <2>1. recovers => t.inst = [s.inst EXCEPT !.value = v, !.ballot = b + 1]
    BY DEF Recovers
  <2>2. recovers => /\ t.inst.value = v /\ t.inst.committed = s.inst.committed
                    /\ t.inst.ballot = b + 1
    <3> HIDE DEF v, recovers, t
    <3> QED
      BY <1>3, <2>1
  <2> QED
    BY <2>2 DEF Recovers
<1>8. recovers =>
        /\ Len(s.sent) \in Nat /\ Len(t.sent) = Len(s.sent) + 1
        /\ \A k \in 1 .. Len(s.sent) : t.sent[k] = s.sent[k]
        /\ t.sent[Len(s.sent) + 1].bal = b + 1
        /\ t.sent[Len(s.sent) + 1].val = v
  <2> DEFINE m == [inst |-> i, bal |-> b + 1, val |-> v]
  <2>1. m \in [inst : {i}, bal : Nat, val : Commands] /\ m.bal = b + 1 /\ m.val = v
    BY <1>4
  <2>2. recovers => t.sent = Append(s.sent, m)
    BY DEF Recovers
  <2> HIDE DEF m, recovers, t, v
  <2>3. /\ Len(s.sent) \in Nat /\ Len(Append(s.sent, m)) = Len(s.sent) + 1
        /\ \A k \in 1 .. Len(s.sent) : Append(s.sent, m)[k] = s.sent[k]
        /\ Append(s.sent, m)[Len(s.sent) + 1] = m
    BY <1>3, <2>1
  <2> QED
    BY <2>1, <2>2, <2>3
<1>9. counts <=> r \in quorum.members /\ b + 1 \in Ballots
  BY DEF Counts
<1>10. HasQuorum(set) /\ FixedQuorum =>
         /\ Voters(set) = quorum.members
         /\ r \in quorum.members => /\ i < n /\ b <= s.inst.ballot
                                    /\ v = TopsOwn(r, i, p)
                                    /\ b = 0 \/ Unanimous(set)
  BY <1>1, FullQuorum DEF Fixed
<1>11. /\ \A a \in Ballots : a \in Nat
       /\ 0 \in Ballots /\ i \in Nat
  BY DEF Ballots, Instances
<1> HIDE DEF t, v, set, idles, commits, recovers, counts
<1>12. Typed(t)
  <2>1. CASE idles \/ commits
    <3>1. t.grown = -1 /\ t.sent = s.sent /\ t.inst.ballot = s.inst.ballot
      BY <1>5, <1>6, <2>1
    <3> QED
      BY <1>3, <3>1 DEF Typed
  <2>2. CASE recovers
    <3>1. t.grown # -1 => Voters(t.sets[t.grown]) # {}
      <4> SUFFICES ASSUME counts PROVE t.sets[b + 1][r] # None
        BY <1>7, <2>2 DEF Voters
      <4> QED
        BY <1>4, <1>7, <1>9, <2>2
    <3>2. ASSUME NEW k \in 1 .. Len(t.sent) PROVE t.sent[k].bal <= t.inst.ballot
      <4>1. CASE k \in 1 .. Len(s.sent)
        <5>1. t.sent[k].bal = s.sent[k].bal /\ s.sent[k].bal <= b
          BY <1>3, <1>7, <1>8, <2>2, <4>1
        <5>2. s.sent[k].bal \in Nat /\ t.inst.ballot = b + 1
          BY <1>3, <1>7, <2>2, <4>1
        <5> QED
          BY <5>1, <5>2
      <4>2. CASE k \notin 1 .. Len(s.sent)
        <5>1. k = Len(s.sent) + 1
          BY <1>8, <2>2, <3>2, <4>2
        <5> QED
          BY <1>7, <1>8, <2>2, <5>1
      <4> QED
        BY <4>1, <4>2
    <3> QED
      BY <3>1, <3>2 DEF Typed
  <2> QED
    BY <1>2, <2>1, <2>2
<1>13. Fixed(t, r, i, n, p)
  <2> SUFFICES ASSUME FixedQuorum
               PROVE  /\ Counted(t, r, i, p)
                      /\ r \in quorum.members => Sound(t, r, i, n, p)
    BY DEF Fixed
  <2>1. Counted(s, r, i, p) /\ (r \in quorum.members => Sound(s, r, i, n, p))
    BY <1>1 DEF Fixed
  <2>2. CASE idles
    BY <1>5, <2>1, <2>2 DEF Counted, Sound
  <2>4. CASE commits
    <3>1. Counted(t, r, i, p)
      BY <1>6, <2>1, <2>4 DEF Counted
    <3>2. ASSUME r \in quorum.members PROVE Sound(t, r, i, n, p)
      <4>1. i < n /\ v = TopsOwn(r, i, p) /\ v # None
        BY <1>4, <1>6, <1>10, <2>4, <3>2
      <4> QED
        BY <1>6, <2>1, <2>4, <3>2, <4>1 DEF Sound
    <3> QED
      BY <3>1, <3>2
  <2>5. CASE recovers
    <3>1. ASSUME r \in quorum.members
          PROVE  /\ b = 0 /\ i < n /\ v = TopsOwn(r, i, p)
                 /\ s.inst.ballot = 0 /\ Sound(s, r, i, n, p)
      BY <1>7, <1>10, <2>1, <2>5, <3>1
    <3>2. Counted(t, r, i, p)
      <4>2. CASE counts
        <5>1. /\ r \in quorum.members /\ 1 \in Ballots /\ b = 0
          BY <1>9, <3>1, <4>2
        <5>2. s.sets[1][r] = None
          BY <3>1, <5>1 DEF Sound
        <5>3. Own(r, i, 1) = None
          BY <2>1, <5>1, <5>2 DEF Counted
        <5>4. \A a \in Ballots, q \in Replicas :
                q # r \/ a # 1 => t.sets[a][q] = s.sets[a][q]
          BY <1>7, <2>5, <5>1
        <5> QED
          BY <1>11, <2>1, <5>1, <5>3, <5>4 DEF Counted
      <4>3. CASE ~ counts
        <5>1. \A a \in Ballots, q \in Replicas : t.sets[a][q] = s.sets[a][q]
          BY <1>7, <2>5, <4>3
        <5> QED
          BY <1>11, <2>1, <5>1 DEF Counted
      <4> QED
        BY <4>2, <4>3
    <3>3. ASSUME r \in quorum.members PROVE Sound(t, r, i, n, p)
      <4>0. /\ i < n /\ b = 0 /\ s.inst.ballot = 0 /\ v = TopsOwn(r, i, p)
            /\ Sound(s, r, i, n, p)
        BY <3>1, <3>3
      <4>6. /\ t.inst.ballot = 1 /\ t.inst.value = v
            /\ t.inst.committed = s.inst.committed
            /\ \A a \in Ballots : t.sets[a][r] = IF a = 1 THEN v ELSE s.sets[a][r]
        BY <1>7, <1>9, <2>5, <3>3, <4>0
      <4>1. \A a \in Ballots : t.sets[a][r] # None => i < n /\ a <= t.inst.ballot
        <5> SUFFICES ASSUME NEW a \in Ballots, t.sets[a][r] # None
                     PROVE  a <= 1
          BY <4>0, <4>6
        <5>1. a = 1 \/ s.sets[a][r] # None
          BY <4>6
        <5> QED
          BY <1>11, <4>0, <5>1 DEF Sound
      <4>2. n <= i => t.inst.ballot = 0
        BY <1>11, <4>0
      <4>3. \A a \in Ballots \ {0} :
              t.sets[a][r] # None => a = 1 /\ t.sets[a][r] = TopsOwn(r, i, p)
        BY <4>0, <4>6 DEF Sound
      <4>4. /\ t.inst.committed =>
                 i < n /\ TopsOwn(r, i, p) # None /\ t.inst.value = TopsOwn(r, i, p)
            /\ instances[r][i].committed => t.inst.committed
        BY <4>0, <4>6 DEF Sound
      <4>5. ASSUME NEW k \in 1 .. Len(t.sent), t.sent[k].bal \in Ballots
            PROVE  t.sent[k].val = t.sets[t.sent[k].bal][r]
        <5>1. CASE k \in 1 .. Len(s.sent)
          <6>1. /\ t.sent[k] = s.sent[k] /\ s.sent[k].bal = 0
            BY <1>3, <1>8, <2>5, <4>0, <5>1
          <6>2. s.sent[k].val = s.sets[0][r]
            BY <1>11, <4>0, <5>1, <6>1 DEF Sound
          <6> QED
            BY <1>11, <4>6, <6>1, <6>2
        <5>2. CASE k \notin 1 .. Len(s.sent)
          <6>1. k = Len(s.sent) + 1
            BY <1>8, <2>5, <4>5, <5>2
          <6>2. t.sent[k].bal = 1 /\ t.sent[k].val = v
            BY <1>8, <2>5, <4>0, <6>1
          <6> QED
            BY <4>5, <4>6, <6>2
        <5> QED
          BY <5>1, <5>2
      <4> QED
        BY <4>1, <4>2, <4>3, <4>4, <4>5 DEF Sound
    <3> QED
      BY <3>2, <3>3
  <2> QED
    BY <1>2, <2>2, <2>4, <2>5
<1> QED
  BY <1>2, <1>12, <1>13 DEF Views, t

----------------------------------------------------------------------------
(***************************************************************************)
(* The views that the handlers start from.                                 *)
(***************************************************************************)
LEMMA FirstView ==
  ASSUME IInv, NEW r \in Replicas, NEW i \in Instances
  PROVE  View(r, i) \in Views(r, i, next[r], Own(r, i, 0))
<1> DEFINE s == View(r, i)
<1>1. /\ s.inst = instances[r][i] /\ s.sets = m2bSets[r][i] /\ s.sent = << >>
      /\ s.grown = -1
  BY DEF View
<1>2. /\ instances[r][i] \in Instance
      /\ m2bSets[r][i] \in [Ballots -> [Replicas -> Values]]
  BY DEF IInv, TypeOK, Values
<1>3. instances[r][i] \in [value : Values, ballot : Nat, committed : BOOLEAN]
  BY <1>2 DEF Instance, Ballots, Values
<1>4. s \in ViewOf(i)
  BY <1>2, <1>3 DEF View, ViewOf
<1> HIDE DEF s
<1>5. Typed(s)
  BY <1>1 DEF Typed
<1>6. 0 \in Ballots
  BY DEF Ballots
<1>7. ASSUME FixedQuorum PROVE Counted(s, r, i, Own(r, i, 0))
  BY <1>1, <1>6, <1>7 DEF IInv, VotesOnce, Counted, Own
<1>8. ASSUME FixedQuorum, r \in quorum.members
      PROVE  Sound(s, r, i, next[r], Own(r, i, 0))
  <2>1. TopsOwn(r, i, Own(r, i, 0)) = Own(Top, i, 0)
    BY DEF TopsOwn
  <2>2. \A b \in Ballots : s.sets[b][r] = Own(r, i, b)
    BY <1>1 DEF Own
  <2>3. /\ \A b \in Ballots : Own(r, i, b) # None =>
             i < next[r] /\ b <= instances[r][i].ballot
        /\ next[r] <= i => instances[r][i].ballot = 0
    BY <1>8 DEF IInv, VotesReached
  <2>4. \A b \in Ballots \ {0} :
          Own(r, i, b) # None => b = 1 /\ Own(r, i, b) = Own(Top, i, 0)
    BY <1>8 DEF IInv, RecoveredAlike
  <2>5. instances[r][i].committed =>
          /\ i < next[r] /\ Own(Top, i, 0) # None
          /\ instances[r][i].value = Own(Top, i, 0)
    BY <1>8 DEF IInv, CommitsTop
  <2> QED
    BY <1>1, <2>1, <2>2, <2>3, <2>4, <2>5 DEF Sound
<1> QED
  BY <1>4, <1>5, <1>7, <1>8 DEF Fixed, Views, s

\* A 2B of another replica.
LEMMA TakenView ==
  ASSUME NEW r \in Replicas, NEW i \in Instances, NEW n \in Nat, NEW p,
         NEW s \in Views(r, i, n, p), NEW q \in Replicas, q # r,
         NEW b \in Ballots, NEW v \in Commands,
         FixedQuorum /\ q \in quorum.members => v = Own(q, i, b)
  PROVE  Add(s, q, b, v) \in Views(r, i, n, p)
<1> DEFINE t == Add(s, q, b, v)
<1>1. s \in ViewOf(i) /\ Typed(s) /\ Fixed(s, r, i, n, p)
  BY DEF Views
<1>2. /\ t \in ViewOf(i) /\ t.inst = s.inst /\ t.sent = s.sent
      /\ t.grown = IF q \in quorum.members THEN b ELSE -1
      /\ \A a \in Ballots, x \in Replicas :
           t.sets[a][x] = IF q \in quorum.members /\ a = b /\ x = q THEN v
                          ELSE s.sets[a][x]
  BY <1>1, Adds
<1> HIDE DEF t
<1>3. Typed(t)
  BY <1>1, <1>2 DEF Typed, Voters
<1>4. 0 \in Ballots /\ \A a \in Ballots : t.sets[a][r] = s.sets[a][r]
  BY <1>2 DEF Ballots
<1>5. ASSUME Counted(s, r, i, p), FixedQuorum PROVE Counted(t, r, i, p)
  BY <1>2, <1>4, <1>5 DEF Counted
<1>6. ASSUME Sound(s, r, i, n, p) PROVE Sound(t, r, i, n, p)
  BY <1>2, <1>4, <1>6 DEF Sound
<1> QED
  BY <1>1, <1>2, <1>3, <1>5, <1>6 DEF Views, Fixed, t

\* The 2B of a proposal.
ProposalView(r, c) ==
  LET i == next[r]
  IN SendM2B([View(r, i) EXCEPT !.inst.value = c], r, i)

LEMMA ProposedView ==
  ASSUME IInv, NEW r \in Replicas, NEW c \in Commands, next[r] \in Instances
  PROVE  ProposalView(r, c) \in
           Views(r, next[r], next[r] + 1, IF r \in quorum.members THEN c ELSE None)
<1> DEFINE i == next[r]
           s == View(r, i)
           x == [s.inst EXCEPT !.value = c]
           u == [s EXCEPT !.inst = x]
           t == SendM2B(u, r, i)
           b == s.inst.ballot
           p == IF r \in quorum.members THEN c ELSE None
           counts == r \in quorum.members /\ b \in Ballots
<1>1. s \in Views(r, i, i, Own(r, i, 0)) /\ quorum \in Quorums /\ i \in Nat
  BY FirstView DEF IInv, TypeOK, Instances
<1>2. /\ s \in ViewOf(i) /\ Fixed(s, r, i, i, Own(r, i, 0))
      /\ s.sent = << >> /\ s.inst = instances[r][i] /\ s.sets = m2bSets[r][i]
      /\ b \in Ballots /\ b \in Nat
  BY <1>1 DEF Views, View, IInv, TypeOK, Instance, Ballots
<1>3. ProposalView(r, c) = t
  BY <1>2 DEF ProposalView, ViewOf, View
<1> HIDE DEF s
<1>4. /\ x \in [value : Values, ballot : Nat, committed : BOOLEAN]
      /\ x.value = c /\ x.ballot = b /\ x.committed = s.inst.committed
  <2>1. s.inst \in [value : Values, ballot : Nat, committed : BOOLEAN] /\ c \in Values
    BY <1>2 DEF ViewOf, Values
  <2> QED
    BY <2>1
<1> HIDE DEF x
<1>5. u \in ViewOf(i) /\ u.inst = x /\ u.sets = s.sets /\ u.sent = << >>
  BY <1>2, <1>4 DEF ViewOf
<1> HIDE DEF u
<1>6. /\ t \in ViewOf(i) /\ t.inst = x
      /\ t.grown = IF counts THEN b ELSE -1
      /\ t.sent = Append(<< >>, [inst |-> i, bal |-> b, val |-> c])
      /\ \A a \in Ballots, q \in Replicas :
           t.sets[a][q] = IF counts /\ a = b /\ q = r THEN c ELSE s.sets[a][q]
  BY <1>1, <1>4, <1>5, Sends
<1> HIDE DEF t
<1>7. Len(t.sent) = 1 /\ t.sent[1].bal = b /\ t.sent[1].val = c
  <2> DEFINE m == [inst |-> i, bal |-> b, val |-> c]
  <2>1. m.bal = b /\ m.val = c
    OBVIOUS
  <2>2. t.sent = <<m>>
    BY <1>6
  <2> HIDE DEF m
  <2> QED
    BY <2>1, <2>2
<1>8. Typed(t)
  BY <1>2, <1>4, <1>6, <1>7 DEF Typed, Voters
<1>9. ASSUME FixedQuorum
      PROVE  /\ Counted(t, r, i, p)
             /\ r \in quorum.members => Sound(t, r, i, i + 1, p)
  <2>1. /\ Counted(s, r, i, Own(r, i, 0)) /\ 0 \in Ballots
        /\ r \in quorum.members => Sound(s, r, i, i, Own(r, i, 0))
    BY <1>2, <1>9 DEF Fixed, Ballots
  <2>2. CASE r \in quorum.members
    <3>1. /\ b = 0 /\ ~ s.inst.committed
          /\ \A a \in Ballots : s.sets[a][r] = None
      BY <1>1, <2>1, <2>2 DEF Sound
    <3>2. \A a \in Ballots : Own(r, i, a) = None
      BY <2>1, <3>1 DEF Counted
    <3>3. \A a \in Ballots, q \in Replicas :
            t.sets[a][q] = IF a = 0 /\ q = r THEN c ELSE s.sets[a][q]
      BY <1>2, <1>6, <2>2, <3>1
    <3>4. Counted(t, r, i, p)
      BY <2>1, <2>2, <3>2, <3>3 DEF Counted
    <3>5. ~ instances[r][i].committed /\ ~ t.inst.committed /\ t.inst.ballot = 0
      BY <1>2, <1>4, <1>6, <3>1
    <3>6. \A a \in Ballots : t.sets[a][r] = IF a = 0 THEN c ELSE None
      BY <3>1, <3>3
    <3>7. Sound(t, r, i, i + 1, p)
      BY <1>1, <1>7, <2>1, <3>1, <3>5, <3>6 DEF Sound
    <3> QED
      BY <3>4, <3>7
  <2>3. CASE r \notin quorum.members
    <3>1. \A a \in Ballots, q \in Replicas : t.sets[a][q] = s.sets[a][q]
      BY <1>6, <2>3
    <3>2. s.sets[0][r] = None
      BY <2>1, <2>3 DEF Counted
    <3> QED
      BY <2>1, <2>3, <3>1, <3>2 DEF Counted
  <2> QED
    BY <2>2, <2>3
<1> QED
  BY <1>3, <1>6, <1>8, <1>9 DEF Views, Fixed

----------------------------------------------------------------------------
(***************************************************************************)
(* What the end of a handler of r for instance i does.                     *)
(***************************************************************************)
\* Proposals taken and instances opened are r's, and only grow.
Grow(r, n) ==
  /\ UNCHANGED quorum
  /\ cmds' \in [Replicas -> SUBSET Commands] /\ next' \in [Replicas -> 0 .. MaxInstances]
  /\ cmds[r] \subseteq cmds'[r] /\ next'[r] = n /\ next[r] <= n
  /\ \A q \in Replicas \ {r} : cmds'[q] = cmds[q] /\ next'[q] = next[q]

\* The messages left are some of those that were there.
Left(nt) ==
  /\ nt \in [Links -> Seq(M2B)]
  /\ \A l \in Links : \A k \in 1 .. Len(nt[l]) :
       \E j \in 1 .. Len(net[l]) : nt[l][k] = net[l][j]

\* The command of instance k, once it is after those executed before.
DueNow(r, k) ==
  IF k <= lastExecuted[r] THEN executed[r][k] ELSE instances'[r][k].value

\* Execution goes on while instances are committed.
LEMMA Executes ==
  ASSUME IInv, NEW r \in Replicas, NEW i \in Instances, NEW n \in Nat, NEW s \in ViewOf(i),
         NEW nt, Conclude(r, i, s, nt), Grow(r, n)
  PROVE  /\ instances' \in [Replicas -> [Instances -> Instance]]
         /\ \A q \in Replicas, j \in Instances :
              instances'[q][j] = IF q = r /\ j = i THEN s.inst ELSE instances[q][j]
         /\ lastExecuted' \in [Replicas -> Instances \cup {-1}]
         /\ executed' \in [Replicas -> [Instances -> Commands \cup {None}]]
         /\ \A q \in Replicas \ {r} :
              lastExecuted'[q] = lastExecuted[q] /\ executed'[q] = executed[q]
         /\ lastExecuted[r] <= lastExecuted'[r]
         /\ \A k \in 0 .. lastExecuted'[r] :
              /\ k <= lastExecuted[r] => executed'[r][k] = executed[r][k]
              /\ k > lastExecuted[r] =>
                   /\ instances'[r][k].committed
                   /\ executed'[r][k] =
                        IF \E j \in 0 .. k - 1 : DueNow(r, j) = DueNow(r, k) THEN None
                        ELSE DueNow(r, k)
<1> DEFINE insts == [instances[r] EXCEPT ![i] = s.inst]
           first == lastExecuted[r] + 1
           Ready(k) == k \in Instances /\ insts[k].committed
           Stops == {k \in first .. MaxInstances :
                       ~ Ready(k) \/ insts[k].value \notin cmds'[r]}
           stop == Min(Stops)
           Due(k) == IF k < first THEN executed[r][k] ELSE insts[k].value
           Deliver(k) == IF \E j \in 0 .. k - 1 : Due(j) = Due(k) THEN None ELSE Due(k)
<1>1. /\ instances \in [Replicas -> [Instances -> Instance]]
      /\ lastExecuted \in [Replicas -> Instances \cup {-1}]
      /\ executed \in [Replicas -> [Instances -> Commands \cup {None}]]
      /\ cmds'[r] \subseteq Commands /\ MaxInstances \in Nat
  BY DEF IInv, TypeOK, Grow
<1>2. s.inst \in Instance
  BY DEF ViewOf, Conclude, Instance, Values
<1>3. /\ instances' = [instances EXCEPT ![r] = insts]
      /\ executed' = [executed EXCEPT ![r] = [k \in Instances |->
           IF k \in first .. stop - 1 THEN Deliver(k) ELSE executed[r][k]]]
      /\ lastExecuted' = [lastExecuted EXCEPT ![r] = stop - 1]
  BY DEF Conclude
<1>4. /\ insts \in [Instances -> Instance]
      /\ \A j \in Instances : insts[j] = IF j = i THEN s.inst ELSE instances[r][j]
  BY <1>1, <1>2
<1>5. /\ first \in 0 .. MaxInstances
      /\ stop \in first .. MaxInstances
      /\ \A k \in first .. stop - 1 :
           k \in Instances /\ insts[k].committed /\ insts[k].value \in Commands
  <2>1. first \in 0 .. MaxInstances
    <3>1. lastExecuted[r] \in Instances \cup {-1}
      BY <1>1
    <3> QED
      BY <1>1, <3>1 DEF Instances
  <2>2. MaxInstances \in Stops /\ Stops \subseteq Nat
    BY <1>1, <2>1 DEF Instances
  <2>3. stop \in Stops /\ \A k \in Stops : stop <= k
    <3> HIDE DEF Stops
    <3> QED
      BY <2>2, LeastIsMin
  <2>4. stop \in first .. MaxInstances
    BY <2>3
  <2>5. ASSUME NEW k \in first .. stop - 1
        PROVE  k \in Instances /\ insts[k].committed /\ insts[k].value \in Commands
    <3> HIDE DEF insts, first, stop
    <3>1. k \in first .. MaxInstances /\ ~ (stop <= k)
      BY <1>1, <2>1, <2>4, <2>5
    <3>2. k \notin Stops
      BY <2>3, <3>1
    <3> QED
      BY <1>1, <3>1, <3>2
  <2> QED
    BY <2>1, <2>4, <2>5
<1> HIDE DEF insts, stop
<1>6. /\ instances' \in [Replicas -> [Instances -> Instance]]
      /\ instances'[r] = insts
      /\ \A q \in Replicas, j \in Instances :
           instances'[q][j] = IF q = r /\ j = i THEN s.inst ELSE instances[q][j]
  BY <1>1, <1>3, <1>4
<1>7. /\ lastExecuted' \in [Replicas -> Instances \cup {-1}]
      /\ lastExecuted'[r] = stop - 1 /\ lastExecuted[r] <= stop - 1
      /\ \A q \in Replicas \ {r} : lastExecuted'[q] = lastExecuted[q]
  <2>1. stop - 1 \in Instances \cup {-1} /\ lastExecuted[r] \in Int
    BY <1>1, <1>5 DEF Instances
  <2> QED
    BY <1>1, <1>3, <1>5, <2>1
<1>8. \A k : Due(k) = DueNow(r, k) \/ ~ (k \in Int)
  BY <1>1, <1>6 DEF DueNow, Instances
<1>9. /\ executed' \in [Replicas -> [Instances -> Commands \cup {None}]]
      /\ \A k \in Instances : executed'[r][k] =
           IF k \in first .. stop - 1 THEN Deliver(k) ELSE executed[r][k]
      /\ \A q \in Replicas \ {r} : executed'[q] = executed[q]
  <2>1. \A k \in first .. stop - 1 : Due(k) \in Commands
    BY <1>5
  <2>2. \A k \in first .. stop - 1 : Deliver(k) \in Commands \cup {None}
    <3> HIDE DEF Due
    <3> QED
      BY <2>1
  <2> DEFINE e == [k \in Instances |->
               IF k \in first .. stop - 1 THEN Deliver(k) ELSE executed[r][k]]
  <2> HIDE DEF Deliver, first
  <2>3. /\ e \in [Instances -> Commands \cup {None}]
        /\ \A k \in Instances : e[k] =
             IF k \in first .. stop - 1 THEN Deliver(k) ELSE executed[r][k]
    BY <1>1, <2>2
  <2>4. executed' = [executed EXCEPT ![r] = e]
    BY <1>3
  <2> HIDE DEF e
  <2> QED
    BY <1>1, <2>3, <2>4
<1>10. ASSUME NEW k \in 0 .. lastExecuted'[r]
       PROVE  /\ k <= lastExecuted[r] => executed'[r][k] = executed[r][k]
              /\ k > lastExecuted[r] =>
                   /\ instances'[r][k].committed
                   /\ executed'[r][k] =
                        IF \E j \in 0 .. k - 1 : DueNow(r, j) = DueNow(r, k) THEN None
                        ELSE DueNow(r, k)
  <2>1. k \in Instances /\ k \in 0 .. stop - 1 /\ lastExecuted[r] \in Int
    BY <1>1, <1>5, <1>7 DEF Instances
  <2>2. CASE k <= lastExecuted[r]
    BY <1>9, <2>1, <2>2
  <2>3. CASE k > lastExecuted[r]
    <3>1. k \in first .. stop - 1
      BY <1>5, <2>1, <2>3
    <3>2. instances'[r][k].committed /\ executed'[r][k] = Deliver(k)
      BY <1>5, <1>6, <1>9, <2>1, <3>1
    <3>3. Due(k) = DueNow(r, k) /\ \A j \in 0 .. k - 1 : Due(j) = DueNow(r, j)
      <4> HIDE DEF Due
      <4> QED
        BY <1>8, <2>1
    <3>4. Deliver(k) = IF \E j \in 0 .. k - 1 : DueNow(r, j) = DueNow(r, k) THEN None
                       ELSE DueNow(r, k)
      <4> HIDE DEF Due
      <4> QED
        BY <3>3
    <3> QED
      BY <2>1, <2>3, <3>2, <3>4
  <2> QED
    BY <2>1, <2>2, <2>3
<1> QED
  BY <1>6, <1>7, <1>9, <1>10

\* The messages and the sets of the next state.
LEMMA Keeps ==
  ASSUME IInv, NEW r \in Replicas, NEW i \in Instances, NEW n \in Nat, NEW p,
         NEW s \in Views(r, i, n, p), NEW nt, Left(nt), Conclude(r, i, s, nt)
  PROVE  /\ m2bSets' \in [Replicas -> [Instances -> [Ballots -> [Replicas -> Values]]]]
         /\ \A q \in Replicas, j \in Instances :
              m2bSets'[q][j] = IF q = r /\ j = i THEN s.sets ELSE m2bSets[q][j]
         /\ net' \in [Links -> Seq(M2B)]
         /\ \A l \in Links : \A k \in 1 .. Len(net'[l]) :
              \/ \E j \in 1 .. Len(net[l]) : net'[l][k] = net[l][j]
              \/ l[1] = r /\ \E j \in 1 .. Len(s.sent) : net'[l][k] = s.sent[j]
         /\ s.sent \in Seq(M2B)
         /\ \A j \in 1 .. Len(s.sent) :
              s.sent[j] \in M2B /\ s.sent[j].inst = i
<1>1. /\ m2bSets \in [Replicas -> [Instances -> [Ballots -> [Replicas -> Values]]]]
      /\ nt \in [Links -> Seq(M2B)] /\ s \in ViewOf(i) /\ Typed(s)
  BY DEF IInv, TypeOK, Values, Left, Views
<1>2. s.sets \in [Ballots -> [Replicas -> Values]] /\ s.inst.ballot \in Ballots
  BY <1>1 DEF ViewOf, Conclude
<1>3. /\ m2bSets' = [m2bSets EXCEPT ![r][i] = s.sets]
      /\ net' = [l \in Links |-> IF l[1] = r THEN nt[l] \o s.sent ELSE nt[l]]
  BY DEF Conclude
<1>4. /\ s.sent \in Seq(M2B) /\ Len(s.sent) \in Nat
      /\ \A j \in 1 .. Len(s.sent) : s.sent[j] \in M2B /\ s.sent[j].inst = i
  <2> DEFINE T == [inst : {i}, bal : Nat, val : Commands]
             z == s.sent
  <2>1. z \in Seq(T)
    BY <1>1 DEF ViewOf
  <2>2. \A m \in T : m.inst = i /\ m.bal \in Nat /\ (m.bal \in Ballots => m \in M2B)
    BY DEF M2B
  <2> HIDE DEF T
  <2>3. ASSUME NEW j \in 1 .. Len(z) PROVE z[j] \in M2B /\ z[j].inst = i
    <3>1. z[j] \in T
      <4> HIDE DEF z
      <4> QED
        BY <2>1
    <3>2. z[j].bal \in Nat /\ z[j].bal <= s.inst.ballot
      BY <1>1, <2>2, <3>1 DEF Typed
    <3>3. z[j].bal \in Ballots
      BY <1>2, <3>2 DEF Ballots
    <3> QED
      BY <2>2, <3>1, <3>3
  <2> HIDE DEF z
  <2>4. z \in Seq(M2B) /\ Len(z) \in Nat
    <3>1. z = [j \in 1 .. Len(z) |-> z[j]] /\ Len(z) \in Nat
      BY <2>1
    <3>2. \A j \in 1 .. Len(z) : z[j] \in M2B
      BY <2>3
    <3> QED
      BY <3>1, <3>2
  <2> QED
    BY <2>3, <2>4 DEF z
<1>5. ASSUME NEW l \in Links
      PROVE  /\ net'[l] \in Seq(M2B)
             /\ \A k \in 1 .. Len(net'[l]) :
                  \/ \E j \in 1 .. Len(net[l]) : net'[l][k] = net[l][j]
                  \/ l[1] = r /\ \E j \in 1 .. Len(s.sent) : net'[l][k] = s.sent[j]
  <2>1. \A k \in 1 .. Len(nt[l]) : \E j \in 1 .. Len(net[l]) : nt[l][k] = net[l][j]
    BY DEF Left
  <2>2. CASE l[1] = r
    <3> DEFINE x == nt[l]
               y == s.sent
    <3>1. net'[l] = x \o y /\ x \in Seq(M2B) /\ y \in Seq(M2B)
      BY <1>1, <1>3, <1>4, <2>2
    <3> HIDE DEF x, y
    <3>2. /\ x \o y \in Seq(M2B)
          /\ \A k \in 1 .. Len(x \o y) :
               \/ \E j \in 1 .. Len(x) : (x \o y)[k] = x[j]
               \/ \E j \in 1 .. Len(y) : (x \o y)[k] = y[j]
      BY <3>1, Joined
    <3>3. ASSUME NEW k \in 1 .. Len(x \o y)
          PROVE  \/ \E j \in 1 .. Len(net[l]) : (x \o y)[k] = net[l][j]
                 \/ \E j \in 1 .. Len(s.sent) : (x \o y)[k] = s.sent[j]
      <4>1. CASE \E j \in 1 .. Len(x) : (x \o y)[k] = x[j]
        BY <2>1, <4>1 DEF x
      <4>2. CASE \E j \in 1 .. Len(y) : (x \o y)[k] = y[j]
        BY <4>2 DEF y
      <4> QED
        BY <3>2, <4>1, <4>2
    <3> QED
      BY <2>2, <3>1, <3>2, <3>3
  <2>3. CASE l[1] # r
    <3>1. net'[l] = nt[l] /\ nt[l] \in Seq(M2B)
      BY <1>1, <1>3, <2>3
    <3> QED
      BY <2>1, <3>1
  <2> QED
    BY <2>2, <2>3
<1>6. net' \in [Links -> Seq(M2B)]
  <2>1. net' = [l \in Links |-> net'[l]]
    BY <1>3
  <2> QED
    BY <1>5, <2>1
<1>7. /\ m2bSets' \in [Replicas -> [Instances -> [Ballots -> [Replicas -> Values]]]]
      /\ \A q \in Replicas, j \in Instances :
           m2bSets'[q][j] = IF q = r /\ j = i THEN s.sets ELSE m2bSets[q][j]
  <2> DEFINE S == [Ballots -> [Replicas -> Values]]
             z == s.sets
  <2>1. m2bSets \in [Replicas -> [Instances -> S]] /\ z \in S
    BY <1>1, <1>2
  <2> HIDE DEF S, z
  <2>2. m2bSets' = [m2bSets EXCEPT ![r][i] = z]
    BY <1>3 DEF z
  <2>3. /\ m2bSets' \in [Replicas -> [Instances -> S]]
        /\ \A q \in Replicas, j \in Instances :
             m2bSets'[q][j] = IF q = r /\ j = i THEN z ELSE m2bSets[q][j]
    BY <2>1, <2>2
  <2> QED
    BY <2>3 DEF S, z
<1> QED
  BY <1>4, <1>5, <1>6, <1>7

----------------------------------------------------------------------------
(***************************************************************************)
(* A handler keeps the invariant, and what was committed.                  *)
(***************************************************************************)
\* The command that r proposes in instance i is taken, and in no other.
Fresh(r, i, p) ==
  FixedQuorum /\ r \in quorum.members /\ p # None =>
    p \in cmds'[r] /\ \A j \in Instances \ {i} : Own(r, j, 0) # p

LEMMA Concludes ==
  ASSUME IInv, NEW r \in Replicas, NEW i \in Instances, NEW n \in Nat, NEW p,
         NEW s \in Views(r, i, n, p), NEW nt, Left(nt), Conclude(r, i, s, nt),
         Grow(r, n), Fresh(r, i, p)
  PROVE  IInv' /\ (FixedQuorum => \A q \in quorum.members, j \in Instances :
           instances[q][j].committed =>
             /\ instances'[q][j].committed
             /\ instances'[q][j].value = instances[q][j].value)
<1>1. s \in ViewOf(i) /\ Typed(s) /\ Fixed(s, r, i, n, p)
  BY DEF Views
<1> DEFINE New(q, j, b) == m2bSets'[q][j][b][q]
<1>2. /\ instances' \in [Replicas -> [Instances -> Instance]]
      /\ \A q \in Replicas, j \in Instances :
           instances'[q][j] = IF q = r /\ j = i THEN s.inst ELSE instances[q][j]
      /\ lastExecuted' \in [Replicas -> Instances \cup {-1}]
      /\ executed' \in [Replicas -> [Instances -> Commands \cup {None}]]
      /\ \A q \in Replicas \ {r} :
           lastExecuted'[q] = lastExecuted[q] /\ executed'[q] = executed[q]
      /\ lastExecuted[r] <= lastExecuted'[r]
      /\ \A k \in 0 .. lastExecuted'[r] :
           /\ k <= lastExecuted[r] => executed'[r][k] = executed[r][k]
           /\ k > lastExecuted[r] =>
                /\ instances'[r][k].committed
                /\ executed'[r][k] =
                     IF \E j \in 0 .. k - 1 : DueNow(r, j) = DueNow(r, k) THEN None
                     ELSE DueNow(r, k)
  BY <1>1, Executes
<1>3. /\ m2bSets' \in [Replicas -> [Instances -> [Ballots -> [Replicas -> Values]]]]
      /\ \A q \in Replicas, j \in Instances :
           m2bSets'[q][j] = IF q = r /\ j = i THEN s.sets ELSE m2bSets[q][j]
      /\ net' \in [Links -> Seq(M2B)]
      /\ \A l \in Links : \A k \in 1 .. Len(net'[l]) :
           \/ \E j \in 1 .. Len(net[l]) : net'[l][k] = net[l][j]
           \/ l[1] = r /\ \E j \in 1 .. Len(s.sent) : net'[l][k] = s.sent[j]
      /\ \A j \in 1 .. Len(s.sent) :
           s.sent[j] \in M2B /\ s.sent[j].inst = i
  <2>1. /\ m2bSets' \in [Replicas -> [Instances -> [Ballots -> [Replicas -> Values]]]]
        /\ \A q \in Replicas, j \in Instances :
             m2bSets'[q][j] = IF q = r /\ j = i THEN s.sets ELSE m2bSets[q][j]
    BY Keeps
  <2>2. /\ net' \in [Links -> Seq(M2B)]
        /\ \A l \in Links : \A k \in 1 .. Len(net'[l]) :
             \/ \E j \in 1 .. Len(net[l]) : net'[l][k] = net[l][j]
             \/ l[1] = r /\ \E j \in 1 .. Len(s.sent) : net'[l][k] = s.sent[j]
    BY Keeps
  <2>3. \A j \in 1 .. Len(s.sent) :
          s.sent[j] \in M2B /\ s.sent[j].inst = i
    BY Keeps
  <2> QED
    BY <2>1, <2>2, <2>3
<1>4. TypeOK'
  <2>1. panicked' \subseteq Replicas
    BY DEF Conclude, IInv, TypeOK
  <2>2. /\ quorum' \in Quorums /\ cmds' \in [Replicas -> SUBSET Commands]
        /\ next' \in [Replicas -> 0 .. MaxInstances]
    BY DEF Grow, IInv, TypeOK
  <2> QED
    BY <1>2, <1>3, <2>1, <2>2 DEF TypeOK, Values
<1>7. \A q \in Replicas : next[q] <= next'[q] /\ next[q] \in Nat /\ next'[q] \in Nat
  <2>1. /\ next \in [Replicas -> 0 .. MaxInstances]
        /\ next' \in [Replicas -> 0 .. MaxInstances]
        /\ next'[r] = n /\ next[r] <= n /\ \A q \in Replicas \ {r} : next'[q] = next[q]
    BY DEF IInv, TypeOK, Grow
  <2> SUFFICES ASSUME NEW q \in Replicas
               PROVE  next[q] <= next'[q] /\ next[q] \in Nat /\ next'[q] \in Nat
    OBVIOUS
  <2>2. next[q] \in Nat /\ next'[q] \in Nat
    BY <2>1
  <2> QED
    BY <2>1, <2>2
<1>5. CASE ~ FixedQuorum
  BY <1>4, <1>5 DEF IInv, FixedQuorum, Grow
<1>6. CASE FixedQuorum
  <2> USE <1>6
  <2>1. /\ Counted(s, r, i, p) /\ (r \in quorum.members => Sound(s, r, i, n, p))
        /\ quorum' = quorum /\ FixedQuorum' /\ Top' = Top
        /\ VotesOnce /\ VotesReached /\ RecoveredAlike /\ ProposedOnce
        /\ CommitsTop /\ ExecutesCommitted
    BY <1>1 DEF Fixed, Grow, FixedQuorum, Top, IInv
  <2>2. /\ quorum.members \subseteq Replicas /\ 0 \in Ballots
        /\ \A b \in Ballots : b \in Nat
        /\ \A j \in Instances : j \in Nat
        /\ next[r] \in Nat /\ next'[r] = n /\ next[r] <= n
    BY QuorumMembers DEF IInv, TypeOK, Ballots, Instances, Grow
  <2>3. \A q \in Replicas, j \in Instances, b \in Ballots :
          /\ Own(q, j, b)' = New(q, j, b)
          /\ New(q, j, b) = IF q = r /\ j = i THEN s.sets[b][r] ELSE Own(q, j, b)
          /\ Own(q, j, b) # None => New(q, j, b) = Own(q, j, b)
    BY <1>3, <2>1 DEF Own, Counted
  <2> HIDE DEF New
  <2>4. /\ New(r, i, 0) = p
        /\ r \in quorum.members => Top \in quorum.members /\ TopsOwn(r, i, p) = New(Top, i, 0)
    <3>1. New(r, i, 0) = p
      BY <2>1, <2>2, <2>3 DEF Counted
    <3>2. r \in quorum.members => Top \in quorum.members
      BY <2>2, Greatest DEF Top
    <3> QED
      BY <2>2, <2>3, <3>1, <3>2 DEF TopsOwn
  <2>5. VotesOnce'
    <3>1. ASSUME NEW x \in Replicas, NEW q \in Replicas, NEW j \in Instances,
                 NEW b \in Ballots, m2bSets'[x][j][b][q] # None
          PROVE  q \in quorum.members /\ m2bSets'[x][j][b][q] = New(q, j, b)
      <4>1. CASE x = r /\ j = i
        <5>1. m2bSets'[x][j][b][q] = s.sets[b][q]
          BY <1>3, <4>1
        <5>2. q \in quorum.members /\ (q # r => s.sets[b][q] = Own(q, j, b))
          BY <2>1, <3>1, <4>1, <5>1 DEF Counted
        <5>3. q = r => New(q, j, b) = s.sets[b][q]
          BY <2>3, <4>1
        <5> QED
          BY <2>3, <3>1, <5>1, <5>2, <5>3
      <4>2. CASE ~ (x = r /\ j = i)
        <5>1. m2bSets'[x][j][b][q] = m2bSets[x][j][b][q]
          BY <1>3, <4>2
        <5>2. q \in quorum.members /\ m2bSets[x][j][b][q] = Own(q, j, b)
          BY <2>1, <3>1, <5>1 DEF VotesOnce
        <5> QED
          BY <2>3, <3>1, <5>1, <5>2
      <4> QED
        BY <4>1, <4>2
    <3>2. ASSUME NEW l \in Links, l[1] \in quorum.members, NEW k \in 1 .. Len(net'[l])
          PROVE  net'[l][k].val = New(l[1], net'[l][k].inst, net'[l][k].bal)
      <4>1. CASE \E j \in 1 .. Len(net[l]) : net'[l][k] = net[l][j]
        <5>1. PICK j \in 1 .. Len(net[l]) : net'[l][k] = net[l][j]
          BY <4>1
        <5> DEFINE m == net[l][j]
        <5>2. m \in M2B
          <6>1. net[l] \in Seq(M2B)
            BY DEF IInv, TypeOK
          <6> QED
            BY <6>1
        <5>3. m.val = Own(l[1], m.inst, m.bal)
          BY <2>1, <3>2 DEF VotesOnce
        <5> HIDE DEF m
        <5>4. /\ m.val # None /\ m.inst \in Instances /\ m.bal \in Ballots
              /\ l[1] \in Replicas
          BY <5>2 DEF M2B, Links
        <5>5. New(l[1], m.inst, m.bal) = m.val
          BY <2>3, <5>3, <5>4
        <5> QED
          BY <5>1, <5>5 DEF m
      <4>2. CASE l[1] = r /\ \E j \in 1 .. Len(s.sent) : net'[l][k] = s.sent[j]
        <5>1. PICK j \in 1 .. Len(s.sent) : net'[l][k] = s.sent[j]
          BY <4>2
        <5> DEFINE m == s.sent[j]
        <5>2. m \in M2B /\ m.inst = i
          BY <1>3
        <5>3. m.bal \in Ballots => m.val = s.sets[m.bal][r]
          BY <2>1, <3>2, <4>2 DEF Sound
        <5> HIDE DEF m
        <5>4. m.bal \in Ballots
          BY <5>2 DEF M2B
        <5>5. New(r, i, m.bal) = m.val
          BY <2>3, <5>3, <5>4
        <5> QED
          BY <4>2, <5>1, <5>2, <5>5 DEF m
      <4> QED
        BY <1>3, <3>2, <4>1, <4>2
    <3> QED
      BY <2>1, <3>1, <3>2 DEF VotesOnce, Own, New
  <2>6. VotesReached'
    <3>1. ASSUME NEW q \in quorum.members, NEW j \in Instances
          PROVE  /\ \A b \in Ballots : New(q, j, b) # None =>
                      j < next'[q] /\ b <= instances'[q][j].ballot
                 /\ next'[q] <= j => instances'[q][j].ballot = 0
      <4>0. q \in Replicas
        BY <2>2
      <4>1. CASE q = r /\ j = i
        <5>1. instances'[q][j] = s.inst /\ \A b \in Ballots : New(q, j, b) = s.sets[b][r]
          BY <1>2, <2>3, <4>1
        <5> QED
          BY <2>1, <2>2, <3>1, <4>1, <5>1 DEF Sound
      <4>2. CASE ~ (q = r /\ j = i)
        <5>1. /\ instances'[q][j] = instances[q][j]
              /\ \A b \in Ballots : New(q, j, b) = Own(q, j, b)
          BY <1>2, <2>3, <4>0, <4>2
        <5>2. /\ \A b \in Ballots : Own(q, j, b) # None =>
                   j < next[q] /\ b <= instances[q][j].ballot
              /\ next[q] <= j => instances[q][j].ballot = 0
          BY <2>1, <3>1 DEF VotesReached
        <5>3. next[q] <= next'[q] /\ next[q] \in Nat /\ next'[q] \in Nat
          BY <1>7, <4>0
        <5> QED
          BY <2>2, <5>1, <5>2, <5>3
      <4> QED
        BY <4>1, <4>2
    <3> QED
      BY <2>1, <3>1 DEF VotesReached, Own, New
  <2>7. RecoveredAlike'
    <3>1. ASSUME NEW q \in quorum.members, NEW j \in Instances,
                 NEW b \in Ballots \ {0}, New(q, j, b) # None
          PROVE  b = 1 /\ New(q, j, b) = New(Top, j, 0)
      <4>1. CASE q = r /\ j = i
        <5>1. New(q, j, b) = s.sets[b][r]
          BY <2>2, <2>3, <4>1
        <5>2. b = 1 /\ s.sets[b][r] = TopsOwn(r, i, p)
          BY <2>1, <3>1, <4>1, <5>1 DEF Sound
        <5> QED
          BY <2>4, <3>1, <4>1, <5>1, <5>2
      <4>2. CASE ~ (q = r /\ j = i)
        <5>1. New(q, j, b) = Own(q, j, b) /\ Top \in Replicas
          <6>1. Top \in quorum.members
            BY <2>2, Greatest DEF Top
          <6> QED
            BY <2>2, <2>3, <4>2, <6>1
        <5>2. b = 1 /\ Own(q, j, b) = Own(Top, j, 0)
          BY <2>1, <3>1, <5>1 DEF RecoveredAlike
        <5>3. Own(Top, j, 0) # None
          BY <3>1, <5>1, <5>2
        <5> QED
          BY <2>2, <2>3, <5>1, <5>2, <5>3
      <4> QED
        BY <4>1, <4>2
    <3> QED
      BY <2>1, <3>1 DEF RecoveredAlike, Own, New
  <2>8. ProposedOnce'
    <3>1. ASSUME NEW q \in quorum.members, NEW j \in Instances, New(q, j, 0) # None
          PROVE  /\ New(q, j, 0) \in cmds'[q]
                 /\ \A k \in Instances : New(q, k, 0) = New(q, j, 0) => j = k
      <4>0. q \in Replicas
        BY <2>2
      <4>1. CASE q # r
        <5>1. \A k \in Instances : New(q, k, 0) = Own(q, k, 0)
          BY <2>2, <2>3, <4>0, <4>1
        <5>2. cmds'[q] = cmds[q]
          BY <4>0, <4>1 DEF Grow
        <5> QED
          BY <2>1, <3>1, <5>1, <5>2 DEF ProposedOnce
      <4>2. CASE q = r
        <5>1. \A k \in Instances \ {i} : New(r, k, 0) = Own(r, k, 0)
          BY <2>2, <2>3
        <5>2. p # None => p \in cmds'[r] /\ \A k \in Instances \ {i} : Own(r, k, 0) # p
          BY <3>1, <4>2 DEF Fresh
        <5>3. \A k \in Instances : Own(r, k, 0) # None =>
                /\ Own(r, k, 0) \in cmds'[r]
                /\ \A k2 \in Instances : Own(r, k2, 0) = Own(r, k, 0) => k = k2
          BY <2>1, <3>1, <4>2 DEF ProposedOnce, Grow
        <5>4. CASE j = i
          BY <2>4, <3>1, <4>2, <5>1, <5>2, <5>4
        <5>5. CASE j # i
          BY <2>4, <3>1, <4>2, <5>1, <5>2, <5>3, <5>5
        <5> QED
          BY <5>4, <5>5
      <4> QED
        BY <4>1, <4>2
    <3> QED
      BY <2>1, <3>1 DEF ProposedOnce, Own, New
  <2>9. ASSUME NEW q \in quorum.members, NEW j \in Instances
        PROVE  /\ instances'[q][j].committed =>
                    /\ j < next'[q] /\ New(Top, j, 0) # None
                    /\ instances'[q][j].value = New(Top, j, 0)
               /\ instances[q][j].committed =>
                    /\ instances'[q][j].committed
                    /\ instances'[q][j].value = instances[q][j].value
    <3>0. q \in Replicas /\ Top \in Replicas
      <4>1. Top \in quorum.members
        BY <2>2, Greatest DEF Top
      <4> QED
        BY <2>2, <4>1
    <3>1. instances[q][j].committed =>
            /\ j < next[q] /\ New(Top, j, 0) # None
            /\ instances[q][j].value = New(Top, j, 0)
      BY <2>1, <2>2, <2>3, <3>0 DEF CommitsTop
    <3>2. CASE q = r /\ j = i
      <4>1. instances'[q][j] = s.inst
        BY <1>2, <3>2
      <4>2. /\ s.inst.committed =>
                  /\ j < n /\ New(Top, j, 0) # None
                  /\ s.inst.value = New(Top, j, 0)
            /\ instances[q][j].committed => s.inst.committed
        BY <2>1, <2>4, <3>2 DEF Sound
      <4> QED
        BY <2>2, <3>1, <3>2, <4>1, <4>2
    <3>3. CASE ~ (q = r /\ j = i)
      <4>1. instances'[q][j] = instances[q][j]
        BY <1>2, <3>0, <3>3
      <4>2. next[q] <= next'[q] /\ next[q] \in Nat /\ next'[q] \in Nat
        BY <1>7, <3>0
      <4> QED
        BY <2>2, <3>1, <4>1, <4>2
    <3> QED
      BY <3>2, <3>3
  <2>10. CommitsTop'
    BY <2>1, <2>9 DEF CommitsTop, Own, New
  <2>11. ExecutesCommitted'
    <3>1. ASSUME NEW q \in quorum.members, NEW k \in 0 .. lastExecuted'[q]
          PROVE  instances'[q][k].committed /\ executed'[q][k] = instances'[q][k].value
      <4>0. /\ q \in Replicas /\ lastExecuted'[q] \in Instances \cup {-1}
            /\ lastExecuted[q] \in Int
        BY <1>2, <2>2 DEF IInv, TypeOK, Instances
      <4>1. k \in Instances /\ k \in Nat
        BY <4>0 DEF Instances
      <4>2. \A j \in 0 .. k : j \in Instances
        BY <4>1 DEF Instances
      <4>3. \A j \in 0 .. k : j <= lastExecuted[q] =>
              /\ instances'[q][j].committed
              /\ executed[q][j] = instances'[q][j].value
        <5> SUFFICES ASSUME NEW j \in 0 .. k, j <= lastExecuted[q]
                     PROVE  /\ instances'[q][j].committed
                            /\ executed[q][j] = instances'[q][j].value
          OBVIOUS
        <5>1. j \in 0 .. lastExecuted[q]
          BY <4>0, <4>1
        <5>2. instances[q][j].committed /\ executed[q][j] = instances[q][j].value
          BY <2>1, <3>1, <5>1 DEF ExecutesCommitted
        <5> QED
          BY <2>9, <3>1, <4>2, <5>2
      <4>4. CASE q # r
        BY <1>2, <3>1, <4>0, <4>1, <4>3, <4>4
      <4>5. CASE q = r
        <5>1. CASE k <= lastExecuted[r]
          BY <1>2, <3>1, <4>1, <4>3, <4>5, <5>1
        <5>2. CASE k > lastExecuted[r]
          <6>1. /\ instances'[r][k].committed
                /\ executed'[r][k] =
                     IF \E j \in 0 .. k - 1 : DueNow(r, j) = DueNow(r, k) THEN None
                     ELSE DueNow(r, k)
            BY <1>2, <3>1, <4>5, <5>2
          <6>2. \A j \in 0 .. k : /\ instances'[r][j].committed
                                 /\ DueNow(r, j) = instances'[r][j].value
            <7> SUFFICES ASSUME NEW j \in 0 .. k
                         PROVE  /\ instances'[r][j].committed
                                /\ DueNow(r, j) = instances'[r][j].value
              OBVIOUS
            <7>1. CASE j <= lastExecuted[r]
              BY <4>3, <4>5, <7>1 DEF DueNow
            <7>2. CASE j > lastExecuted[r]
              <8>1. j \in 0 .. lastExecuted'[r]
                BY <3>1, <4>0, <4>5 DEF Instances
              <8>2. ~ (j <= lastExecuted[r])
                BY <4>0, <4>5, <7>2
              <8> QED
                BY <1>2, <7>2, <8>1, <8>2 DEF DueNow
            <7> QED
              BY <4>0, <4>5, <7>1, <7>2
          <6>3. ASSUME NEW j \in 0 .. k - 1, DueNow(r, j) = DueNow(r, k) PROVE FALSE
            <7>1. j \in 0 .. k /\ k \in 0 .. k /\ j # k
              BY <4>1
            <7>2. /\ New(Top, j, 0) # None /\ New(Top, j, 0) = New(Top, k, 0)
                  /\ j \in Instances
              BY <2>9, <3>1, <4>1, <4>2, <4>5, <6>2, <6>3, <7>1
            <7>3. Top \in quorum.members
              BY <2>4, <3>1, <4>5
            <7>4. \A j1, j2 \in Instances :
                    New(Top, j1, 0) # None /\ New(Top, j2, 0) = New(Top, j1, 0) => j1 = j2
              BY <2>1, <2>8, <7>3 DEF ProposedOnce, Own, New
            <7> QED
              BY <4>1, <7>1, <7>2, <7>4
          <6>4. k \in 0 .. k
            BY <4>1
          <6> QED
            BY <4>5, <6>1, <6>2, <6>3, <6>4
        <5> QED
          BY <4>0, <4>1, <4>5, <5>1, <5>2
      <4> QED
        BY <4>4, <4>5
    <3> QED
      BY <2>1, <3>1 DEF ExecutesCommitted
  <2> QED
    BY <1>4, <2>5, <2>6, <2>7, <2>8, <2>9, <2>10, <2>11 DEF IInv
<1> QED
  BY <1>5, <1>6

----------------------------------------------------------------------------
(***************************************************************************)
(* The two events.                                                         *)
(***************************************************************************)
LEMMA Proposes ==
  ASSUME IInv, NEW r \in Replicas, NEW c \in Commands, HandleProposal(r, c)
  PROVE  IInv' /\ (FixedQuorum => \A q \in quorum.members, j \in Instances :
           instances[q][j].committed =>
             /\ instances'[q][j].committed
             /\ instances'[q][j].value = instances[q][j].value)
<1> DEFINE i == next[r]
           p == IF r \in quorum.members THEN c ELSE None
           s == Settled(ProposalView(r, c), r, i)
<1>1. /\ i \in Instances /\ c \notin cmds[r] /\ i + 1 \in Nat /\ quorum' = quorum
      /\ cmds' = [cmds EXCEPT ![r] = @ \cup {c}]
      /\ next' = [next EXCEPT ![r] = i + 1]
      /\ Conclude(r, i, s, net)
  BY DEF HandleProposal, ProposalView, Instances
<1>2. ProposalView(r, c) \in Views(r, i, i + 1, p)
  BY <1>1, ProposedView
<1>3. s \in Views(r, i, i + 1, p)
  <2> DEFINE V == Views(r, i, i + 1, p)
             v == ProposalView(r, c)
  <2>1. \A n \in Nat : \A x \in V : Called(x, r, i, n) \in V
    BY <1>1, CalledKeeps
  <2>2. v \in V
    BY <1>2
  <2> HIDE DEF V, v
  <2>3. Settled(v, r, i) \in V
    BY <2>1, <2>2, SettledIn
  <2> QED
    BY <2>3 DEF V, v
<1>4. Left(net)
  BY DEF Left, IInv, TypeOK
<1>5. Grow(r, i + 1)
  <2>1. /\ cmds \in [Replicas -> SUBSET Commands] /\ next \in [Replicas -> 0 .. MaxInstances]
        /\ i + 1 \in 0 .. MaxInstances /\ i <= i + 1
    BY <1>1 DEF IInv, TypeOK, Instances
  <2> QED
    BY <1>1, <2>1 DEF Grow
<1>6. Fresh(r, i, p)
  <2> SUFFICES ASSUME FixedQuorum, r \in quorum.members
               PROVE  c \in cmds'[r] /\ \A j \in Instances \ {i} : Own(r, j, 0) # c
    BY DEF Fresh
  <2>1. cmds'[r] = cmds[r] \cup {c}
    BY <1>1 DEF IInv, TypeOK
  <2>2. \A j \in Instances : Own(r, j, 0) # None => Own(r, j, 0) \in cmds[r]
    BY DEF IInv, ProposedOnce
  <2> QED
    BY <1>1, <2>1, <2>2
<1> HIDE DEF i, p, s
<1> QED
  BY <1>1, <1>3, <1>4, <1>5, <1>6, Concludes

LEMMA Handles2B ==
  ASSUME IInv, NEW r \in Replicas, NEW q \in Replicas, HandleM2B(r, q)
  PROVE  IInv' /\ (FixedQuorum => \A x \in quorum.members, j \in Instances :
           instances[x][j].committed =>
             /\ instances'[x][j].committed
             /\ instances'[x][j].value = instances[x][j].value)
<1> DEFINE l == <<q, r>>
           m == Head(net[l])
           nt == [net EXCEPT ![l] = Tail(@)]
<1>1. /\ l \in Links /\ net[l] # << >> /\ q # r /\ net \in [Links -> Seq(M2B)]
      /\ quorum' = quorum /\ cmds' = cmds /\ next' = next
  BY DEF HandleM2B, Links, IInv, TypeOK
<1> DEFINE z == net[l]
<1>2. /\ m \in M2B /\ m = net[l][1] /\ 1 \in 1 .. Len(net[l])
      /\ Tail(net[l]) \in Seq(M2B)
      /\ \A k \in 1 .. Len(Tail(net[l])) :
           k + 1 \in 1 .. Len(net[l]) /\ Tail(net[l])[k] = net[l][k + 1]
  <2>1. z \in Seq(M2B) /\ z # << >>
    BY <1>1
  <2>2. m = Head(z)
    OBVIOUS
  <2> HIDE DEF z
  <2>3. /\ Head(z) \in M2B /\ Head(z) = z[1] /\ 1 \in 1 .. Len(z)
        /\ Tail(z) \in Seq(M2B) /\ Len(z) \in Nat
        /\ Len(Tail(z)) = Len(z) - 1
        /\ \A k \in 1 .. Len(Tail(z)) : Tail(z)[k] = z[k + 1]
    BY <2>1
  <2>4. \A k \in 1 .. Len(Tail(z)) : k + 1 \in 1 .. Len(z)
    BY <2>3
  <2> HIDE DEF m
  <2> QED
    BY <2>2, <2>3, <2>4 DEF z
<1>3. PICK i \in Instances : i = m.inst
  BY <1>2 DEF M2B
<1> DEFINE n == next[r]
           p == Own(r, i, 0)
           v == Add(View(r, i), q, m.bal, m.val)
           s == Settled(v, r, i)
<1>4. Conclude(r, i, s, nt)
  BY <1>3 DEF HandleM2B
<1>5. Left(nt)
  <2>1. nt \in [Links -> Seq(M2B)]
    BY <1>1, <1>2
  <2>2. ASSUME NEW a \in Links, NEW k \in 1 .. Len(nt[a])
        PROVE  \E j \in 1 .. Len(net[a]) : nt[a][k] = net[a][j]
    <3>1. CASE a = l
      <4>1. nt[a] = Tail(net[l])
        BY <1>1, <3>1
      <4> QED
        BY <1>2, <2>2, <3>1, <4>1
    <3>2. CASE a # l
      BY <1>1, <2>2, <3>2
    <3> QED
      BY <3>1, <3>2
  <2> QED
    BY <2>1, <2>2 DEF Left
<1>6. n \in Nat /\ Grow(r, n)
  <2>1. /\ cmds \in [Replicas -> SUBSET Commands] /\ next \in [Replicas -> 0 .. MaxInstances]
    BY DEF IInv, TypeOK
  <2>2. n \in Nat
    BY <2>1
  <2> QED
    BY <1>1, <2>1, <2>2 DEF Grow
<1>7. v \in Views(r, i, n, p)
  <2>1. FixedQuorum /\ q \in quorum.members => m.val = Own(q, i, m.bal)
    <3> SUFFICES ASSUME FixedQuorum, q \in quorum.members PROVE m.val = Own(q, i, m.bal)
      OBVIOUS
    <3>1. \A k \in 1 .. Len(net[l]) :
            net[l][k].val = Own(q, net[l][k].inst, net[l][k].bal)
      BY <1>1 DEF IInv, VotesOnce
    <3> HIDE DEF l, m
    <3> QED
      BY <1>2, <1>3, <3>1
  <2>2. m.bal \in Ballots /\ m.val \in Commands
    BY <1>2 DEF M2B
  <2>3. View(r, i) \in Views(r, i, n, p)
    BY FirstView
  <2> HIDE DEF n, p, m
  <2> QED
    BY <1>1, <1>6, <2>1, <2>2, <2>3, TakenView
<1>8. s \in Views(r, i, n, p)
  <2> DEFINE V == Views(r, i, n, p)
  <2>1. \A k \in Nat : \A x \in V : Called(x, r, i, k) \in V
    BY <1>6, CalledKeeps
  <2>2. v \in V
    BY <1>7
  <2> HIDE DEF V, v
  <2>3. Settled(v, r, i) \in V
    BY <2>1, <2>2, SettledIn
  <2> QED
    BY <2>3 DEF V
<1>9. Fresh(r, i, p)
  <2> SUFFICES ASSUME FixedQuorum, r \in quorum.members, p # None
               PROVE  p \in cmds'[r] /\ \A j \in Instances \ {i} : Own(r, j, 0) # p
    BY DEF Fresh
  <2>1. /\ Own(r, i, 0) \in cmds[r]
        /\ \A j \in Instances : Own(r, j, 0) = Own(r, i, 0) => i = j
    BY DEF IInv, ProposedOnce
  <2> QED
    BY <1>1, <2>1
<1> HIDE DEF nt, n, p, s
<1> QED
  BY <1>4, <1>5, <1>6, <1>8, <1>9, Concludes

----------------------------------------------------------------------------
(***************************************************************************)
(* The invariant.                                                          *)
(***************************************************************************)
LEMMA Begins == Init => IInv
<1> SUFFICES ASSUME Init PROVE IInv
  OBVIOUS
<1>1. 0 \in Ballots /\ \A j \in Instances : j \in Nat
  BY DEF Ballots, Instances
<1>2. TypeOK
  BY <1>1 DEF Init, TypeOK, Instance
<1>3. \A r, q \in Replicas, i \in Instances, b \in Ballots : m2bSets[r][i][b][q] = None
  BY DEF Init
<1>4. ASSUME FixedQuorum
      PROVE  VotesOnce /\ VotesReached /\ RecoveredAlike /\ ProposedOnce /\ CommitsTop
  <2>1. quorum.members \subseteq Replicas
    BY <1>2, QuorumMembers DEF TypeOK
  <2>2. \A r \in Replicas, i \in Instances, b \in Ballots : Own(r, i, b) = None
    BY <1>3 DEF Own
  <2>3. VotesOnce
    BY <1>3 DEF VotesOnce, Init
  <2>4. \A r \in Replicas, i \in Instances :
          instances[r][i].ballot = 0 /\ ~ instances[r][i].committed
    BY DEF Init
  <2>5. VotesReached /\ RecoveredAlike /\ ProposedOnce /\ CommitsTop
    BY <1>1, <2>1, <2>2, <2>4 DEF VotesReached, RecoveredAlike, ProposedOnce, CommitsTop
  <2> QED
    BY <2>3, <2>5
<1>5. ExecutesCommitted
  <2>1. quorum.members \subseteq Replicas
    BY <1>2, QuorumMembers DEF TypeOK
  <2>2. \A r \in quorum.members : lastExecuted[r] = -1
    BY <2>1 DEF Init
  <2> QED
    BY <2>2 DEF ExecutesCommitted
<1> QED
  BY <1>2, <1>4, <1>5 DEF IInv

LEMMA Idling == IInv /\ UNCHANGED vars => IInv'
<1> SUFFICES ASSUME IInv, UNCHANGED vars PROVE IInv'
  OBVIOUS
<1>1. /\ quorum' = quorum /\ cmds' = cmds /\ next' = next /\ instances' = instances
      /\ m2bSets' = m2bSets /\ lastExecuted' = lastExecuted /\ executed' = executed
      /\ panicked' = panicked /\ net' = net
  BY DEF vars
<1>2. /\ \A q, i, b : Own(q, i, b)' = Own(q, i, b)
      /\ Top' = Top /\ (FixedQuorum' <=> FixedQuorum)
  BY <1>1 DEF Own, Top, FixedQuorum
<1>3. TypeOK'
  BY <1>1 DEF IInv, TypeOK
<1>4. ASSUME FixedQuorum
      PROVE  /\ VotesOnce' /\ VotesReached' /\ RecoveredAlike' /\ ProposedOnce'
             /\ CommitsTop' /\ ExecutesCommitted'
  <2>1. VotesOnce'
    BY <1>1, <1>2, <1>4 DEF IInv, VotesOnce
  <2>2. VotesReached'
    BY <1>1, <1>2, <1>4 DEF IInv, VotesReached
  <2>3. RecoveredAlike'
    BY <1>1, <1>2, <1>4 DEF IInv, RecoveredAlike
  <2>4. ProposedOnce'
    BY <1>1, <1>2, <1>4 DEF IInv, ProposedOnce
  <2>5. CommitsTop'
    BY <1>1, <1>2, <1>4 DEF IInv, CommitsTop
  <2>6. ExecutesCommitted'
    BY <1>1, <1>4 DEF IInv, ExecutesCommitted
  <2> QED
    BY <2>1, <2>2, <2>3, <2>4, <2>5, <2>6
<1> QED
  BY <1>2, <1>3, <1>4 DEF IInv

\* Every step keeps the invariant.
THEOREM Invariance == Spec => []IInv
<1>1. IInv /\ [Next]_vars => IInv'
  <2> SUFFICES ASSUME IInv, [Next]_vars PROVE IInv'
    OBVIOUS
  <2>1. CASE Next
    BY <2>1, Proposes, Handles2B DEF Next
  <2>2. CASE UNCHANGED vars
    BY <2>2, Idling
  <2> QED
    BY <2>1, <2>2
<1> QED
  BY Begins, <1>1, PTL DEF Spec

\* Every variable keeps its type, whatever the quorum.
THEOREM TypeCorrect == Spec => []TypeOK
<1>1. IInv => TypeOK
  BY DEF IInv
<1> QED
  BY Invariance, <1>1, PTL

\* The quorum of a group never changes.
LEMMA StaysFixed == Spec /\ FixedQuorum => []FixedQuorum
<1>1. FixedQuorum /\ [Next]_vars => FixedQuorum'
  BY DEF FixedQuorum, Next, vars, HandleProposal, HandleM2B
<1> QED
  BY <1>1, PTL DEF Spec

\* In a group with a fixed quorum no two members commit different commands in
\* an instance, nor execute different ones for it.
THEOREM AgreementHolds == Spec /\ FixedQuorum => []Agreement
<1>1. IInv /\ FixedQuorum => Agreement
  <2> SUFFICES ASSUME IInv, FixedQuorum PROVE Agreement
    OBVIOUS
  <2>1. CommitsTop /\ ExecutesCommitted /\ quorum.members \subseteq Replicas
        /\ lastExecuted \in [Replicas -> Instances \cup {-1}]
    BY QuorumMembers DEF IInv, TypeOK
  <2>2. ASSUME NEW r \in quorum.members, NEW i \in 0 .. lastExecuted[r]
        PROVE  i \in Instances
    <3>1. lastExecuted[r] \in Instances \cup {-1}
      BY <2>1
    <3> QED
      BY <3>1 DEF Instances
  <2>3. \A r \in quorum.members : \A i \in 0 .. lastExecuted[r] :
          executed[r][i] = Own(Top, i, 0)
    BY <2>1, <2>2 DEF CommitsTop, ExecutesCommitted
  <2>4. ASSUME NEW r \in quorum.members, NEW s \in quorum.members,
               NEW i \in 0 .. lastExecuted[r], i <= lastExecuted[s]
        PROVE  executed[r][i] = executed[s][i]
    <3>1. lastExecuted[r] \in Int /\ lastExecuted[s] \in Int
      BY <2>1 DEF Instances
    <3>2. i \in 0 .. lastExecuted[s]
      BY <2>4, <3>1
    <3> QED
      BY <2>3, <3>2
  <2>5. \A r, s \in quorum.members, i \in Instances :
          instances[r][i].committed /\ instances[s][i].committed =>
            instances[r][i].value = instances[s][i].value
    BY <2>1 DEF CommitsTop
  <2> QED
    BY <2>4, <2>5 DEF Agreement
<1> QED
  BY Invariance, StaysFixed, <1>1, PTL

\* In a group with a fixed quorum no command is committed in two instances:
\* what commit() calls impossible is.
THEOREM CommittedOnceHolds == Spec /\ FixedQuorum => []CommittedOnce
<1>1. IInv /\ FixedQuorum => CommittedOnce
  <2> SUFFICES ASSUME IInv, FixedQuorum, NEW r \in quorum.members, NEW s \in quorum.members,
                      NEW i \in Instances, NEW j \in Instances, i # j,
                      instances[r][i].committed, instances[s][j].committed,
                      instances[r][i].value = instances[s][j].value
               PROVE  FALSE
    BY DEF CommittedOnce
  <2>1. Own(Top, i, 0) # None /\ Own(Top, j, 0) = Own(Top, i, 0)
    BY DEF IInv, CommitsTop
  <2>2. Top \in quorum.members
    <3>1. quorum.members \subseteq Replicas /\ quorum.members # {}
      BY QuorumMembers DEF IInv, TypeOK
    <3> QED
      BY <3>1, Greatest DEF Top
  <2> QED
    BY <2>1, <2>2 DEF IInv, ProposedOnce
<1> QED
  BY Invariance, StaysFixed, <1>1, PTL

\* In a group with a fixed quorum what a member has committed stays committed,
\* with the same command.
THEOREM CommitsFinalHolds == Spec /\ FixedQuorum => CommitsFinal
<1>1. IInv /\ FixedQuorum /\ [Next]_vars =>
        [\A r \in quorum.members, i \in Instances :
           instances[r][i].committed =>
             /\ instances'[r][i].committed
             /\ instances'[r][i].value = instances[r][i].value]_vars
  <2> SUFFICES ASSUME IInv, FixedQuorum, Next
               PROVE  \A r \in quorum.members, i \in Instances :
                        instances[r][i].committed =>
                          /\ instances'[r][i].committed
                          /\ instances'[r][i].value = instances[r][i].value
    OBVIOUS
  <2>1. ASSUME NEW r \in Replicas, NEW c \in Commands, HandleProposal(r, c)
        PROVE  \A q \in quorum.members, j \in Instances :
                 instances[q][j].committed =>
                   /\ instances'[q][j].committed
                   /\ instances'[q][j].value = instances[q][j].value
    BY <2>1, Proposes
  <2>2. ASSUME NEW r \in Replicas, NEW x \in Replicas, HandleM2B(r, x)
        PROVE  \A q \in quorum.members, j \in Instances :
                 instances[q][j].committed =>
                   /\ instances'[q][j].committed
                   /\ instances'[q][j].value = instances[q][j].value
    BY <2>2, Handles2B
  <2> QED
    BY <2>1, <2>2 DEF Next
<1> QED
  BY Invariance, StaysFixed, <1>1, PTL DEF Spec, CommitsFinal

\* A group of at most four replicas, and every group with a quorum file, has a
\* fixed quorum.
LEMMA SmallIsFixed ==
  ASSUME quorum \in Quorums, N <= 4 \/ quorum # ThreeQuarters
  PROVE  FixedQuorum
<1>1. CASE quorum = ThreeQuarters
  <2>1. N \in {1, 2, 3, 4}
    BY <1>1
  <2>2. (3 * N) \div 4 + 1 = N
    BY <2>1
  <2>3. Cardinality(0 .. N - 1) = N
    BY FS_Interval
  <2> QED
    BY <1>1, <2>2, <2>3 DEF ThreeQuarters, FixedQuorum, Replicas
<1>2. CASE \E M \in SUBSET Replicas : quorum = QuorumOf(M)
  BY <1>2 DEF QuorumOf, FixedQuorum
<1> QED
  BY <1>1, <1>2

\* A group of at most four replicas agrees, commits each command once and for
\* good.
THEOREM SmallGroupsAgree ==
  ASSUME N <= 4
  PROVE  Spec => []Agreement /\ []CommittedOnce /\ CommitsFinal
<1>1. Init => FixedQuorum
  BY SmallIsFixed DEF Init
<1> QED
  BY AgreementHolds, CommittedOnceHolds, CommitsFinalHolds, <1>1, PTL DEF Spec

----------------------------------------------------------------------------
(***************************************************************************)
(* No vote is lost, and every collision is resolved: WakeInv says of every *)
(* vote which message will bring it, and of every quorum of votes that it  *)
(* was handled.                                                            *)
(***************************************************************************)

(***************************************************************************)
(* The views that a handler of r, a member, goes through: they count the   *)
(* 2Bs K, what r casts is among what it sends, and every ballot whose      *)
(* 2Bs are complete has been handled, but for the one that grew last.      *)
(***************************************************************************)
Handled(s, b) ==
  Full(s.sets[b]) => IF Unanimous(s.sets[b]) THEN s.inst.committed
                     ELSE s.inst.ballot # 0
Live(s, r, i, K) ==
  s.inst.ballot \in Ballots =>
    /\ \A w \in K : s.sets[w[1]][w[2]] # None
    /\ \A b \in Ballots : s.sets[b][r] # None /\ Own(r, i, b) = None =>
         \E k \in 1 .. Len(s.sent) : s.sent[k].bal = b
    /\ s.inst.ballot # 0 => s.inst.ballot = 1 /\ s.sets[1][r] # None
    /\ \A b \in Ballots \ {s.grown} : Handled(s, b)
LiveViews(r, i, n, p, K) == {s \in Views(r, i, n, p) : Live(s, r, i, K)}

LEMMA CalledLives ==
  ASSUME IInv, FixedQuorum, NEW r \in quorum.members, NEW i \in Instances, NEW n \in Nat,
         NEW p, NEW K \in SUBSET (Ballots \X Replicas),
         NEW s \in LiveViews(r, i, n, p, K), NEW b \in Nat
  PROVE  Called(s, r, i, b) \in LiveViews(r, i, n, p, K)
<1>1. r \in Replicas /\ quorum \in Quorums
  BY QuorumMembers DEF IInv, TypeOK
<1>2. s \in Views(r, i, n, p) /\ Live(s, r, i, K)
  BY DEF LiveViews
<1>3. Called(s, r, i, b) \in Views(r, i, n, p)
  BY <1>1, <1>2, CalledKeeps
<1> SUFFICES ASSUME s.grown = b, Called(s, r, i, b).inst.ballot \in Ballots
             PROVE  Live(Called(s, r, i, b), r, i, K)
  BY <1>2, <1>3 DEF Called, LiveViews, Live
<1> DEFINE t == HandleM2Bs(s, r, i, b)
           set == s.sets[b]
<1>4. Called(s, r, i, b) = t /\ t.inst.ballot \in Ballots
  BY DEF Called
<1>5. /\ s \in ViewOf(i) /\ b \in Ballots /\ Voters(set) # {}
      /\ Counted(s, r, i, p) /\ Sound(s, r, i, n, p)
      /\ \A a \in Ballots : a \in Nat
      /\ 0 \in Ballots
  BY <1>2 DEF Views, ViewOf, Typed, Fixed, Ballots
<1>6. /\ HasQuorum(set) => b = 0 \/ Unanimous(set)
      /\ Full(set) => HasQuorum(set)
  <2>1. HasQuorum(set) => b = 0 \/ Unanimous(set)
    BY <1>1, <1>5, FullQuorum
  <2>2. Cardinality(quorum.members) >= quorum.size
    <3>1. IsFiniteSet(quorum.members)
      <4>1. IsFiniteSet(Replicas) /\ quorum.members \subseteq Replicas
        BY <1>1, QuorumMembers, FS_Interval DEF Replicas
      <4> QED
        BY <4>1, FS_Subset
    <3>2. Cardinality(quorum.members) \in Nat
      BY <3>1, FS_CardinalityType
    <3> QED
      BY <3>2 DEF FixedQuorum
  <2>3. Full(set) => HasQuorum(set)
    BY <2>2 DEF Full, HasQuorum
  <2> QED
    BY <2>1, <2>3
<1>7. Idles(s, t, b) \/ Commits(s, t, b) \/ Recovers(s, t, r, i, b)
  BY <1>1, <1>5, Handles
<1>8. /\ s.inst \in [value : Values, ballot : Nat, committed : BOOLEAN]
      /\ s.sent \in Seq([inst : {i}, bal : Nat, val : Commands])
  BY <1>5 DEF ViewOf
<1>9. CASE Idles(s, t, b)
  <2>1. /\ ~ HasQuorum(set) \/ (~ Unanimous(set) /\ s.inst.ballot # b)
        /\ t.grown = -1 /\ t.inst = s.inst /\ t.sets = s.sets /\ t.sent = s.sent
    BY <1>9 DEF Idles
  <2> HIDE DEF t
  <2>2. Handled(t, b)
    BY <1>6, <2>1 DEF Handled
  <2> QED
    BY <1>2, <1>4, <2>1, <2>2 DEF Live, Handled
<1>10. CASE Commits(s, t, b)
  <2>1. /\ t.grown = -1 /\ t.sets = s.sets /\ t.sent = s.sent /\ Unanimous(set)
        /\ t.inst.committed = TRUE /\ t.inst.ballot = s.inst.ballot
    BY <1>8, <1>10 DEF Commits
  <2> HIDE DEF t
  <2>2. Handled(t, b)
    BY <2>1 DEF Handled
  <2> QED
    BY <1>2, <1>4, <2>1, <2>2 DEF Live, Handled
<1>11. CASE Recovers(s, t, r, i, b)
  <2> DEFINE v == LastValue(set)
             m == [inst |-> i, bal |-> 1, val |-> v]
  <2>1. /\ HasQuorum(set) /\ ~ Unanimous(set) /\ s.inst.ballot = b /\ b = 0
        /\ v \in Commands /\ v # None
    <3>1. HasQuorum(set) /\ ~ Unanimous(set) /\ s.inst.ballot = b
      BY <1>11 DEF Recovers
    <3>2. v \in Commands
      BY <1>1, <1>5, QuorumMembers DEF ViewOf
    <3> QED
      BY <1>6, <3>1, <3>2
  <2>2. /\ t.inst = [s.inst EXCEPT !.value = v, !.ballot = 1]
        /\ t.grown = (IF Counts(r, 1) THEN 1 ELSE -1)
        /\ t.sent = Append(s.sent, m)
        /\ \A a \in Ballots, q \in Replicas :
             t.sets[a][q] = IF Counts(r, 1) /\ a = 1 /\ q = r THEN v ELSE s.sets[a][q]
    BY <1>11, <2>1 DEF Recovers
  <2>3. m \in [inst : {i}, bal : Nat, val : Commands] /\ m.bal = 1
    BY <2>1
  <2> HIDE DEF v, m, t
  <2>4. t.inst.ballot = 1 /\ t.inst.committed = s.inst.committed
    BY <1>8, <2>2
  <2>5. /\ 1 \in Ballots /\ Counts(r, 1) /\ t.grown = 1
        /\ \A a \in Ballots, q \in Replicas :
             t.sets[a][q] = IF a = 1 /\ q = r THEN v ELSE s.sets[a][q]
    BY <1>4, <2>2, <2>4 DEF Counts
  <2>6. ASSUME NEW a \in Ballots, a # 0, a # 1 PROVE t.sets[a][r] = None
    BY <1>1, <1>5, <2>5, <2>6 DEF Sound
  <2>7. \A a \in Ballots \ {1} : Handled(t, a)
    <3>1. ASSUME NEW a \in Ballots, a # 0, a # 1 PROVE ~ Full(t.sets[a])
      BY <2>6, <3>1 DEF Full, Voters
    <3>2. ~ Unanimous(t.sets[0])
      <4>1. \A q \in Replicas : t.sets[0][q] = set[q]
        BY <1>5, <2>1, <2>5
      <4> QED
        BY <2>1, <4>1 DEF Unanimous, Voters
    <3> QED
      BY <2>4, <3>1, <3>2 DEF Handled
  <2>8. ASSUME NEW a \in Ballots, t.sets[a][r] # None, Own(r, i, a) = None
        PROVE  \E k \in 1 .. Len(t.sent) : t.sent[k].bal = a
    <3>1. /\ Len(s.sent) \in Nat /\ Len(t.sent) = Len(s.sent) + 1
          /\ \A k \in 1 .. Len(s.sent) : k \in 1 .. Len(t.sent) /\ t.sent[k] = s.sent[k]
          /\ Len(s.sent) + 1 \in 1 .. Len(t.sent) /\ t.sent[Len(s.sent) + 1] = m
      BY <1>8, <2>2, <2>3
    <3>2. CASE a = 1
      BY <2>3, <3>1, <3>2
    <3>3. CASE a # 1
      <4>1. s.sets[a][r] # None
        BY <1>1, <2>5, <2>8, <3>3
      <4>2. PICK k \in 1 .. Len(s.sent) : s.sent[k].bal = a
        BY <1>2, <1>5, <2>1, <2>8, <4>1 DEF Live
      <4> QED
        BY <3>1, <4>2
    <3> QED
      BY <3>2, <3>3
  <2>9. \A w \in K : t.sets[w[1]][w[2]] # None
    <3>1. \A w \in K : s.sets[w[1]][w[2]] # None /\ w[1] \in Ballots /\ w[2] \in Replicas
      BY <1>2, <1>5, <2>1 DEF Live
    <3> QED
      BY <2>1, <2>5, <3>1
  <2>10. t.sets[1][r] # None
    BY <1>1, <2>1, <2>5
  <2> QED
    BY <1>4, <2>4, <2>5, <2>7, <2>8, <2>9, <2>10 DEF Live
<1> HIDE DEF t
<1> QED
  BY <1>4, <1>7, <1>9, <1>10, <1>11

\* At the end nothing has grown that is not handled.
LEMMA SettledEnds ==
  ASSUME NEW V, \A v \in V : v.grown \in Ballots \cup {-1},
         NEW s \in V, NEW r, NEW i,
         \A n \in Nat : \A v \in V : Called(v, r, i, n) \in V,
         \A n \in Nat : \A v \in V : v.grown = n =>
           Called(v, r, i, n).grown = -1 \/ Called(v, r, i, n).grown = n + 1
  PROVE  Settled(s, r, i) \in V /\ Settled(s, r, i).grown = -1
<1> DEFINE S == {n \in Nat : /\ Calls(s, r, i)[n] \in V
                            /\ \/ Calls(s, r, i)[n].grown = -1
                               \/ Calls(s, r, i)[n].grown >= n}
<1>1. \A n \in Nat : Calls(s, r, i)[n] =
        IF n = 0 THEN s ELSE Called(Calls(s, r, i)[n - 1], r, i, n - 1)
  BY CallsAre
<1>3. 0 \in S
  <2>1. Calls(s, r, i)[0] = s
    BY <1>1
  <2>2. s.grown = -1 \/ s.grown >= 0
    BY DEF Ballots
  <2> QED
    BY <2>1, <2>2
<1>4. ASSUME NEW n \in Nat, n \in S PROVE n + 1 \in S
  <2>1. Calls(s, r, i)[n + 1] = Called(Calls(s, r, i)[n], r, i, n)
    BY <1>1
  <2>2. /\ Calls(s, r, i)[n] \in V
        /\ Calls(s, r, i)[n].grown = -1 \/ Calls(s, r, i)[n].grown >= n
    BY <1>4
  <2>3. PICK x \in V : x = Calls(s, r, i)[n]
    BY <2>2
  <2>4. PICK y \in V : y = Called(x, r, i, n)
    OBVIOUS
  <2>5. y.grown = -1 \/ y.grown >= n + 1
    <3>1. CASE x.grown = n
      <4>1. y.grown = -1 \/ y.grown = n + 1
        BY <2>4, <3>1
      <4> QED
        BY <4>1
    <3>2. CASE x.grown # n
      <4>1. y = x
        BY <2>4, <3>2 DEF Called
      <4>2. x.grown \in Ballots \cup {-1} /\ (x.grown = -1 \/ x.grown >= n)
        BY <2>2, <2>3
      <4> QED
        BY <3>2, <4>1, <4>2 DEF Ballots
    <3> QED
      BY <3>1, <3>2
  <2>6. Calls(s, r, i)[n + 1] = y /\ n + 1 \in Nat
    BY <2>1, <2>3, <2>4
  <2> QED
    BY <2>5, <2>6
<1> HIDE DEF S
<1>5. MaxBallot + 1 \in S
  BY <1>3, <1>4, Inductive
<1>6. /\ Settled(s, r, i) \in V
      /\ Settled(s, r, i).grown = -1 \/ Settled(s, r, i).grown >= MaxBallot + 1
  BY <1>5 DEF S, Settled
<1>7. Settled(s, r, i).grown \in Ballots \cup {-1}
  BY <1>6
<1> QED
  BY <1>6, <1>7 DEF Ballots

\* A handler ends with all ballots handled.
LEMMA Ends ==
  ASSUME IInv, FixedQuorum, NEW r \in quorum.members, NEW i \in Instances, NEW n \in Nat,
         NEW p, NEW K \in SUBSET (Ballots \X Replicas), NEW s \in LiveViews(r, i, n, p, K)
  PROVE  /\ Settled(s, r, i) \in LiveViews(r, i, n, p, K)
         /\ Settled(s, r, i).grown = -1
<1> DEFINE V == LiveViews(r, i, n, p, K)
<1>1. \A v \in V : v.grown \in Ballots \cup {-1}
  BY DEF LiveViews, Views, ViewOf
<1>2. \A k \in Nat : \A v \in V : Called(v, r, i, k) \in V
  BY CalledLives
<1>3. ASSUME NEW k \in Nat, NEW v \in V, v.grown = k
      PROVE  Called(v, r, i, k).grown = -1 \/ Called(v, r, i, k).grown = k + 1
  <2>1. /\ v \in ViewOf(i) /\ k \in Ballots /\ Voters(v.sets[k]) # {}
        /\ r \in Replicas /\ quorum \in Quorums
    BY <1>3, QuorumMembers DEF LiveViews, Views, ViewOf, Typed, IInv, TypeOK, Ballots
  <2> DEFINE t == HandleM2Bs(v, r, i, k)
  <2>2. Idles(v, t, k) \/ Commits(v, t, k) \/ Recovers(v, t, r, i, k)
    BY <2>1, Handles
  <2>3. Called(v, r, i, k) = t
    BY <1>3 DEF Called
  <2> HIDE DEF t
  <2>4. t.grown = -1 \/ t.grown = k + 1
    BY <2>2 DEF Idles, Commits, Recovers
  <2> QED
    BY <2>3, <2>4
<1> HIDE DEF V
<1>4. s \in V
  BY DEF V
<1>5. Settled(s, r, i) \in V /\ Settled(s, r, i).grown = -1
  BY <1>1, <1>2, <1>3, <1>4, SettledEnds
<1> QED
  BY <1>5 DEF V

----------------------------------------------------------------------------
(***************************************************************************)
(* The views that the handlers start from.                                 *)
(***************************************************************************)
\* The 2Bs that r counts in instance i.
Held(r, i) == {w \in Ballots \X Replicas : m2bSets[r][i][w[1]][w[2]] # None}

LEMMA FirstLives ==
  ASSUME IInv, FixedQuorum, WakeInv, NEW r \in quorum.members, NEW i \in Instances
  PROVE  View(r, i) \in LiveViews(r, i, next[r], Own(r, i, 0), Held(r, i))
<1> DEFINE s == View(r, i)
<1>1. r \in Replicas
  BY QuorumMembers DEF IInv, TypeOK
<1>2. s \in Views(r, i, next[r], Own(r, i, 0))
  BY <1>1, FirstView
<1>3. s.inst = instances[r][i] /\ s.sets = m2bSets[r][i] /\ s.grown = -1
  BY DEF View
<1> HIDE DEF s
<1>4. \A w \in Held(r, i) : s.sets[w[1]][w[2]] # None
  BY <1>3 DEF Held
<1>5. \A b \in Ballots : s.sets[b][r] = Own(r, i, b)
  BY <1>3 DEF Own
<1>6. s.inst.ballot \in Ballots /\ s.inst.ballot # 0 =>
        s.inst.ballot = 1 /\ s.sets[1][r] # None
  BY <1>3, <1>5 DEF WakeInv, QuorumsHandled
<1>7. \A b \in Ballots : Handled(s, b)
  BY <1>3 DEF WakeInv, QuorumsHandled, Handled
<1> QED
  BY <1>2, <1>4, <1>5, <1>6, <1>7 DEF LiveViews, Live, s

LEMMA TakenLives ==
  ASSUME IInv, FixedQuorum, NEW r \in quorum.members, NEW i \in Instances, NEW n \in Nat,
         NEW p, NEW K \in SUBSET (Ballots \X Replicas), NEW s \in LiveViews(r, i, n, p, K),
         s.grown = -1, NEW q \in quorum.members, q # r, NEW b \in Ballots,
         NEW v \in Commands, v = Own(q, i, b)
  PROVE  Add(s, q, b, v) \in LiveViews(r, i, n, p, K \cup {<<b, q>>})
<1> DEFINE t == Add(s, q, b, v)
<1>1. r \in Replicas /\ q \in Replicas
  BY QuorumMembers DEF IInv, TypeOK
<1>2. s \in Views(r, i, n, p) /\ Live(s, r, i, K) /\ s \in ViewOf(i)
  BY DEF LiveViews, Views
<1>3. t \in Views(r, i, n, p)
  BY <1>1, <1>2, TakenView
<1>4. /\ t.inst = s.inst /\ t.sent = s.sent /\ t.grown = b
      /\ \A a \in Ballots, x \in Replicas :
           t.sets[a][x] = IF a = b /\ x = q THEN v ELSE s.sets[a][x]
  BY <1>1, <1>2, Adds
<1> HIDE DEF t
<1> SUFFICES ASSUME s.inst.ballot \in Ballots
             PROVE  Live(t, r, i, K \cup {<<b, q>>})
  BY <1>3, <1>4 DEF LiveViews, Live, t
<1>5. \A w \in K \cup {<<b, q>>} : t.sets[w[1]][w[2]] # None
  <2>1. ASSUME NEW w \in K PROVE t.sets[w[1]][w[2]] # None
    <3>1. w[1] \in Ballots /\ w[2] \in Replicas /\ s.sets[w[1]][w[2]] # None
      BY <1>2 DEF Live
    <3> QED
      BY <1>4, <3>1
  <2>2. t.sets[b][q] # None
    BY <1>1, <1>4
  <2> QED
    BY <2>1, <2>2
<1>6. \A a \in Ballots : t.sets[a][r] = s.sets[a][r]
  BY <1>1, <1>4
<1>7. /\ \A a \in Ballots : t.sets[a][r] # None /\ Own(r, i, a) = None =>
           \E k \in 1 .. Len(t.sent) : t.sent[k].bal = a
      /\ t.inst.ballot # 0 => t.inst.ballot = 1 /\ t.sets[1][r] # None
  <2>1. 1 \in Ballots \/ t.inst.ballot # 1
    BY <1>4
  <2> QED
    BY <1>2, <1>4, <1>6, <2>1 DEF Live
<1>8. ASSUME NEW a \in Ballots \ {b} PROVE Handled(t, a)
  <2>1. Handled(s, a)
    <3>1. a # s.grown
      BY DEF Ballots
    <3> QED
      BY <1>2, <3>1 DEF Live
  <2>2. \A x \in Replicas : t.sets[a][x] = s.sets[a][x]
    BY <1>4, <1>8
  <2>3. Voters(t.sets[a]) = Voters(s.sets[a])
    BY <2>2 DEF Voters
  <2>4. Unanimous(t.sets[a]) <=> Unanimous(s.sets[a])
    BY <2>2, <2>3 DEF Unanimous, Voters
  <2> QED
    BY <1>4, <2>1, <2>3, <2>4 DEF Handled, Full
<1> QED
  BY <1>4, <1>5, <1>7, <1>8 DEF Live

LEMMA ProposedLives ==
  ASSUME IInv, FixedQuorum, WakeInv, NEW r \in quorum.members, NEW c \in Commands,
         next[r] \in Instances
  PROVE  ProposalView(r, c) \in
           LiveViews(r, next[r], next[r] + 1, c, Held(r, next[r]) \cup {<<0, r>>})
<1> DEFINE i == next[r]
           s == View(r, i)
           x == [s.inst EXCEPT !.value = c]
           u == [s EXCEPT !.inst = x]
           t == SendM2B(u, r, i)
           b == s.inst.ballot
<1>1. r \in Replicas /\ quorum \in Quorums /\ i \in Nat /\ 0 \in Ballots
  BY QuorumMembers DEF IInv, TypeOK, Instances, Ballots
<1>2. ProposalView(r, c) \in Views(r, i, i + 1, c)
  BY <1>1, ProposedView
<1>3. /\ s \in ViewOf(i) /\ Sound(s, r, i, i, Own(r, i, 0)) /\ Counted(s, r, i, Own(r, i, 0))
  BY <1>1, FirstView DEF Views, Fixed
<1>4. s.inst = instances[r][i] /\ s.sets = m2bSets[r][i] /\ s.sent = << >>
  BY DEF View
<1>5. ProposalView(r, c) = t
  BY <1>4 DEF ProposalView, ViewOf, View
<1>6. b = 0 /\ ~ s.inst.committed /\ \A a \in Ballots : s.sets[a][r] = None
  BY <1>1, <1>3 DEF Sound
<1> HIDE DEF s
<1>7. /\ x \in [value : Values, ballot : Nat, committed : BOOLEAN]
      /\ x.value = c /\ x.ballot = 0 /\ x.committed = s.inst.committed
  <2>1. s.inst \in [value : Values, ballot : Nat, committed : BOOLEAN] /\ c \in Values
    BY <1>3 DEF ViewOf, Values
  <2> QED
    BY <1>6, <2>1
<1> HIDE DEF x
<1>8. u \in ViewOf(i) /\ u.inst = x /\ u.sets = s.sets /\ u.sent = << >>
  BY <1>3, <1>4, <1>7 DEF ViewOf
<1> HIDE DEF u
<1>9. /\ t.inst = x /\ t.grown = 0
      /\ t.sent = Append(<< >>, [inst |-> i, bal |-> 0, val |-> c])
      /\ \A a \in Ballots, q \in Replicas :
           t.sets[a][q] = IF a = 0 /\ q = r THEN c ELSE s.sets[a][q]
  BY <1>1, <1>7, <1>8, Sends
<1> HIDE DEF t
<1>10. Len(t.sent) = 1 /\ t.sent[1].bal = 0
  <2> DEFINE m == [inst |-> i, bal |-> 0, val |-> c]
  <2>1. m.bal = 0
    OBVIOUS
  <2>2. t.sent = <<m>>
    BY <1>9
  <2> HIDE DEF m
  <2> QED
    BY <2>1, <2>2
<1>11. \A w \in Held(r, i) \cup {<<0, r>>} : t.sets[w[1]][w[2]] # None
  <2>1. ASSUME NEW w \in Held(r, i) PROVE t.sets[w[1]][w[2]] # None
    <3>1. w[1] \in Ballots /\ w[2] \in Replicas /\ s.sets[w[1]][w[2]] # None
      BY <1>4 DEF Held
    <3> QED
      BY <1>9, <3>1
  <2>2. t.sets[0][r] # None
    BY <1>1, <1>9
  <2> QED
    BY <2>1, <2>2
<1>12. ASSUME NEW a \in Ballots \ {0} PROVE Handled(t, a)
  <2>1. t.sets[a][r] = None
    BY <1>1, <1>6, <1>9, <1>12
  <2> QED
    BY <2>1 DEF Handled, Full, Voters
<1>13. ASSUME NEW a \in Ballots, t.sets[a][r] # None
       PROVE  \E k \in 1 .. Len(t.sent) : t.sent[k].bal = a
  <2>1. a = 0
    BY <1>1, <1>6, <1>9, <1>13
  <2> QED
    BY <1>10, <2>1
<1>14. Live(t, r, i, Held(r, i) \cup {<<0, r>>})
  BY <1>7, <1>9, <1>11, <1>12, <1>13 DEF Live
<1> QED
  BY <1>2, <1>5, <1>14 DEF LiveViews

----------------------------------------------------------------------------
(***************************************************************************)
(* What the end of a handler leaves to be waited for.                      *)
(***************************************************************************)
\* The executor of r stops where it has to wait, or dies.
LEMMA Stops ==
  ASSUME IInv, NEW r \in Replicas, NEW i \in Instances, NEW s \in ViewOf(i),
         NEW nt, Conclude(r, i, s, nt), r \notin panicked'
  PROVE  /\ lastExecuted'[r] + 1 \in Instances =>
              ~ instances'[r][lastExecuted'[r] + 1].committed
         /\ panicked' = panicked
<1> DEFINE insts == [instances[r] EXCEPT ![i] = s.inst]
           first == lastExecuted[r] + 1
           Ready(k) == k \in Instances /\ insts[k].committed
           Stopping == {k \in first .. MaxInstances :
                          ~ Ready(k) \/ insts[k].value \notin cmds'[r]}
           stop == Min(Stopping)
<1>1. /\ instances' = [instances EXCEPT ![r] = insts]
      /\ lastExecuted' = [lastExecuted EXCEPT ![r] = stop - 1]
      /\ panicked' = IF Ready(stop) THEN panicked \cup {r} ELSE panicked
  BY DEF Conclude
<1>2. /\ instances \in [Replicas -> [Instances -> Instance]]
      /\ lastExecuted \in [Replicas -> Instances \cup {-1}] /\ MaxInstances \in Nat
  BY DEF IInv, TypeOK
<1>3. stop \in Nat
  <2>1. first \in 0 .. MaxInstances
    <3>1. lastExecuted[r] \in Instances \cup {-1}
      BY <1>2
    <3> QED
      BY <1>2, <3>1 DEF Instances
  <2>2. MaxInstances \in Stopping /\ Stopping \subseteq Nat
    BY <1>2, <2>1 DEF Instances
  <2> HIDE DEF Stopping
  <2>3. stop \in Stopping
    BY <2>2, LeastIsMin
  <2> QED
    BY <2>2, <2>3
<1> HIDE DEF insts, stop
<1>4. /\ instances'[r] = insts /\ lastExecuted'[r] = stop - 1
      /\ (stop - 1) + 1 = stop
  BY <1>1, <1>2, <1>3
<1>5. ~ Ready(stop)
  BY <1>1
<1> QED
  BY <1>1, <1>4, <1>5

\* The messages of members that are gone are those that r counts.
Remain(nt, r, i, K) ==
  \A l \in Links : l[1] \in quorum.members => \A k \in 1 .. Len(net[l]) :
    \/ \E j \in 1 .. Len(nt[l]) : nt[l][j] = net[l][k]
    \/ l[2] = r /\ net[l][k].inst = i /\ <<net[l][k].bal, l[1]>> \in K

\* r has taken nothing, or command p, which it proposes in instance i.
Takes(r, i, n, p) ==
  \/ n = next[r] /\ cmds'[r] = cmds[r]
  \/ /\ i = next[r] /\ n = i + 1 /\ p \in Commands \ cmds[r]
     /\ cmds'[r] = cmds[r] \cup {p}

LEMMA ConcludesLive ==
  ASSUME IInv, FixedQuorum, WakeInv, NEW r \in quorum.members, NEW i \in Instances,
         NEW n \in Nat, NEW p, NEW K \in SUBSET (Ballots \X Replicas), Held(r, i) \subseteq K,
         NEW s \in LiveViews(r, i, n, p, K), s.grown = -1,
         NEW nt, Left(nt), Remain(nt, r, i, K), Conclude(r, i, s, nt),
         Grow(r, n), Takes(r, i, n, p)
  PROVE  WakeInv'
<1>1. /\ s \in Views(r, i, n, p) /\ Live(s, r, i, K) /\ s \in ViewOf(i)
      /\ s.inst.ballot \in Ballots
      /\ quorum' = quorum /\ r \in Replicas /\ quorum.members \subseteq Replicas
      /\ Counted(s, r, i, p)
  BY QuorumMembers DEF LiveViews, Views, Fixed, Conclude, Grow, IInv, TypeOK
<1> DEFINE New(q, j, b) == m2bSets'[q][j][b][q]
<1>2. /\ \A q \in Replicas, j \in Instances :
           instances'[q][j] = IF q = r /\ j = i THEN s.inst ELSE instances[q][j]
      /\ \A q \in Replicas \ {r} : lastExecuted'[q] = lastExecuted[q]
  BY <1>1, Executes
<1>3. /\ \A q \in Replicas, j \in Instances :
           m2bSets'[q][j] = IF q = r /\ j = i THEN s.sets ELSE m2bSets[q][j]
      /\ s.sent \in Seq(M2B)
      /\ \A j \in 1 .. Len(s.sent) : s.sent[j] \in M2B /\ s.sent[j].inst = i
  BY <1>1, Keeps
<1>4. \A q \in Replicas, j \in Instances, b \in Ballots :
        /\ Own(q, j, b)' = New(q, j, b)
        /\ New(q, j, b) = IF q = r /\ j = i THEN s.sets[b][r] ELSE Own(q, j, b)
        /\ Own(q, j, b) # None => New(q, j, b) = Own(q, j, b)
  BY <1>1, <1>3 DEF Own, Counted
<1>5. /\ \A w \in K : s.sets[w[1]][w[2]] # None
      /\ \A b \in Ballots : s.sets[b][r] # None /\ Own(r, i, b) = None =>
           \E k \in 1 .. Len(s.sent) : s.sent[k].bal = b
      /\ s.inst.ballot # 0 => s.inst.ballot = 1 /\ s.sets[1][r] # None
      /\ \A b \in Ballots : Handled(s, b)
  BY <1>1 DEF Live, Ballots
<1>6. ASSUME NEW l \in Links
      PROVE  /\ \A k \in 1 .. Len(nt[l]) : \E j \in 1 .. Len(net'[l]) : net'[l][j] = nt[l][k]
             /\ l[1] = r => \A k \in 1 .. Len(s.sent) :
                              \E j \in 1 .. Len(net'[l]) : net'[l][j] = s.sent[k]
  <2>1. net'[l] = IF l[1] = r THEN nt[l] \o s.sent ELSE nt[l]
    BY DEF Conclude
  <2> DEFINE x == nt[l]
             y == s.sent
  <2>2. x \in Seq(M2B) /\ y \in Seq(M2B)
    BY <1>3 DEF Left
  <2> HIDE DEF x, y
  <2> DEFINE z == net'[l]
  <2>3. z = IF l[1] = r THEN x \o y ELSE x
    BY <2>1 DEF x, y
  <2> HIDE DEF z
  <2>4. ASSUME l[1] = r
        PROVE  /\ \A k \in 1 .. Len(x) : \E j \in 1 .. Len(z) : z[j] = x[k]
               /\ \A k \in 1 .. Len(y) : \E j \in 1 .. Len(z) : z[j] = y[k]
    <3>1. z = x \o y
      BY <2>3, <2>4
    <3>2. /\ Len(z) = Len(x) + Len(y) /\ Len(x) \in Nat /\ Len(y) \in Nat
          /\ \A k \in 1 .. Len(x) + Len(y) :
               z[k] = IF k <= Len(x) THEN x[k] ELSE y[k - Len(x)]
      BY <2>2, <3>1
    <3>3. \A k \in 1 .. Len(x) : k \in 1 .. Len(z) /\ z[k] = x[k]
      BY <3>2
    <3>4. \A k \in 1 .. Len(y) : Len(x) + k \in 1 .. Len(z) /\ z[Len(x) + k] = y[k]
      <4> TAKE k \in 1 .. Len(y)
      <4>1. /\ Len(x) + k \in 1 .. Len(z) /\ ~ (Len(x) + k <= Len(x))
            /\ (Len(x) + k) - Len(x) = k
        BY <3>2
      <4> QED
        BY <3>2, <4>1
    <3> QED
      BY <3>3, <3>4
  <2>5. l[1] # r => \A k \in 1 .. Len(x) : \E j \in 1 .. Len(z) : z[j] = x[k]
    BY <2>3
  <2> QED
    BY <2>4, <2>5 DEF x, y, z
<1> HIDE DEF New
<1>7. VotesArrive'
  <2>1. ASSUME NEW q \in quorum.members, NEW x \in quorum.members, NEW j \in Instances,
               NEW b \in Ballots, New(q, j, b) # None, m2bSets'[x][j][b][q] = None
        PROVE  q # x /\ \E k \in 1 .. Len(net'[<<q, x>>]) :
                 net'[<<q, x>>][k].inst = j /\ net'[<<q, x>>][k].bal = b
    <3>0. q \in Replicas /\ x \in Replicas
      BY <1>1
    <3>1. q # x
      BY <2>1 DEF New
    <3> DEFINE l == <<q, x>>
    <3>2. l \in Links /\ l[1] = q /\ l[2] = x
      BY <3>0, <3>1 DEF Links
    <3> HIDE DEF l
    <3>3. CASE Own(q, j, b) # None
      <4>1. x = r /\ j = i => <<b, q>> \notin K
        BY <1>3, <1>5, <2>1, <3>0
      <4>2. m2bSets[x][j][b][q] = None
        <5>1. CASE x = r /\ j = i
          BY <3>0, <4>1, <5>1 DEF Held
        <5>2. CASE ~ (x = r /\ j = i)
          BY <1>3, <2>1, <3>0, <5>2
        <5> QED
          BY <5>1, <5>2
      <4>3. PICK k \in 1 .. Len(net[l]) : net[l][k].inst = j /\ net[l][k].bal = b
        BY <3>3, <4>2 DEF WakeInv, VotesArrive, l
      <4>4. PICK k2 \in 1 .. Len(nt[l]) : nt[l][k2] = net[l][k]
        BY <2>1, <3>2, <4>1, <4>3 DEF Remain
      <4>5. PICK k3 \in 1 .. Len(net'[l]) : net'[l][k3] = nt[l][k2]
        BY <1>6, <3>2
      <4> QED
        BY <3>1, <4>3, <4>4, <4>5 DEF l
    <3>4. CASE Own(q, j, b) = None
      <4>1. q = r /\ j = i /\ s.sets[b][r] # None
        BY <1>4, <2>1, <3>0, <3>4
      <4>2. PICK k \in 1 .. Len(s.sent) : s.sent[k].bal = b
        BY <1>5, <3>4, <4>1
      <4>3. PICK k3 \in 1 .. Len(net'[l]) : net'[l][k3] = s.sent[k]
        BY <1>6, <3>2, <4>1
      <4> QED
        BY <1>3, <3>1, <4>1, <4>2, <4>3 DEF l
    <3> QED
      BY <3>3, <3>4
  <2> QED
    BY <1>1, <2>1 DEF VotesArrive, Own, New
<1>8. QuorumsHandled'
  <2>1. ASSUME NEW q \in quorum.members, NEW j \in Instances
        PROVE  /\ instances'[q][j].ballot # 0 =>
                    instances'[q][j].ballot = 1 /\ New(q, j, 1) # None
               /\ \A b \in Ballots : Voters(m2bSets'[q][j][b]) = quorum.members =>
                    IF Unanimous(m2bSets'[q][j][b]) THEN instances'[q][j].committed
                    ELSE instances'[q][j].ballot # 0
    <3>0. q \in Replicas
      BY <1>1
    <3>1. CASE q = r /\ j = i
      <4>1. instances'[q][j] = s.inst /\ m2bSets'[q][j] = s.sets
        BY <1>2, <1>3, <3>0, <3>1
      <4>2. New(q, j, 1) = s.sets[1][r]
        BY <3>1, <4>1 DEF New
      <4> QED
        BY <1>5, <4>1, <4>2 DEF Handled, Full
    <3>2. CASE ~ (q = r /\ j = i)
      <4>1. /\ instances'[q][j] = instances[q][j] /\ m2bSets'[q][j] = m2bSets[q][j]
        BY <1>2, <1>3, <3>0, <3>2
      <4>2. New(q, j, 1) = Own(q, j, 1)
        BY <4>1 DEF New, Own
      <4> QED
        BY <4>1, <4>2 DEF WakeInv, QuorumsHandled, Full
    <3> QED
      BY <3>1, <3>2
  <2> QED
    BY <1>1, <2>1 DEF QuorumsHandled, Full, Voters, Unanimous, Own, New
<1>9. TakenProposed'
  <2>1. ASSUME NEW q \in quorum.members
        PROVE  /\ IsFiniteSet(cmds'[q]) /\ next'[q] = Cardinality(cmds'[q])
               /\ \A k \in 0 .. next'[q] - 1 : New(q, k, 0) # None
               /\ \A c \in cmds'[q] : \E k \in Instances : New(q, k, 0) = c
    <3>0. /\ q \in Replicas /\ 0 \in Ballots
          /\ next[q] \in 0 .. MaxInstances /\ next'[q] \in 0 .. MaxInstances
          /\ cmds'[q] \subseteq Commands
      BY <1>1 DEF IInv, TypeOK, Grow, Ballots
    <3>1. /\ IsFiniteSet(cmds[q]) /\ next[q] = Cardinality(cmds[q])
          /\ \A k \in 0 .. next[q] - 1 : Own(q, k, 0) # None
          /\ \A c \in cmds[q] : \E k \in Instances : Own(q, k, 0) = c
      BY DEF WakeInv, TakenProposed
    <3>2. \A k \in 0 .. next'[q] - 1 : k \in Instances
      BY <3>0 DEF Instances
    <3>3. \A k \in Instances : Own(q, k, 0) # None => New(q, k, 0) = Own(q, k, 0)
      BY <1>4, <3>0
    <3>4. CASE next'[q] = next[q] /\ cmds'[q] = cmds[q]
      <4>1. \A k \in 0 .. next'[q] - 1 : New(q, k, 0) # None
        BY <3>1, <3>2, <3>3, <3>4
      <4>2. ASSUME NEW c \in cmds'[q] PROVE \E k \in Instances : New(q, k, 0) = c
        <5>1. PICK k \in Instances : Own(q, k, 0) = c
          BY <3>1, <3>4
        <5>2. c # None
          BY <3>0, <4>2
        <5> QED
          BY <3>3, <5>1, <5>2
      <4> QED
        BY <3>1, <3>4, <4>1, <4>2
    <3>5. CASE /\ q = r /\ i = next[r] /\ next'[r] = i + 1 /\ p \in Commands \ cmds[r]
               /\ cmds'[r] = cmds[r] \cup {p}
      <4>1. New(q, i, 0) = p /\ p # None
        <5>1. s.sets[0][r] = p
          BY <1>1 DEF Counted
        <5> QED
          BY <1>4, <3>0, <3>5, <5>1
      <4>2. /\ IsFiniteSet(cmds'[q])
            /\ Cardinality(cmds'[q]) = Cardinality(cmds[q]) + 1
        <5> DEFINE C == cmds[q]
        <5>1. IsFiniteSet(C) /\ p \notin C /\ cmds'[q] = C \cup {p}
          BY <3>1, <3>5
        <5> HIDE DEF C
        <5>2. IsFiniteSet(C \cup {p}) /\ Cardinality(C \cup {p}) = Cardinality(C) + 1
          BY <5>1, FS_AddElement
        <5> QED
          BY <5>1, <5>2 DEF C
      <4>3. ASSUME NEW k \in 0 .. next'[q] - 1 PROVE New(q, k, 0) # None
        <5>1. CASE k = i
          BY <4>1, <5>1
        <5>2. CASE k # i
          <6>1. k \in 0 .. next[q] - 1
            BY <3>0, <3>5, <5>2
          <6> QED
            BY <3>1, <3>2, <3>3, <6>1
        <5> QED
          BY <5>1, <5>2
      <4>4. ASSUME NEW c \in cmds'[q] PROVE \E k \in Instances : New(q, k, 0) = c
        <5>1. CASE c = p
          BY <4>1, <5>1
        <5>2. CASE c # p
          <6>1. PICK k \in Instances : Own(q, k, 0) = c
            BY <3>1, <3>5, <4>4, <5>2
          <6>2. c # None
            BY <3>0, <4>4
          <6> QED
            BY <3>3, <6>1, <6>2
        <5> QED
          BY <5>1, <5>2
      <4> QED
        BY <3>1, <3>5, <4>2, <4>3, <4>4
    <3>6. CASE q # r
      BY <3>0, <3>4, <3>6 DEF Grow
    <3> QED
      BY <3>4, <3>5, <3>6 DEF Takes, Grow
  <2> QED
    BY <1>1, <2>1 DEF TakenProposed, Own, New
<1>10. ExecutorStops'
  <2>1. ASSUME NEW q \in quorum.members, q \notin panicked',
               lastExecuted'[q] + 1 \in Instances
        PROVE  ~ instances'[q][lastExecuted'[q] + 1].committed
    <3>1. CASE q = r
      BY <1>1, <2>1, <3>1, Stops
    <3>2. CASE q # r
      <4>1. q \in Replicas /\ q \notin panicked
        BY <1>1, <2>1 DEF Conclude
      <4>2. lastExecuted'[q] = lastExecuted[q]
        BY <1>2, <3>2, <4>1
      <4>3. instances'[q][lastExecuted[q] + 1] = instances[q][lastExecuted[q] + 1]
        BY <1>2, <2>1, <3>2, <4>1, <4>2
      <4> QED
        BY <2>1, <4>1, <4>2, <4>3 DEF WakeInv, ExecutorStops
    <3> QED
      BY <3>1, <3>2
  <2> QED
    BY <1>1, <2>1 DEF ExecutorStops
<1> QED
  BY <1>7, <1>8, <1>9, <1>10 DEF WakeInv

\* Nobody waits for a replica outside of the quorum.
LEMMA ConcludesOutside ==
  ASSUME IInv, WakeInv, NEW r \in Replicas \ quorum.members, NEW i, NEW s, NEW nt,
         \A l \in Links : l[2] # r => nt[l] = net[l],
         Conclude(r, i, s, nt), UNCHANGED quorum,
         \A q \in Replicas \ {r} : cmds'[q] = cmds[q] /\ next'[q] = next[q]
  PROVE  WakeInv'
<1>1. ASSUME NEW q \in quorum.members
      PROVE  /\ q \in Replicas \ {r} /\ instances'[q] = instances[q]
             /\ m2bSets'[q] = m2bSets[q] /\ lastExecuted'[q] = lastExecuted[q]
             /\ cmds'[q] = cmds[q] /\ next'[q] = next[q]
  <2>1. q \in Replicas \ {r}
    BY QuorumMembers DEF IInv, TypeOK
  <2>2. /\ instances \in [Replicas -> [Instances -> Instance]]
        /\ m2bSets \in [Replicas -> [Instances -> [Ballots -> [Replicas -> Values]]]]
        /\ lastExecuted \in [Replicas -> Instances \cup {-1}]
    BY DEF IInv, TypeOK, Values
  <2> DEFINE insts == [instances[r] EXCEPT ![i] = s.inst]
             sets == [m2bSets[r] EXCEPT ![i] = s.sets]
  <2>3. /\ instances' = [instances EXCEPT ![r] = insts]
        /\ m2bSets' = [m2bSets EXCEPT ![r] = sets]
        /\ \E e : lastExecuted' = [lastExecuted EXCEPT ![r] = e]
    BY DEF Conclude
  <2> HIDE DEF insts, sets
  <2> QED
    BY <2>1, <2>2, <2>3
<1>2. ASSUME NEW q \in quorum.members, NEW x \in quorum.members, q # x
      PROVE  net'[<<q, x>>] = net[<<q, x>>]
  <2>1. <<q, x>> \in Links /\ q # r /\ x # r
    BY <1>1, <1>2 DEF Links
  <2>2. net'[<<q, x>>] = nt[<<q, x>>]
    BY <2>1 DEF Conclude
  <2> QED
    BY <2>1, <2>2
<1>3. \A q \in quorum.members, j \in Instances, b \in Ballots :
        m2bSets'[q][j][b][q] = Own(q, j, b)
  BY <1>1 DEF Own
<1>4. VotesArrive'
  <2> SUFFICES ASSUME NEW q \in quorum.members, NEW x \in quorum.members,
                      NEW j \in Instances, NEW b \in Ballots,
                      m2bSets'[q][j][b][q] # None, m2bSets'[x][j][b][q] = None
               PROVE  q # x /\ \E k \in 1 .. Len(net'[<<q, x>>]) :
                        net'[<<q, x>>][k].inst = j /\ net'[<<q, x>>][k].bal = b
    BY DEF VotesArrive, Own
  <2>1. Own(q, j, b) # None /\ m2bSets[x][j][b][q] = None
    BY <1>1, <1>3
  <2>2. q # x /\ \E k \in 1 .. Len(net[<<q, x>>]) :
          net[<<q, x>>][k].inst = j /\ net[<<q, x>>][k].bal = b
    BY <2>1 DEF WakeInv, VotesArrive
  <2> QED
    BY <1>2, <2>2
<1>5. QuorumsHandled'
  <2> SUFFICES ASSUME NEW q \in quorum.members, NEW j \in Instances
               PROVE  /\ instances'[q][j].ballot # 0 =>
                           instances'[q][j].ballot = 1 /\ m2bSets'[q][j][1][q] # None
                      /\ \A b \in Ballots :
                           Voters(m2bSets'[q][j][b]) = quorum.members =>
                             IF Unanimous(m2bSets'[q][j][b]) THEN instances'[q][j].committed
                             ELSE instances'[q][j].ballot # 0
    BY DEF QuorumsHandled, Full, Voters, Unanimous, Own
  <2> QED
    BY <1>1 DEF WakeInv, QuorumsHandled, Full, Own
<1>6. TakenProposed'
  <2> SUFFICES ASSUME NEW q \in quorum.members
               PROVE  /\ IsFiniteSet(cmds'[q]) /\ next'[q] = Cardinality(cmds'[q])
                      /\ \A k \in 0 .. next'[q] - 1 : m2bSets'[q][k][0][q] # None
                      /\ \A c \in cmds'[q] : \E k \in Instances : m2bSets'[q][k][0][q] = c
    BY DEF TakenProposed, Own
  <2> QED
    BY <1>1 DEF WakeInv, TakenProposed, Own
<1>7. ExecutorStops'
  <2>1. panicked \subseteq panicked'
    BY DEF Conclude
  <2> SUFFICES ASSUME NEW q \in quorum.members, q \notin panicked',
                      lastExecuted'[q] + 1 \in Instances
               PROVE  ~ instances'[q][lastExecuted'[q] + 1].committed
    BY DEF ExecutorStops
  <2> QED
    BY <1>1, <2>1 DEF WakeInv, ExecutorStops
<1> QED
  BY <1>4, <1>5, <1>6, <1>7 DEF WakeInv

----------------------------------------------------------------------------
(***************************************************************************)
(* The two events.                                                         *)
(***************************************************************************)
LEMMA ProposesLive ==
  ASSUME IInv, FixedQuorum, WakeInv, NEW r \in Replicas, NEW c \in Commands,
         HandleProposal(r, c)
  PROVE  WakeInv'
<1> DEFINE i == next[r]
           K == Held(r, i) \cup {<<0, r>>}
           s == Settled(ProposalView(r, c), r, i)
<1>1. /\ i \in Instances /\ c \notin cmds[r] /\ i + 1 \in Nat /\ quorum' = quorum
      /\ cmds' = [cmds EXCEPT ![r] = @ \cup {c}]
      /\ next' = [next EXCEPT ![r] = i + 1]
      /\ Conclude(r, i, s, net)
  BY DEF HandleProposal, ProposalView, Instances
<1>2. /\ cmds \in [Replicas -> SUBSET Commands] /\ next \in [Replicas -> 0 .. MaxInstances]
      /\ i + 1 \in 0 .. MaxInstances /\ i <= i + 1
  BY <1>1 DEF IInv, TypeOK, Instances
<1>3. CASE r \in quorum.members
  <2>1. K \in SUBSET (Ballots \X Replicas) /\ Held(r, i) \subseteq K
    BY DEF Held, Ballots
  <2>2. ProposalView(r, c) \in LiveViews(r, i, i + 1, c, K)
    BY <1>1, <1>3, ProposedLives
  <2> HIDE DEF K
  <2>3. s \in LiveViews(r, i, i + 1, c, K) /\ s.grown = -1
    BY <1>1, <1>3, <2>1, <2>2, Ends
  <2>4. Left(net) /\ Remain(net, r, i, K)
    BY DEF Left, Remain, IInv, TypeOK
  <2>5. Grow(r, i + 1) /\ Takes(r, i, i + 1, c)
    BY <1>1, <1>2 DEF Grow, Takes
  <2> HIDE DEF i, s
  <2> QED
    BY <1>1, <1>3, <2>1, <2>3, <2>4, <2>5, ConcludesLive
<1>4. CASE r \notin quorum.members
  <2>1. \A q \in Replicas \ {r} : cmds'[q] = cmds[q] /\ next'[q] = next[q]
    BY <1>1, <1>2
  <2> HIDE DEF i, s
  <2> QED
    BY <1>1, <1>4, <2>1, ConcludesOutside
<1> QED
  BY <1>3, <1>4

LEMMA HandlesLive ==
  ASSUME IInv, FixedQuorum, WakeInv, NEW r \in Replicas, NEW q \in Replicas, HandleM2B(r, q)
  PROVE  WakeInv'
<1> DEFINE l == <<q, r>>
           m == Head(net[l])
           nt == [net EXCEPT ![l] = Tail(@)]
           z == net[l]
<1>1. /\ l \in Links /\ net[l] # << >> /\ q # r /\ net \in [Links -> Seq(M2B)]
      /\ quorum' = quorum /\ cmds' = cmds /\ next' = next
  BY DEF HandleM2B, Links, IInv, TypeOK
<1>2. /\ m \in M2B /\ m = z[1] /\ 1 \in 1 .. Len(z) /\ Tail(z) \in Seq(M2B)
      /\ \A k \in 1 .. Len(Tail(z)) : k + 1 \in 1 .. Len(z) /\ Tail(z)[k] = z[k + 1]
      /\ \A k \in 1 .. Len(z) : k # 1 =>
           k - 1 \in 1 .. Len(Tail(z)) /\ Tail(z)[k - 1] = z[k]
  <2>1. z \in Seq(M2B) /\ z # << >> /\ m = Head(z)
    BY <1>1
  <2> HIDE DEF z, m
  <2>2. /\ Head(z) \in M2B /\ Head(z) = z[1] /\ 1 \in 1 .. Len(z)
        /\ Tail(z) \in Seq(M2B) /\ Len(z) \in Nat /\ Len(Tail(z)) = Len(z) - 1
        /\ \A k \in 1 .. Len(z) - 1 : Tail(z)[k] = z[k + 1]
    BY <2>1
  <2>3. \A k \in 1 .. Len(z) : k # 1 => k - 1 \in 1 .. Len(z) - 1 /\ (k - 1) + 1 = k
    BY <2>2
  <2>4. \A k \in 1 .. Len(z) - 1 : k + 1 \in 1 .. Len(z)
    BY <2>2
  <2>5. \A k \in 1 .. Len(z) : k # 1 => Tail(z)[k - 1] = z[k]
    <3> SUFFICES ASSUME NEW k \in 1 .. Len(z), k # 1 PROVE Tail(z)[k - 1] = z[k]
      OBVIOUS
    <3>1. Tail(z)[k - 1] = z[(k - 1) + 1]
      BY <2>2, <2>3
    <3> QED
      BY <2>3, <3>1
  <2> QED
    BY <2>1, <2>2, <2>3, <2>4, <2>5
<1>3. PICK i \in Instances : i = m.inst
  BY <1>2 DEF M2B
<1> DEFINE n == next[r]
           p == Own(r, i, 0)
           v == Add(View(r, i), q, m.bal, m.val)
           s == Settled(v, r, i)
<1>4. Conclude(r, i, s, nt) /\ m.bal \in Ballots /\ m.val \in Commands
  BY <1>2, <1>3 DEF HandleM2B, M2B
<1>5. nt[l] = Tail(z) /\ \A a \in Links \ {l} : nt[a] = net[a]
  BY <1>1
<1>6. CASE r \in quorum.members
  <2> DEFINE K == IF q \in quorum.members THEN Held(r, i) \cup {<<m.bal, q>>}
                  ELSE Held(r, i)
  <2>1. K \in SUBSET (Ballots \X Replicas) /\ Held(r, i) \subseteq K
    BY <1>4 DEF Held
  <2>2. n \in Nat /\ Grow(r, n) /\ Takes(r, i, n, p)
    <3>1. cmds \in [Replicas -> SUBSET Commands] /\ next \in [Replicas -> 0 .. MaxInstances]
      BY DEF IInv, TypeOK
    <3>2. n \in Nat
      BY <3>1
    <3> QED
      BY <1>1, <3>1, <3>2 DEF Grow, Takes
  <2>3. View(r, i) \in LiveViews(r, i, n, p, Held(r, i)) /\ View(r, i).grown = -1
    BY <1>6, FirstLives DEF View
  <2>4. v \in LiveViews(r, i, n, p, K)
    <3>1. CASE q \in quorum.members
      <4>1. m.val = Own(q, i, m.bal)
        <5>1. \A k \in 1 .. Len(net[l]) :
                net[l][k].val = Own(q, net[l][k].inst, net[l][k].bal)
          BY <1>1, <3>1 DEF IInv, VotesOnce
        <5>2. z[1].val = Own(q, z[1].inst, z[1].bal)
          BY <1>2, <5>1
        <5> HIDE DEF m, z
        <5> QED
          BY <1>2, <1>3, <5>2
      <4>2. Held(r, i) \in SUBSET (Ballots \X Replicas)
        BY DEF Held
      <4> DEFINE mb == m.bal
                 mv == m.val
      <4>3. mb \in Ballots /\ mv \in Commands /\ mv = Own(q, i, mb)
        BY <1>4, <4>1
      <4> HIDE DEF n, p, m, mb, mv
      <4>4. Add(View(r, i), q, mb, mv) \in
              LiveViews(r, i, n, p, Held(r, i) \cup {<<mb, q>>})
        BY <1>1, <1>6, <2>2, <2>3, <3>1, <4>2, <4>3, TakenLives
      <4> QED
        BY <3>1, <4>4 DEF mb, mv
    <3>2. CASE q \notin quorum.members
      <4>1. v = View(r, i)
        BY <3>2 DEF Add, View
      <4> QED
        BY <2>3, <3>2, <4>1
    <3> QED
      BY <3>1, <3>2
  <2>5. Left(nt)
    <3>1. nt \in [Links -> Seq(M2B)]
      BY <1>1, <1>2
    <3>2. ASSUME NEW a \in Links, NEW k \in 1 .. Len(nt[a])
          PROVE  \E j \in 1 .. Len(net[a]) : nt[a][k] = net[a][j]
      <4>1. CASE a = l
        <5>1. nt[a] = Tail(z) /\ net[a] = z
          BY <1>5, <4>1
        <5> HIDE DEF nt, z
        <5>2. k + 1 \in 1 .. Len(net[a]) /\ nt[a][k] = net[a][k + 1]
          BY <1>2, <3>2, <5>1
        <5> QED
          BY <5>2
      <4>2. CASE a # l
        BY <1>5, <3>2, <4>2
      <4> QED
        BY <4>1, <4>2
    <3> QED
      BY <3>1, <3>2 DEF Left
  <2>6. Remain(nt, r, i, K)
    <3> SUFFICES ASSUME NEW a \in Links, a[1] \in quorum.members, NEW k \in 1 .. Len(net[a])
                 PROVE  \/ \E j \in 1 .. Len(nt[a]) : nt[a][j] = net[a][k]
                        \/ a[2] = r /\ net[a][k].inst = i /\ <<net[a][k].bal, a[1]>> \in K
      BY DEF Remain
    <3>1. CASE a # l
      BY <1>5, <3>1
    <3>2. CASE a = l /\ k = 1
      <4>1. /\ net[a] = z /\ a[1] = q /\ a[2] = r /\ net[a][k] = m
            /\ q \in quorum.members
        BY <1>2, <3>2
      <4>2. <<m.bal, q>> \in K
        BY <4>1
      <4> HIDE DEF m, K
      <4> QED
        BY <1>3, <4>1, <4>2
    <3>3. CASE a = l /\ k # 1
      <4>1. nt[a] = Tail(z) /\ net[a] = z
        BY <1>5, <3>3
      <4> HIDE DEF nt, z
      <4>2. k - 1 \in 1 .. Len(nt[a]) /\ nt[a][k - 1] = net[a][k]
        BY <1>2, <3>3, <4>1
      <4> QED
        BY <4>2
    <3> QED
      BY <3>1, <3>2, <3>3
  <2> HIDE DEF K, n, p, v
  <2>7. s \in LiveViews(r, i, n, p, K) /\ s.grown = -1
    BY <1>6, <2>1, <2>2, <2>4, Ends
  <2> HIDE DEF s, nt
  <2> QED
    BY <1>4, <1>6, <2>1, <2>2, <2>5, <2>6, <2>7, ConcludesLive
<1>7. CASE r \notin quorum.members
  <2>1. \A a \in Links : a[2] # r => nt[a] = net[a]
    BY <1>5
  <2>2. \A x \in Replicas \ {r} : cmds'[x] = cmds[x] /\ next'[x] = next[x]
    BY <1>1
  <2> HIDE DEF nt, s
  <2> QED
    BY <1>1, <1>4, <1>7, <2>1, <2>2, ConcludesOutside
<1> QED
  BY <1>6, <1>7

----------------------------------------------------------------------------
(***************************************************************************)
(* The invariant, and what it says once nothing is under way.              *)
(***************************************************************************)
LEMMA WakesAtFirst == Init /\ FixedQuorum => WakeInv
<1> SUFFICES ASSUME Init, FixedQuorum PROVE WakeInv
  OBVIOUS
<1>1. quorum.members \subseteq Replicas /\ 0 \in Ballots
  BY QuorumMembers DEF Init, Ballots
<1>2. \A r, q \in Replicas, i \in Instances, b \in Ballots : m2bSets[r][i][b][q] = None
  BY DEF Init
<1>3. VotesArrive
  BY <1>1, <1>2 DEF VotesArrive, Own
<1>4. QuorumsHandled
  <2> SUFFICES ASSUME NEW r \in quorum.members, NEW i \in Instances
               PROVE  /\ instances[r][i].ballot = 0
                      /\ \A b \in Ballots : ~ Full(m2bSets[r][i][b])
    BY DEF QuorumsHandled
  <2>1. instances[r][i].ballot = 0
    BY <1>1 DEF Init
  <2>2. \A b \in Ballots : r \notin Voters(m2bSets[r][i][b])
    BY <1>1, <1>2 DEF Voters
  <2> QED
    BY <2>1, <2>2 DEF Full
<1>5. TakenProposed
  <2>1. IsFiniteSet({}) /\ Cardinality({}) = 0
    BY FS_EmptySet
  <2>2. \A r \in quorum.members : cmds[r] = {} /\ next[r] = 0
    BY <1>1 DEF Init
  <2> QED
    BY <2>1, <2>2 DEF TakenProposed
<1>6. ExecutorStops
  <2>1. \A r \in Replicas, i \in Instances : ~ instances[r][i].committed
    BY DEF Init
  <2> QED
    BY <1>1, <2>1 DEF ExecutorStops
<1> QED
  BY <1>3, <1>4, <1>5, <1>6 DEF WakeInv

\* Where the quorum is fixed, what a member waits for is on its way: every
\* step keeps the invariant.
THEOREM NoVoteLost == Spec => []FullInv
<1>1. FullInv /\ [Next]_vars => FullInv'
  <2> SUFFICES ASSUME FullInv, [Next]_vars PROVE FullInv'
    OBVIOUS
  <2>1. IInv /\ (FixedQuorum => WakeInv)
    BY DEF FullInv
  <2>2. CASE Next
    <3>1. IInv' /\ quorum' = quorum
      BY <2>1, <2>2, Proposes, Handles2B DEF Next, HandleProposal, HandleM2B
    <3>2. ASSUME FixedQuorum PROVE WakeInv'
      BY <2>1, <2>2, <3>2, ProposesLive, HandlesLive DEF Next
    <3> QED
      BY <3>1, <3>2 DEF FullInv, FixedQuorum
  <2>3. CASE UNCHANGED vars
    <3>1. IInv'
      BY <2>1, <2>3, Idling
    <3>2. FixedQuorum => WakeInv'
      BY <2>1, <2>3 DEF vars, WakeInv, VotesArrive, QuorumsHandled, Full, Voters, Unanimous,
                        TakenProposed, ExecutorStops, Own
    <3>3. FixedQuorum' <=> FixedQuorum
      BY <2>3 DEF vars, FixedQuorum
    <3> QED
      BY <3>1, <3>2, <3>3 DEF FullInv
  <2> QED
    BY <2>2, <2>3
<1>2. Init => FullInv
  BY Begins, WakesAtFirst DEF FullInv
<1> QED
  BY <1>1, <1>2, PTL DEF Spec

\* Once nothing is under way and no replica has died, every instance opened
\* is committed at every member.
LEMMA IdleCommitted ==
  ASSUME IInv, FixedQuorum, WakeInv, Idle, NEW r \in quorum.members,
         NEW i \in 0 .. next[r] - 1
  PROVE  i \in Instances /\ instances[r][i].committed
<1>1. /\ quorum.members \subseteq Replicas /\ 0 \in Ballots
      /\ VotesOnce /\ RecoveredAlike
      /\ VotesArrive /\ QuorumsHandled /\ TakenProposed
      /\ next[r] \in 0 .. MaxInstances
  BY QuorumMembers DEF IInv, WakeInv, TypeOK, Ballots
<1>2. i \in Instances
  BY <1>1 DEF Instances
<1>3. \A q \in quorum.members : next[q] = next[r] /\ Own(q, i, 0) # None
  BY <1>1 DEF TakenProposed, Idle
<1>4. ASSUME NEW b \in Ballots, \A q \in quorum.members : Own(q, i, b) # None,
             NEW x \in quorum.members
      PROVE  /\ Full(m2bSets[x][i][b])
             /\ \A q \in quorum.members : m2bSets[x][i][b][q] = Own(q, i, b)
  <2>1. ASSUME NEW q \in quorum.members
        PROVE  m2bSets[x][i][b][q] # None
    <3> SUFFICES ASSUME m2bSets[x][i][b][q] = None PROVE FALSE
      OBVIOUS
    <3>1. q # x /\ \E k \in 1 .. Len(net[<<q, x>>]) : TRUE
      BY <1>1, <1>2, <1>4 DEF VotesArrive
    <3>2. <<q, x>> \in Links
      BY <1>1, <3>1 DEF Links
    <3>3. net[<<q, x>>] = << >>
      BY <3>2 DEF Idle
    <3> QED
      BY <3>1, <3>3
  <2>2. \A q \in Replicas : m2bSets[x][i][b][q] # None =>
          q \in quorum.members /\ m2bSets[x][i][b][q] = Own(q, i, b)
    BY <1>1, <1>2 DEF VotesOnce
  <2> QED
    BY <1>1, <2>1, <2>2 DEF Full, Voters
<1>5. CASE Unanimous(m2bSets[r][i][0])
  BY <1>1, <1>2, <1>3, <1>4, <1>5 DEF QuorumsHandled
<1>6. CASE ~ Unanimous(m2bSets[r][i][0])
  <2>1. ASSUME NEW q \in quorum.members
        PROVE  1 \in Ballots /\ Own(q, i, 1) # None
    <3>1. ~ Unanimous(m2bSets[q][i][0])
      <4>1. \A x \in quorum.members : m2bSets[q][i][0][x] = m2bSets[r][i][0][x]
        BY <1>1, <1>3, <1>4
      <4>2. /\ Voters(m2bSets[q][i][0]) = quorum.members
            /\ Voters(m2bSets[r][i][0]) = quorum.members
        BY <1>1, <1>3, <1>4 DEF Full
      <4> QED
        BY <1>6, <4>1, <4>2 DEF Unanimous
    <3>2. instances[q][i].ballot # 0
      BY <1>1, <1>2, <1>3, <1>4, <3>1 DEF QuorumsHandled
    <3>3. instances[q][i].ballot = 1 /\ Own(q, i, 1) # None
      BY <1>1, <1>2, <3>2 DEF QuorumsHandled
    <3>4. instances[q][i].ballot \in Ballots
      BY <1>1, <1>2 DEF IInv, TypeOK, Instance
    <3> QED
      BY <3>3, <3>4
  <2>2. 1 \in Ballots
    BY <2>1
  <2>3. Full(m2bSets[r][i][1])
    BY <1>4, <2>1, <2>2
  <2>4. Unanimous(m2bSets[r][i][1])
    <3>1. \A q \in quorum.members : m2bSets[r][i][1][q] = Own(Top, i, 0)
      BY <1>1, <1>2, <1>4, <2>1, <2>2 DEF RecoveredAlike
    <3> QED
      BY <2>3, <3>1 DEF Unanimous, Full
  <2> QED
    BY <1>1, <1>2, <2>2, <2>3, <2>4 DEF QuorumsHandled
<1> QED
  BY <1>2, <1>5, <1>6

\* In a group with a fixed quorum collisions are resolved: once nothing is
\* under way, and if no replica has died, every member has executed every
\* command.
THEOREM CollisionsResolvedHolds == Spec /\ FixedQuorum => []CollisionsResolved
<1>1. FullInv /\ FixedQuorum => CollisionsResolved
  <2> SUFFICES ASSUME FullInv, FixedQuorum, Idle, panicked = {},
                      NEW r \in quorum.members, NEW c \in Commands
               PROVE  \E i \in Instances : executed[r][i] = c
    BY DEF CollisionsResolved
  <2>1. IInv /\ WakeInv
    BY DEF FullInv
  <2>2. /\ quorum.members \subseteq Replicas
        /\ VotesReached /\ CommitsTop /\ ExecutesCommitted /\ TakenProposed
        /\ ExecutorStops /\ 0 \in Ballots
    BY <2>1, QuorumMembers DEF IInv, WakeInv, TypeOK, Ballots
  <2>3. Top \in quorum.members
    BY <2>2, Greatest DEF Top
  <2>4. cmds[Top] = Commands /\ next[Top] = next[r]
    BY <2>2, <2>3 DEF Idle, TakenProposed
  <2>5. PICK i \in Instances : Own(Top, i, 0) = c
    BY <2>2, <2>3, <2>4 DEF TakenProposed
  <2>6. i < next[r] /\ i \in Nat /\ next[r] \in Nat
    <3>1. Own(Top, i, 0) # None
      BY <2>5
    <3>2. i < next[Top]
      BY <2>2, <2>3, <3>1 DEF VotesReached
    <3>3. next \in [Replicas -> 0 .. MaxInstances]
      BY <2>1 DEF IInv, TypeOK
    <3> QED
      BY <2>2, <2>4, <3>2, <3>3 DEF Instances
  <2>7. i <= lastExecuted[r]
    <3>1. lastExecuted[r] \in Instances \cup {-1}
      BY <2>1, <2>2 DEF IInv, TypeOK
    <3> SUFFICES ASSUME lastExecuted[r] < i PROVE FALSE
      BY <2>6, <3>1 DEF Instances
    <3>2. lastExecuted[r] + 1 \in 0 .. next[r] - 1
      BY <2>6, <3>1 DEF Instances
    <3>3. /\ lastExecuted[r] + 1 \in Instances
          /\ instances[r][lastExecuted[r] + 1].committed
      BY <2>1, <3>2, IdleCommitted
    <3> QED
      BY <2>2, <3>3 DEF ExecutorStops
  <2>8. i \in 0 .. lastExecuted[r]
    <3>1. lastExecuted[r] \in Int
      BY <2>1, <2>2 DEF IInv, TypeOK, Instances
    <3> QED
      BY <2>6, <2>7, <3>1
  <2>9. instances[r][i].committed /\ executed[r][i] = instances[r][i].value
    BY <2>2, <2>8 DEF ExecutesCommitted
  <2> QED
    BY <2>2, <2>5, <2>9 DEF CommitsTop
<1> QED
  BY NoVoteLost, StaysFixed, <1>1, PTL

============================================================================
