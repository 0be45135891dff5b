---------------------------- MODULE PaxosProofs ----------------------------
(***************************************************************************)
(* Proofs about Paxos.  For every number of replicas, whoever leads, times *)
(* out and recovers, IInv is inductive, so that the types are kept, no     *)
(* record is overwritten, ballots have one owner and clients are kept.     *)
(*                                                                         *)
(* With one leader that is never replaced, executors that never give up    *)
(* waiting and at most six replicas, SteadyInv is inductive, so that the   *)
(* replicas agree, what is executed is backed by a quorum and clients are  *)
(* answered for their own batches.                                         *)
(***************************************************************************)
EXTENDS Paxos, FiniteSetTheorems, TLAPS

USE NAssumption, BoundAssumption, ValueAssumption, ReplicaAssumption

----------------------------------------------------------------------------
\* What the quotient and the remainder of a division are.
LEMMA Division ==
  ASSUME NEW n \in Nat \ {0}, NEW a \in Int
  PROVE  a = n * (a \div n) + (a % n) /\ a % n \in 0 .. n - 1 /\ a \div n \in Int
  BY SMT

\* No multiple of n but 0 lies between -n and n.
LEMMA NoMultipleBetween ==
  ASSUME NEW n \in Nat \ {0}, NEW k \in Int, n * k < n, - n < n * k
  PROVE  k = 0
<1>1. CASE k >= 1
  <2>1. n * k >= n  BY <1>1, SMT
  <2> QED  BY <2>1
<1>2. CASE k <= -1
  <2>1. n * k <= - n  BY <1>2, SMT
  <2> QED  BY <2>1
<1> QED  BY <1>1, <1>2

\* Two numbers of the same residue are at least n apart.
LEMMA SameResidue ==
  ASSUME NEW n \in Nat \ {0}, NEW a \in Int, NEW b \in Int,
         a % n = b % n, a <= b, b < a + n
  PROVE  a = b
<1> DEFINE x == a \div n  y == b \div n
<1>1. a = n * x + (a % n) /\ b = n * y + (b % n) /\ x \in Int /\ y \in Int /\ a % n \in Int
  BY Division
<1>2. b - a = n * y - n * x BY <1>1
<1> HIDE DEF x, y
<1>3. n * (y - x) = n * y - n * x  BY <1>1, SMT
<1>4. y - x = 0  BY NoMultipleBetween, <1>1, <1>2, <1>3
<1> QED  BY <1>1, <1>4

\* Every n consecutive numbers have one of each residue.
LEMMA ResidueInReach ==
  ASSUME NEW n \in Nat \ {0}, NEW r \in 0 .. n - 1, NEW lo \in Int
  PROVE  \E b \in lo .. lo + n - 1 : b % n = r
<1> DEFINE d == (r - lo) \div n
           m == (r - lo) % n
           b == lo + m
           e == b \div n
<1>0. r - lo \in Int
  OBVIOUS
<1>1. r - lo = n * d + m /\ m \in 0 .. n - 1 /\ d \in Int
  BY <1>0, Division
<1>2. b \in Int BY <1>1
<1>3. b = n * e + (b % n) /\ b % n \in 0 .. n - 1 /\ e \in Int
  BY <1>2, Division
<1> HIDE DEF d, m, e
<1>4. b = r - n * d  BY <1>1
<1>5. r - (b % n) = n * e + n * d  BY <1>1, <1>3, <1>4
<1>6. n * (e + d) = n * e + n * d  BY <1>1, <1>3, SMT
<1>7. e + d = 0  BY <1>1, <1>3, <1>5, <1>6, NoMultipleBetween
<1>8. b % n = r  BY <1>1, <1>3, <1>5, <1>6, <1>7
<1>9. b \in lo .. lo + n - 1
  BY <1>1
<1> HIDE DEF b
<1> QED  BY <1>8, <1>9

----------------------------------------------------------------------------
\* The replicas and their ballots.
LEMMA OwnResidue ==
  ASSUME NEW r \in Replicas
  PROVE  r \in Nat /\ r % N = r
<1>1. r \in 0 .. N - 1 /\ r \in Int /\ N \in Nat \ {0}
  BY DEF Replicas
<1>2. r = N * (r \div N) + (r % N) /\ r % N \in 0 .. N - 1 /\ r \div N \in Int
  BY <1>1, Division
<1>3. N * (r \div N) = r - (r % N)
  BY <1>1, <1>2
<1>4. r \div N = 0
  BY <1>1, <1>2, <1>3, NoMultipleBetween
<1> QED
  BY <1>1, <1>3, <1>4, <1>2

\* makeBallot() finds a ballot, and it is the replica's own.
LEMMA MadeBallotOwn ==
  ASSUME TypeOK, NEW r \in Replicas, NEW m \in Ballots
  PROVE  MadeBallot(r, m) \in Nat /\ MadeBallot(r, m) % N = r
<1>1. CASE ~ isLeader[r]
  BY <1>1, OwnResidue DEF MadeBallot
<1>2. CASE isLeader[r]
  <2> DEFINE d == defaultBallot[r][r]
             lo == Larger(0, Larger(d, m))
             fits(b) == /\ b >= d /\ b >= m
                        /\ \A a \in 0 .. b - 1 : a % N = r => a < d \/ a < m
             owned == {n \in 0 .. MaxBallot + N : n % N = r}
  <2>1. d \in Ballots
    BY DEF TypeOK
  <2>2. /\ lo \in 0 .. MaxBallot /\ lo >= d /\ lo >= m
        /\ lo = 0 \/ lo = d \/ lo = m
    BY <2>1 DEF Ballots, Larger
  <2>3. lo \in Int /\ N \in Nat \ {0} /\ r \in 0 .. N - 1
    BY <2>2 DEF Replicas
  <2> HIDE DEF d, lo
  <2>4. PICK b \in lo .. lo + N - 1 : b % N = r
    BY <2>3, ResidueInReach
  <2>5. b \in owned
    BY <2>2, <2>3, <2>4
  <2>6. ASSUME NEW a \in 0 .. b - 1, a % N = r
        PROVE  a < d \/ a < m
    <3>1. a \in Int /\ b \in Int /\ a <= b
      BY <2>2, <2>3, <2>4
    <3>2. CASE a >= lo
      <4>1. b < a + N
        BY <3>2, <3>1, <2>3, <2>4
      <4>2. a = b
        BY <4>1, <3>1, <2>3, <2>4, <2>6, SameResidue
      <4> QED
        BY <4>2, <2>6, <3>1
    <3>3. CASE a < lo
      BY <3>3, <3>1, <2>2, <2>6
    <3> QED
      BY <3>1, <3>2, <3>3, <2>3
  <2>7. fits(b)
    BY <2>1, <2>2, <2>3, <2>4, <2>6 DEF Ballots
  <2>8. MadeBallot(r, m) = CHOOSE x \in owned : fits(x)
    BY <1>2 DEF MadeBallot, d
  <2> HIDE DEF owned, fits
  <2>9. MadeBallot(r, m) \in owned
    BY <2>5, <2>7, <2>8
  <2> QED
    BY <2>9 DEF owned
<1> QED
  BY <1>1, <1>2

\* A ballot is not below its owner's first.
LEMMA BallotAboveOwner ==
  ASSUME NEW r \in Replicas, NEW b \in Nat, b % N = r
  PROVE  r <= b
<1>1. r \in 0 .. N - 1 /\ r % N = r /\ N \in Nat \ {0}
  BY OwnResidue DEF Replicas
<1>2. CASE b < r
  <2>1. b \in Int /\ r \in Int /\ b % N = r % N /\ b <= r /\ r < b + N
    BY <1>1, <1>2
  <2>2. b = r
    BY <1>1, <2>1, SameResidue
  <2> QED
    BY <1>1, <1>2, <2>2
<1> QED
  BY <1>1, <1>2

\* The larger of two ballots.
LEMMA LargerOne ==
  ASSUME NEW a \in Ballots, NEW b \in Ballots
  PROVE  Larger(a, b) \in Ballots
BY DEF Larger, Ballots

----------------------------------------------------------------------------
\* Sequences, at their ends.
LEMMA Appended ==
  ASSUME NEW S, NEW s \in Seq(S), NEW x \in S
  PROVE  /\ Append(s, x) \in Seq(S) /\ Len(Append(s, x)) = Len(s) + 1
         /\ \A k \in 1 .. Len(s) : Append(s, x)[k] = s[k]
         /\ Append(s, x)[Len(s) + 1] = x
BY SMT

LEMMA Shifted ==
  ASSUME NEW S, NEW s \in Seq(S), s # << >>
  PROVE  /\ Tail(s) \in Seq(S) /\ Len(s) \in Nat /\ Len(s) >= 1
         /\ Len(Tail(s)) = Len(s) - 1
         /\ \A k \in 1 .. Len(Tail(s)) : Tail(s)[k] = s[k + 1]
         /\ Head(s) = s[1] /\ Head(s) \in S
BY SMT

\* A network of queues of the right messages, and the messages in a queue.
Network(n) ==
  DOMAIN n = Links /\ \A l \in Links : n[l] \in Seq(Message(l[3]))
Queued(n, l) == {n[l][k] : k \in 1 .. Len(n[l])}

\* Taking a message from a link leaves the others.
LEMMA NetTaken ==
  ASSUME Network(net), NEW l \in Links, net[l] # << >>
  PROVE  /\ Network(Taken(l))
         /\ Head(net[l]) \in OnLink(l) /\ Head(net[l]) \in Message(l[3])
         /\ \A x \in Links : Queued(Taken(l), x) \subseteq OnLink(x)
<1>1. net[l] \in Seq(Message(l[3]))
  BY DEF Network
<1>2. /\ Tail(net[l]) \in Seq(Message(l[3])) /\ Len(net[l]) \in Nat
      /\ Len(net[l]) >= 1 /\ Len(Tail(net[l])) = Len(net[l]) - 1
      /\ \A k \in 1 .. Len(Tail(net[l])) : Tail(net[l])[k] = net[l][k + 1]
      /\ Head(net[l]) = net[l][1] /\ Head(net[l]) \in Message(l[3])
  <2> DEFINE s == net[l]
             S == Message(l[3])
  <2>1. s \in Seq(S) /\ s # << >>
    BY <1>1
  <2> HIDE DEF s, S
  <2>2. /\ Tail(s) \in Seq(S) /\ Len(s) \in Nat /\ Len(s) >= 1
        /\ Len(Tail(s)) = Len(s) - 1
        /\ \A k \in 1 .. Len(Tail(s)) : Tail(s)[k] = s[k + 1]
        /\ Head(s) = s[1] /\ Head(s) \in S
    BY <2>1, Shifted
  <2> QED
    BY <2>2 DEF s, S
<1>3. /\ DOMAIN Taken(l) = Links /\ Taken(l)[l] = Tail(net[l])
      /\ \A x \in Links : x # l => Taken(l)[x] = net[x]
  BY DEF Taken, Network
<1>4. Network(Taken(l))
  BY <1>2, <1>3 DEF Network
<1>5. Head(net[l]) \in OnLink(l)
  BY <1>2 DEF OnLink
<1>6. Queued(Taken(l), l) \subseteq OnLink(l)
  BY <1>2, <1>3 DEF Queued, OnLink
<1>7. \A x \in Links : x # l => Queued(Taken(l), x) = OnLink(x)
  BY <1>3 DEF Queued, OnLink
<1> QED
  BY <1>2, <1>4, <1>5, <1>6, <1>7

\* Sending one message.
LEMMA NetSent ==
  ASSUME NEW n, Network(n), NEW r \in Replicas, NEW q \in Replicas, NEW t \in Types,
         r # q, NEW m \in Message(t)
  PROVE  /\ Network(Sent(n, r, q, t, m))
         /\ \A x \in Links : \A y \in Queued(Sent(n, r, q, t, m), x) :
              y \in Queued(n, x) \/ (x = <<r, q, t>> /\ y = m)
<1> DEFINE l == <<r, q, t>>
           s == Sent(n, r, q, t, m)
<1>1. l \in Links /\ l[3] = t
  BY DEF Links
<1>2. n[l] \in Seq(Message(t))
  BY <1>1 DEF Network
<1>3. /\ Append(n[l], m) \in Seq(Message(t)) /\ Len(n[l]) \in Nat
      /\ Len(Append(n[l], m)) = Len(n[l]) + 1
      /\ \A k \in 1 .. Len(n[l]) : Append(n[l], m)[k] = n[l][k]
      /\ Append(n[l], m)[Len(n[l]) + 1] = m
  BY <1>2, Appended
<1>4. /\ DOMAIN s = Links /\ s[l] = Append(n[l], m)
      /\ \A x \in Links : x # l => s[x] = n[x]
  BY <1>1 DEF Sent, Network
<1> HIDE DEF l, s
<1>5. Network(s)
  BY <1>1, <1>3, <1>4 DEF Network
<1>6. \A y \in Queued(s, l) : y \in Queued(n, l) \/ y = m
  BY <1>3, <1>4 DEF Queued
<1>7. \A x \in Links : x # l => Queued(s, x) = Queued(n, x)
  BY <1>4 DEF Queued
<1> QED
  BY <1>5, <1>6, <1>7 DEF l, s

\* Sending a message to all.
LEMMA NetBroadcast ==
  ASSUME NEW n, Network(n), NEW r \in Replicas, NEW t \in Types, NEW m \in Message(t)
  PROVE  /\ Network(Broadcast(n, r, t, m))
         /\ \A x \in Links : \A y \in Queued(Broadcast(n, r, t, m), x) :
              y \in Queued(n, x) \/ (x[1] = r /\ x[3] = t /\ y = m)
<1> DEFINE s == Broadcast(n, r, t, m)
<1>1. /\ DOMAIN s = Links
      /\ \A x \in Links : s[x] = IF x[1] = r /\ x[3] = t
                                THEN Append(n[x], m) ELSE n[x]
  BY DEF Broadcast
<1> HIDE DEF s
<1>2. ASSUME NEW x \in Links, x[1] = r, x[3] = t
      PROVE  /\ s[x] \in Seq(Message(x[3]))
             /\ \A y \in Queued(s, x) : y \in Queued(n, x) \/ y = m
  <2>1. n[x] \in Seq(Message(t))
    BY <1>2 DEF Network
  <2>2. /\ Append(n[x], m) \in Seq(Message(t)) /\ Len(n[x]) \in Nat
        /\ Len(Append(n[x], m)) = Len(n[x]) + 1
        /\ \A k \in 1 .. Len(n[x]) : Append(n[x], m)[k] = n[x][k]
        /\ Append(n[x], m)[Len(n[x]) + 1] = m
    BY <2>1, Appended
  <2>3. s[x] = Append(n[x], m)
    BY <1>1, <1>2
  <2> QED
    BY <2>2, <2>3, <1>2 DEF Queued
<1>3. ASSUME NEW x \in Links, ~ (x[1] = r /\ x[3] = t)
      PROVE  s[x] \in Seq(Message(x[3])) /\ Queued(s, x) = Queued(n, x)
  <2>1. s[x] = n[x]
    BY <1>1, <1>3
  <2> QED
    BY <2>1 DEF Queued, Network
<1>4. Network(s)
  BY <1>1, <1>2, <1>3 DEF Network
<1>5. \A x \in Links : \A y \in Queued(s, x) :
        y \in Queued(n, x) \/ (x[1] = r /\ x[3] = t /\ y = m)
  BY <1>2, <1>3
<1> QED
  BY <1>4, <1>5 DEF s

\* r takes a message of type t from q.
LEMMA Taking ==
  ASSUME TypeOK, NEW r \in Replicas, NEW q \in Replicas, NEW t \in Types,
         Receives(r, q, t)
  PROVE  /\ r # q /\ <<q, r, t>> \in Links
         /\ Head(net[<<q, r, t>>]) \in Message(t)
         /\ Head(net[<<q, r, t>>]) \in OnLink(<<q, r, t>>)
         /\ Network(Taken(<<q, r, t>>))
         /\ \A x \in Links : Queued(Taken(<<q, r, t>>), x) \subseteq OnLink(x)
<1>1. <<q, r, t>> \in Links /\ net[<<q, r, t>>] # << >> /\ <<q, r, t>>[3] = t
  BY DEF Receives
<1>2. Network(net)
  BY DEF TypeOK, Network
<1>3. r # q
  BY <1>1 DEF Links
<1> QED
  BY <1>1, <1>2, <1>3, NetTaken

\* r answers q with a message of type u, or tells all its peers.
LEMMA NetAnswered ==
  ASSUME TypeOK, NEW r \in Replicas, NEW q \in Replicas, NEW t \in Types,
         Receives(r, q, t), NEW u \in Types, NEW m \in Message(u)
  PROVE  /\ Network(Sent(Taken(<<q, r, t>>), r, q, u, m))
         /\ \A x \in Links : \A y \in Queued(Sent(Taken(<<q, r, t>>), r, q, u, m), x) :
              y \in OnLink(x) \/ (x = <<r, q, u>> /\ y = m)
<1>1. /\ r # q /\ Network(Taken(<<q, r, t>>))
      /\ \A x \in Links : Queued(Taken(<<q, r, t>>), x) \subseteq OnLink(x)
  BY Taking
<1> DEFINE n == Taken(<<q, r, t>>)
<1> HIDE DEF n
<1>2. /\ Network(Sent(n, r, q, u, m))
      /\ \A x \in Links : \A y \in Queued(Sent(n, r, q, u, m), x) :
           y \in Queued(n, x) \/ (x = <<r, q, u>> /\ y = m)
  BY <1>1, NetSent DEF n
<1> QED
  BY <1>1, <1>2 DEF n

LEMMA NetTold ==
  ASSUME TypeOK, NEW r \in Replicas, NEW q \in Replicas, NEW t \in Types,
         Receives(r, q, t), NEW u \in Types, NEW m \in Message(u)
  PROVE  /\ Network(Broadcast(Taken(<<q, r, t>>), r, u, m))
         /\ \A x \in Links :
              \A y \in Queued(Broadcast(Taken(<<q, r, t>>), r, u, m), x) :
                y \in OnLink(x) \/ (x[1] = r /\ x[3] = u /\ y = m)
<1>1. /\ Network(Taken(<<q, r, t>>))
      /\ \A x \in Links : Queued(Taken(<<q, r, t>>), x) \subseteq OnLink(x)
  BY Taking
<1> DEFINE n == Taken(<<q, r, t>>)
<1> HIDE DEF n
<1>2. /\ Network(Broadcast(n, r, u, m))
      /\ \A x \in Links : \A y \in Queued(Broadcast(n, r, u, m), x) :
           y \in Queued(n, x) \/ (x[1] = r /\ x[3] = u /\ y = m)
  BY <1>1, NetBroadcast DEF n
<1> QED
  BY <1>1, <1>2 DEF n

----------------------------------------------------------------------------
\* Records and bookkeeping.
LEMMA NilApart ==
  NoInstance \notin Instance /\ NoBookkeeping \notin Bookkeeping
<1>1. DOMAIN NoInstance = {"status"} /\ DOMAIN NoBookkeeping = {"lastTried"}
  BY DEF NoInstance, NoBookkeeping
<1>2. /\ \A x \in Instance : "cmds" \in DOMAIN x
      /\ \A x \in Bookkeeping : "cmds" \in DOMAIN x
  BY DEF Instance, Bookkeeping
<1> QED
  BY <1>1, <1>2

\* The tables of records, bookkeeping and default ballots.
LEMMA InstsUpdated ==
  ASSUME TypeOK, NEW r \in Replicas, NEW i \in Instances, NEW x \in Instance
  PROVE  /\ [insts EXCEPT ![r][i] = x]
              \in [Replicas -> [Instances -> Instance \cup {NoInstance}]]
         /\ \A s \in Replicas, j \in Instances :
              [insts EXCEPT ![r][i] = x][s][j] =
                IF s = r /\ j = i THEN x ELSE insts[s][j]
<1>1. insts \in [Replicas -> [Instances -> Instance \cup {NoInstance}]]
  BY DEF TypeOK
<1> QED
  BY <1>1

LEMMA LbsUpdated ==
  ASSUME TypeOK, NEW r \in Replicas, NEW i \in Instances, NEW y \in Bookkeeping
  PROVE  /\ [lbs EXCEPT ![r][i] = y]
              \in [Replicas -> [Instances -> Bookkeeping \cup {NoBookkeeping}]]
         /\ \A s \in Replicas, j \in Instances :
              [lbs EXCEPT ![r][i] = y][s][j] =
                IF s = r /\ j = i THEN y ELSE lbs[s][j]
<1>1. lbs \in [Replicas -> [Instances -> Bookkeeping \cup {NoBookkeeping}]]
  BY DEF TypeOK
<1> QED
  BY <1>1

LEMMA DefaultUpdated ==
  ASSUME TypeOK, NEW r \in Replicas, NEW q \in Replicas, NEW b \in Ballots
  PROVE  [defaultBallot EXCEPT ![r][q] = b] \in [Replicas -> [Replicas -> Ballots]]
<1>1. defaultBallot \in [Replicas -> [Replicas -> Ballots]]
  BY DEF TypeOK
<1> QED
  BY <1>1

\* A record opened has the right form.
LEMMA OpenedTyped ==
  ASSUME TypeOK, NEW r \in Replicas, NEW i \in Instances
  PROVE  /\ InstanceOrOpened(r, i) \in Instance
         /\ BookkeepingOrNew(r, i) \in Bookkeeping
         /\ Known(r, i) => insts[r][i] \in Instance /\ InstanceOrOpened(r, i) = insts[r][i]
         /\ Bookkept(r, i) => lbs[r][i] \in Bookkeeping
         /\ OwnBatch(r, i) \in Commands \cup {None}
<1>1. /\ Known(r, i) => insts[r][i] \in Instance
      /\ Bookkept(r, i) => lbs[r][i] \in Bookkeeping
  BY DEF TypeOK, Known, Bookkept
<1>2. /\ defaultBallot[r][r] \in Ballots /\ None \in Values
      /\ {"PREPARING"} \subseteq Status /\ -1 \in Ballots
  BY DEF TypeOK, Values, Status, Ballots
<1>3. Opened(defaultBallot[r][r]) \in Instance
  BY <1>2 DEF Opened, Instance
<1>4. NewBookkeeping(r, i) \in Bookkeeping
  BY <1>2 DEF NewBookkeeping, Bookkeeping
<1>5. OwnBatch(r, i) \in Commands \cup {None}
  BY <1>1 DEF OwnBatch, Bookkept, Bookkeeping
<1> QED
  BY <1>1, <1>3, <1>4, <1>5 DEF InstanceOrOpened, BookkeepingOrNew, Bookkept

\* Records are kept, and lie where crtInstance says.
LEMMA RecordsStay ==
  ASSUME IInv,
         crtInstance' \in [Replicas -> Instances \cup {-1}],
         \A s \in Replicas : crtInstance[s] <= crtInstance'[s],
         \A s \in Replicas, j \in Instances :
           Known(s, j) => insts'[s][j] # NoInstance,
         \A s \in Replicas, j \in Instances :
           insts'[s][j] # NoInstance => Known(s, j) \/ j <= crtInstance'[s],
         \A s \in Replicas, j \in Instances :
           lbs'[s][j] # NoBookkeeping =>
             \/ Bookkept(s, j) /\ lbs'[s][j].lastTried = lbs[s][j].lastTried
             \/ insts'[s][j] # NoInstance /\ lbs'[s][j].lastTried % N = s,
         \A s \in Replicas : \A j \in toRecover'[s] :
           j \in toRecover[s] \/ j <= crtInstance[s],
         toRecover' \in [Replicas -> SUBSET Instances]
  PROVE  NoOverwrite' /\ BookkeepingKnown' /\ RecoversOpened'
<1>1. /\ crtInstance \in [Replicas -> Instances \cup {-1}]
      /\ Instances \cup {-1} \subseteq Int
      /\ toRecover \in [Replicas -> SUBSET Instances]
  BY DEF IInv, TypeOK, Instances
<1>2. \A s \in Replicas : /\ crtInstance[s] \in Int /\ crtInstance'[s] \in Int
                          /\ crtInstance[s] <= crtInstance'[s]
  BY <1>1
<1>3. ASSUME NEW s \in Replicas, NEW j \in Instances, insts'[s][j] # NoInstance
      PROVE  j <= crtInstance'[s]
  <2>1. CASE Known(s, j)
    <3>1. j <= crtInstance[s]
      BY <2>1 DEF IInv, NoOverwrite
    <3> QED
      BY <3>1, <1>1, <1>2
  <2> QED
    BY <2>1, <1>3
<1>4. NoOverwrite'
  BY <1>3 DEF NoOverwrite, Known
<1>5. ASSUME NEW s \in Replicas, NEW j \in Instances, lbs'[s][j] # NoBookkeeping
      PROVE  insts'[s][j] # NoInstance /\ lbs'[s][j].lastTried % N = s
  <2>1. Bookkept(s, j) => Known(s, j) /\ lbs[s][j].lastTried % N = s
    BY DEF IInv, BookkeepingKnown
  <2> QED
    BY <2>1, <1>5
<1>6. BookkeepingKnown'
  BY <1>5 DEF BookkeepingKnown, Bookkept, Known
<1>7. ASSUME NEW s \in Replicas, NEW j \in toRecover'[s]
      PROVE  j <= crtInstance'[s]
  <2>1. j \in Int
    BY <1>1
  <2>2. j <= crtInstance[s]
    BY <1>7 DEF IInv, RecoversOpened
  <2> QED
    BY <2>1, <2>2, <1>2
<1> QED
  BY <1>4, <1>6, <1>7 DEF RecoversOpened

\* Messages stay their senders' while bookkeeping is kept.
LEMMA MessagesStay ==
  ASSUME IInv,
         \A s \in Replicas, j \in Instances :
           Bookkept(s, j) => lbs'[s][j] # NoBookkeeping,
         \A l \in Links : \A m \in Queued(net', l) :
           \/ m \in OnLink(l)
           \/ /\ l[3] \in {"Prepare", "Accept"} =>
                   lbs'[l[1]][m.inst] # NoBookkeeping /\ m.bal % N = l[1]
              /\ l[3] \in {"PrepareReply", "AcceptReply"} =>
                   lbs'[l[2]][m.inst] # NoBookkeeping
  PROVE  MessagesOwned'
<1> SUFFICES ASSUME NEW l \in Links, NEW m \in Queued(net', l)
             PROVE  /\ l[3] \in {"Prepare", "Accept"} =>
                         lbs'[l[1]][m.inst] # NoBookkeeping /\ m.bal % N = l[1]
                    /\ l[3] \in {"PrepareReply", "AcceptReply"} =>
                         lbs'[l[2]][m.inst] # NoBookkeeping
  BY DEF MessagesOwned, Queued, OnLink, Bookkept
<1>1. CASE m \in OnLink(l)
  <2>1. /\ l[3] \in {"Prepare", "Accept"} =>
             Bookkept(l[1], m.inst) /\ m.bal % N = l[1]
        /\ l[3] \in {"PrepareReply", "AcceptReply"} => Bookkept(l[2], m.inst)
    BY <1>1 DEF IInv, MessagesOwned
  <2>2. l[1] \in Replicas /\ l[2] \in Replicas /\ l[3] \in Types
    BY DEF Links
  <2>3. m \in Message(l[3])
    <3>1. net[l] \in Seq(Message(l[3]))
      BY DEF IInv, TypeOK
    <3> QED
      BY <3>1, <1>1 DEF OnLink
  <2>4. m.inst \in Instances
    BY <2>3 DEF Message
  <2> QED
    BY <2>1, <2>2, <2>4
<1> QED
  BY <1>1

\* The clients of the first leader are kept while no batch moves.
LEMMA ClientsStay ==
  ASSUME IInv, isLeader'[InitialLeader],
         proposeChan'[InitialLeader] = proposeChan[InitialLeader],
         \A j \in Instances, c \in Commands :
           (lbs'[InitialLeader][j] # NoBookkeeping
              /\ lbs'[InitialLeader][j].proposals = c)
           <=> (Bookkept(InitialLeader, j)
                  /\ lbs[InitialLeader][j].proposals = c)
  PROVE  ClientsOnce'
<1>1. \A c \in Commands : Concerned(c)' = Concerned(c)
  BY DEF Concerned, Bookkept
<1> QED
  BY <1>1 DEF IInv, ClientsOnce

----------------------------------------------------------------------------
\* A proposal opens the next instance, which nobody keeps books of.
LEMMA ProposeKeeps ==
  ASSUME IInv, NEW r \in Replicas, NEW c \in Commands, Propose(r, c)
  PROVE  IInv'
<1> DEFINE i == crtInstance[r] + 1
           b == MadeBallot(r, maxRecvBallot[r])
<1>1. TypeOK
  BY DEF IInv
<1>2. /\ i \in Instances /\ b <= MaxBallot /\ c \in proposeChan[r]
      /\ proposeChan' = [proposeChan EXCEPT ![r] = @ \ {c}]
      /\ crtInstance' = [crtInstance EXCEPT ![r] = i]
      /\ defaultBallot' = [defaultBallot EXCEPT ![r][r] = b]
      /\ UNCHANGED <<isLeader, maxRecvBallot, smallestDefaultBallot,
                     toRecover, timeouts, executed, replied, panicked>>
  BY DEF Propose
<1>3. b \in Ballots /\ b % N = r
  <2>1. maxRecvBallot[r] \in Ballots
    BY <1>1 DEF TypeOK
  <2>2. b \in Nat /\ b % N = r
    BY <1>1, <2>1, MadeBallotOwn
  <2> HIDE DEF b
  <2> QED
    BY <1>2, <2>2 DEF Ballots
<1>4. \E x \in Instance, y \in Bookkeeping, t \in {"Prepare", "Accept"} :
        \E m \in Message(t) :
          /\ insts' = [insts EXCEPT ![r][i] = x]
          /\ lbs' = [lbs EXCEPT ![r][i] = y]
          /\ y.proposals = c /\ y.lastTried = b
          /\ net' = Broadcast(net, r, t, m) /\ m.inst = i /\ m.bal = b
  <2> DEFINE d == defaultBallot[r][r]
             lb == [proposals |-> c, prepareOKs |-> 0, acceptOKs |-> 0,
                    nacks |-> 0, ballot |-> r, cmds |-> None, lastTried |-> b]
             x2 == [cmds |-> c, bal |-> b, vbal |-> b, status |-> "ACCEPTED"]
             y2 == [lb EXCEPT !.cmds = c]
  <2>1. d \in Ballots /\ c \in Values /\ None \in Values /\ r \in Nat
    BY <1>1, OwnResidue DEF TypeOK, Values
  <2>2. r \in Ballots
    <3>1. maxRecvBallot[r] \in Ballots
      BY <1>1 DEF TypeOK
    <3>2. b \in Nat /\ b % N = r
      BY <1>1, <3>1, MadeBallotOwn
    <3> HIDE DEF b
    <3>3. r <= b
      BY <3>2, BallotAboveOwner
    <3> QED
      BY <3>2, <3>3, <2>1, <1>2 DEF Ballots
  <2> HIDE DEF b, d, i
  <2>3. lb \in Bookkeeping /\ y2 \in Bookkeeping
    BY <2>1, <2>2, <1>3 DEF Bookkeeping
  <2>4. Opened(d) \in Instance /\ x2 \in Instance
    BY <2>1, <1>3 DEF Opened, Instance, Status, Values
  <2>5. Prepare(i, b) \in Message("Prepare") /\ Accept(i, b, c) \in Message("Accept")
    BY <2>1, <1>2, <1>3 DEF Message, Prepare, Accept
  <2>6. CASE /\ insts' = [insts EXCEPT ![r][i] = Opened(d)]
             /\ lbs' = [lbs EXCEPT ![r][i] = lb]
             /\ net' = Broadcast(net, r, "Prepare", Prepare(i, b))
    <3>1. Prepare(i, b).inst = i /\ Prepare(i, b).bal = b
      BY DEF Prepare
    <3> QED
      BY <2>3, <2>4, <2>5, <2>6, <3>1
  <2>7. CASE /\ insts' = [insts EXCEPT ![r][i] = x2]
             /\ lbs' = [lbs EXCEPT ![r][i] = y2]
             /\ net' = Broadcast(net, r, "Accept", Accept(i, b, c))
    <3>1. /\ Accept(i, b, c).inst = i /\ Accept(i, b, c).bal = b
          /\ y2.proposals = c /\ y2.lastTried = b
      BY DEF Accept
    <3> HIDE DEF x2, y2
    <3> QED
      BY <2>3, <2>4, <2>5, <2>7, <3>1
  <2> QED
    BY <2>6, <2>7 DEF Propose, b, d, i
<1>0. PICK x \in Instance, y \in Bookkeeping, t \in {"Prepare", "Accept"} :
        \E m \in Message(t) :
          /\ insts' = [insts EXCEPT ![r][i] = x]
          /\ lbs' = [lbs EXCEPT ![r][i] = y]
          /\ y.proposals = c /\ y.lastTried = b
          /\ net' = Broadcast(net, r, t, m) /\ m.inst = i /\ m.bal = b
  BY <1>4
<1>5. PICK m \in Message(t) :
          /\ insts' = [insts EXCEPT ![r][i] = x]
          /\ lbs' = [lbs EXCEPT ![r][i] = y]
          /\ y.proposals = c /\ y.lastTried = b
          /\ net' = Broadcast(net, r, t, m) /\ m.inst = i /\ m.bal = b
  BY <1>0
<1> HIDE DEF b
<1>6. /\ x # NoInstance /\ y # NoBookkeeping
  BY NilApart
<1>7. /\ insts' \in [Replicas -> [Instances -> Instance \cup {NoInstance}]]
      /\ \A s \in Replicas, j \in Instances :
           insts'[s][j] = IF s = r /\ j = i THEN x ELSE insts[s][j]
  BY <1>1, <1>2, <1>5, InstsUpdated
<1>8. /\ lbs' \in [Replicas -> [Instances -> Bookkeeping \cup {NoBookkeeping}]]
      /\ \A s \in Replicas, j \in Instances :
           lbs'[s][j] = IF s = r /\ j = i THEN y ELSE lbs[s][j]
  BY <1>1, <1>2, <1>5, LbsUpdated
<1>9. /\ Network(net')
      /\ \A l \in Links : \A n \in Queued(net', l) :
           n \in OnLink(l) \/ (l[1] = r /\ l[3] = t /\ n = m)
  <2>1. Network(net) /\ t \in Types
    BY <1>1 DEF TypeOK, Network, Types
  <2>2. /\ Network(Broadcast(net, r, t, m))
        /\ \A l \in Links : \A n \in Queued(Broadcast(net, r, t, m), l) :
             n \in Queued(net, l) \/ (l[1] = r /\ l[3] = t /\ n = m)
    BY <2>1, NetBroadcast
  <2>3. \A l \in Links : Queued(net, l) = OnLink(l)
    BY DEF Queued, OnLink
  <2> QED
    BY <2>2, <2>3, <1>5
<1>10. /\ crtInstance' \in [Replicas -> Instances \cup {-1}]
       /\ \A s \in Replicas : crtInstance[s] <= crtInstance'[s]
       /\ crtInstance'[r] = i
  BY <1>1, <1>2 DEF TypeOK, Instances
<1>11. TypeOK'
  <2>1. proposeChan' \in [Replicas -> SUBSET Commands]
    BY <1>1, <1>2 DEF TypeOK
  <2>2. defaultBallot' \in [Replicas -> [Replicas -> Ballots]]
    BY <1>1, <1>2, <1>3, DefaultUpdated
  <2> QED
    BY <1>1, <1>2, <1>7, <1>8, <1>9, <1>10, <2>1, <2>2 DEF TypeOK, Network
<1>12. NoOverwrite' /\ BookkeepingKnown' /\ RecoversOpened'
  <2>1. \A s \in Replicas, j \in Instances :
          Known(s, j) => insts'[s][j] # NoInstance
    BY <1>6, <1>7 DEF Known
  <2>2. \A s \in Replicas, j \in Instances :
          insts'[s][j] # NoInstance => Known(s, j) \/ j <= crtInstance'[s]
    BY <1>7, <1>10, <1>2 DEF Known, Instances
  <2>3. \A s \in Replicas, j \in Instances :
          lbs'[s][j] # NoBookkeeping =>
             \/ Bookkept(s, j) /\ lbs'[s][j].lastTried = lbs[s][j].lastTried
             \/ insts'[s][j] # NoInstance /\ lbs'[s][j].lastTried % N = s
    BY <1>3, <1>5, <1>6, <1>7, <1>8 DEF Bookkept
  <2>4. /\ \A s \in Replicas : \A j \in toRecover'[s] : j \in toRecover[s]
        /\ toRecover' \in [Replicas -> SUBSET Instances]
    BY <1>1, <1>2 DEF TypeOK
  <2> QED
    BY <1>10, <2>1, <2>2, <2>3, <2>4, RecordsStay
<1>13. MessagesOwned'
  <2>1. \A s \in Replicas, j \in Instances :
           Bookkept(s, j) => lbs'[s][j] # NoBookkeeping
    BY <1>6, <1>8 DEF Bookkept
  <2>2. lbs'[r][i] # NoBookkeeping
    BY <1>2, <1>6, <1>8
  <2>3. ASSUME NEW l \in Links, NEW n \in Queued(net', l), n \notin OnLink(l)
        PROVE  /\ l[3] \in {"Prepare", "Accept"} =>
                   lbs'[l[1]][n.inst] # NoBookkeeping /\ n.bal % N = l[1]
               /\ l[3] \in {"PrepareReply", "AcceptReply"} =>
                   lbs'[l[2]][n.inst] # NoBookkeeping
    <3>1. l[1] = r /\ l[3] = t /\ n = m
      BY <1>9, <2>3
    <3> QED
      BY <3>1, <2>2, <1>3, <1>5
  <2> QED
    BY <2>1, <2>3, MessagesStay
<1>14. ClientsOnce'
  <2>1. /\ isLeader' = isLeader /\ isLeader[InitialLeader]
        /\ \A e \in Commands :
             /\ e \in proposeChan[InitialLeader] => Concerned(e) = {}
             /\ e \in Proposals[InitialLeader] =>
                  e \in proposeChan[InitialLeader] \/ Concerned(e) # {}
             /\ \A j, k \in Concerned(e) : j = k
    BY <1>2 DEF IInv, ClientsOnce
  <2>2. CASE r # InitialLeader
    <3>1. proposeChan'[InitialLeader] = proposeChan[InitialLeader]
      BY <1>1, <1>2, <2>2 DEF TypeOK
    <3>2. \A j \in Instances : lbs'[InitialLeader][j] = lbs[InitialLeader][j]
      BY <1>8, <2>2
    <3> QED
      BY <2>1, <3>1, <3>2, ClientsStay DEF Bookkept
  <2>3. CASE r = InitialLeader
    <3>1. ~ Bookkept(r, i)
      <4>1. Bookkept(r, i) => i <= crtInstance[r]
        BY <1>2 DEF IInv, BookkeepingKnown, NoOverwrite
      <4>2. crtInstance[r] \in Int
        BY <1>1 DEF TypeOK, Instances
      <4> QED
        BY <4>1, <4>2
    <3>2. \A e \in Commands :
            Concerned(e)' = IF e = c THEN Concerned(e) \cup {i} ELSE Concerned(e)
      <4>1. \A e \in Commands, j \in Instances :
              j \in Concerned(e)' <=> j \in Concerned(e) \/ (e = c /\ j = i)
        BY <1>5, <1>6, <1>8, <2>3, <3>1 DEF Concerned, Bookkept
      <4>2. \A e \in Commands : /\ Concerned(e) \subseteq Instances
                                /\ Concerned(e)' \subseteq Instances
        BY DEF Concerned
      <4> QED
        BY <4>1, <4>2, <1>2
    <3>3. proposeChan'[InitialLeader] = proposeChan[InitialLeader] \ {c}
      BY <1>1, <1>2, <2>3 DEF TypeOK
    <3>4. Concerned(c) = {}
      BY <1>2, <2>1, <2>3
    <3> QED
      BY <2>1, <3>2, <3>3, <3>4 DEF ClientsOnce
  <2> QED
    BY <2>2, <2>3
<1> QED
  BY <1>11, <1>12, <1>13, <1>14 DEF IInv

----------------------------------------------------------------------------
\* crtInstance reaches what is opened, and maxRecvBallot what is received.
LEMMA CoveringKeeps ==
  ASSUME IInv, NEW r \in Replicas, NEW i \in Instances
  PROVE  /\ Covering(r, i) \in [Replicas -> Instances \cup {-1}]
         /\ \A s \in Replicas : crtInstance[s] <= Covering(r, i)[s]
         /\ i <= Covering(r, i)[r]
<1>1. /\ crtInstance \in [Replicas -> Instances \cup {-1}]
      /\ Known(r, i) => i <= crtInstance[r]
  BY DEF IInv, TypeOK, NoOverwrite
<1> QED
  BY <1>1 DEF Covering, Larger, Instances

LEMMA ReceivedKeeps ==
  ASSUME TypeOK, NEW r \in Replicas, NEW b \in Ballots
  PROVE  Received(r, b) \in [Replicas -> Ballots]
BY DEF Received, Larger, Ballots, TypeOK

\* A handler of r that updates one record.
LEMMA OneRecordStays ==
  ASSUME IInv, NEW r \in Replicas, NEW i \in Instances, NEW x \in Instance,
         \/ crtInstance' = Covering(r, i)
         \/ crtInstance' = crtInstance /\ Known(r, i),
         insts' = [insts EXCEPT ![r][i] = x],
         \A s \in Replicas, j \in Instances :
           lbs'[s][j] # NoBookkeeping =>
             Bookkept(s, j) /\ lbs'[s][j].lastTried = lbs[s][j].lastTried,
         UNCHANGED toRecover
  PROVE  /\ insts' \in [Replicas -> [Instances -> Instance \cup {NoInstance}]]
         /\ crtInstance' \in [Replicas -> Instances \cup {-1}]
         /\ NoOverwrite' /\ BookkeepingKnown' /\ RecoversOpened'
<1>1. TypeOK /\ x # NoInstance
  BY NilApart DEF IInv
<1>2. /\ insts' \in [Replicas -> [Instances -> Instance \cup {NoInstance}]]
      /\ \A s \in Replicas, j \in Instances :
           insts'[s][j] = IF s = r /\ j = i THEN x ELSE insts[s][j]
  BY <1>1, InstsUpdated
<1>3. /\ crtInstance' \in [Replicas -> Instances \cup {-1}]
      /\ \A s \in Replicas : crtInstance[s] <= crtInstance'[s]
      /\ i <= crtInstance'[r]
  <2>1. CASE crtInstance' = Covering(r, i)
    BY <2>1, CoveringKeeps
  <2>2. CASE crtInstance' = crtInstance /\ Known(r, i)
    <3>1. crtInstance \in [Replicas -> Instances \cup {-1}] /\ i <= crtInstance[r]
      BY <2>2 DEF IInv, TypeOK, NoOverwrite
    <3>2. \A s \in Replicas : crtInstance[s] \in Int
      BY <3>1 DEF Instances
    <3> QED
      BY <2>2, <3>1, <3>2
  <2> QED
    BY <2>1, <2>2
<1>4. \A s \in Replicas, j \in Instances :
        Known(s, j) => insts'[s][j] # NoInstance
  BY <1>1, <1>2 DEF Known
<1>5. \A s \in Replicas, j \in Instances :
        insts'[s][j] # NoInstance => Known(s, j) \/ j <= crtInstance'[s]
  BY <1>2, <1>3 DEF Known
<1>6. /\ toRecover' \in [Replicas -> SUBSET Instances]
      /\ \A s \in Replicas : toRecover'[s] = toRecover[s]
  BY <1>1 DEF TypeOK
<1>7. NoOverwrite' /\ BookkeepingKnown' /\ RecoversOpened'
  BY <1>3, <1>4, <1>5, <1>6, RecordsStay
<1> QED
  BY <1>2, <1>3, <1>7

\* A promise, or the commit of the instance, goes to a replica that keeps
\* books of it.
LEMMA HandlePrepareKeeps ==
  ASSUME IInv, NEW r \in Replicas, NEW q \in Replicas, HandlePrepare(r, q)
  PROVE  IInv'
<1> DEFINE l == <<q, r, "Prepare">>
           m == Head(net[l])
           i == m.inst
           old == InstanceOrOpened(r, i)
           new == IF old.bal < m.bal
                  THEN [old EXCEPT !.bal = m.bal, !.status = "PREPARED"]
                  ELSE old
           correction == Accept(i, old.vbal, old.cmds)
           promise == [inst |-> i, bal |-> new.bal, vbal |-> new.vbal,
                       cmds |-> new.cmds, default |-> defaultBallot'[r][r]]
<1>1. TypeOK
  BY DEF IInv
<1>2. /\ Receives(r, q, "Prepare")
      /\ maxRecvBallot' = Received(r, m.bal)
      /\ crtInstance' = Covering(r, i)
      /\ UNCHANGED <<isLeader, smallestDefaultBallot, lbs, proposeChan,
                     toRecover, timeouts, executed, replied, panicked>>
  BY DEF HandlePrepare
<1>3. {"Prepare", "PrepareReply", "Commit"} \subseteq Types
  BY DEF Types
<1>4. m \in Message("Prepare") /\ m \in OnLink(l) /\ l \in Links /\ r # q
  BY <1>1, <1>2, <1>3, Taking
<1>5. i \in Instances /\ m.bal \in Ballots
  BY <1>4 DEF Message
<1>6. Bookkept(q, i)
  BY <1>4 DEF IInv, MessagesOwned
<1> HIDE DEF m
<1>7. old \in Instance /\ (Known(r, i) => old = insts[r][i])
  BY <1>1, <1>5, OpenedTyped
<1>8. new \in Instance
  BY <1>5, <1>7 DEF Instance, Status
<1>9. \E u \in {"PrepareReply", "Commit"}, x \in Instance : \E n \in Message(u) :
        /\ net' = Sent(Taken(l), r, q, u, n) /\ n.inst = i
        /\ defaultBallot' \in [Replicas -> [Replicas -> Ballots]]
        /\ insts' = [insts EXCEPT ![r][i] = x] \/ (insts' = insts /\ Known(r, i))
  <2>1. CASE /\ old.status = "COMMITTED"
             /\ net' = Sent(Taken(l), r, q, "Commit", correction)
             /\ UNCHANGED <<insts, defaultBallot>>
    <3>1. correction \in Message("Commit") /\ correction.inst = i
      BY <1>5, <1>7 DEF Message, Accept, Instance
    <3>2. Known(r, i)
      BY <2>1 DEF InstanceOrOpened, Opened
    <3>3. defaultBallot' \in [Replicas -> [Replicas -> Ballots]]
      BY <1>1, <2>1 DEF TypeOK
    <3> HIDE DEF correction, old
    <3> QED
      BY <2>1, <3>1, <3>2, <3>3, <1>8
  <2>2. CASE /\ old.status # "COMMITTED"
             /\ insts' = [insts EXCEPT ![r][i] = new]
             /\ defaultBallot' = [defaultBallot EXCEPT ![r][r] =
                  IF old.bal < m.bal /\ crtInstance'[r] = i THEN m.bal ELSE @]
             /\ net' = Sent(Taken(l), r, q, "PrepareReply", promise)
    <3>1. defaultBallot' \in [Replicas -> [Replicas -> Ballots]]
      <4> DEFINE d == IF old.bal < m.bal /\ crtInstance'[r] = i
                      THEN m.bal ELSE defaultBallot[r][r]
      <4>1. d \in Ballots
        BY <1>1, <1>5 DEF TypeOK
      <4>2. defaultBallot' = [defaultBallot EXCEPT ![r][r] = d]
        BY <2>2
      <4> HIDE DEF d
      <4> QED
        BY <1>1, <4>1, <4>2, DefaultUpdated
    <3>2. defaultBallot'[r][r] \in Ballots
      BY <3>1
    <3> HIDE DEF new
    <3>3. promise \in Message("PrepareReply") /\ promise.inst = i
      BY <1>5, <1>8, <3>2 DEF Message, Instance
    <3> HIDE DEF promise, old
    <3> QED
      BY <2>2, <1>8, <3>1, <3>3
  <2> HIDE DEF new, old, correction, promise
  <2> QED
    BY <2>1, <2>2 DEF HandlePrepare, l, m, i, old, new, correction, promise
<1>10. PICK u \in {"PrepareReply", "Commit"}, x \in Instance : \E n \in Message(u) :
        /\ net' = Sent(Taken(l), r, q, u, n) /\ n.inst = i
        /\ defaultBallot' \in [Replicas -> [Replicas -> Ballots]]
        /\ insts' = [insts EXCEPT ![r][i] = x] \/ (insts' = insts /\ Known(r, i))
  BY <1>9
<1>11. PICK n \in Message(u) : net' = Sent(Taken(l), r, q, u, n) /\ n.inst = i
  BY <1>10
<1> HIDE DEF i, old, new, correction, promise
<1>12. \E y \in Instance : insts' = [insts EXCEPT ![r][i] = y]
  <2>1. CASE insts' = insts /\ Known(r, i)
    <3>1. insts[r][i] \in Instance
      BY <1>1, <1>5, <2>1, OpenedTyped
    <3>2. insts' = [insts EXCEPT ![r][i] = insts[r][i]]
      BY <1>1, <2>1 DEF TypeOK
    <3> QED
      BY <3>1, <3>2
  <2> QED
    BY <1>10, <2>1
<1>13. PICK y \in Instance : insts' = [insts EXCEPT ![r][i] = y]
  BY <1>12
<1>14. /\ Network(net')
       /\ \A x1 \in Links : \A y1 \in Queued(net', x1) :
            y1 \in OnLink(x1) \/ (x1 = <<r, q, u>> /\ y1 = n)
  BY <1>1, <1>2, <1>3, <1>11, NetAnswered
<1>15. \A s \in Replicas, j \in Instances :
         lbs'[s][j] # NoBookkeeping =>
           Bookkept(s, j) /\ lbs'[s][j].lastTried = lbs[s][j].lastTried
  BY <1>2 DEF Bookkept
<1>16. /\ insts' \in [Replicas -> [Instances -> Instance \cup {NoInstance}]]
       /\ crtInstance' \in [Replicas -> Instances \cup {-1}]
       /\ NoOverwrite' /\ BookkeepingKnown' /\ RecoversOpened'
  BY <1>2, <1>5, <1>13, <1>15, OneRecordStays
<1>17. maxRecvBallot' \in [Replicas -> Ballots]
  BY <1>1, <1>2, <1>5, ReceivedKeeps
<1>18. TypeOK'
  BY <1>1, <1>2, <1>10, <1>14, <1>16, <1>17 DEF TypeOK, Network
<1>19. MessagesOwned'
  <2>1. lbs'[q][i] # NoBookkeeping
    BY <1>2, <1>6 DEF Bookkept
  <2>2. \A s \in Replicas, j \in Instances :
          Bookkept(s, j) => lbs'[s][j] # NoBookkeeping
    BY <1>2 DEF Bookkept
  <2>3. \A x1 \in Links : \A y1 \in Queued(net', x1) :
          \/ y1 \in OnLink(x1)
          \/ /\ x1[3] \in {"Prepare", "Accept"} =>
                  lbs'[x1[1]][y1.inst] # NoBookkeeping /\ y1.bal % N = x1[1]
             /\ x1[3] \in {"PrepareReply", "AcceptReply"} =>
                  lbs'[x1[2]][y1.inst] # NoBookkeeping
    BY <1>11, <1>14, <2>1
  <2> QED
    BY <2>2, <2>3, MessagesStay
<1>20. ClientsOnce'
  BY <1>2, ClientsStay DEF IInv, ClientsOnce, Bookkept
<1> QED
  BY <1>16, <1>18, <1>19, <1>20 DEF IInv

\* The answer to an Accept goes to a replica that keeps books.
LEMMA HandleAcceptKeeps ==
  ASSUME IInv, NEW r \in Replicas, NEW q \in Replicas, HandleAccept(r, q)
  PROVE  IInv'
<1> DEFINE l == <<q, r, "Accept">>
           m == Head(net[l])
           i == m.inst
           old == insts[r][i]
           new == IF ~ Known(r, i) \/ (m.bal >= old.bal /\ old.status # "COMMITTED")
                  THEN [cmds |-> m.cmds, bal |-> m.bal, vbal |-> m.bal,
                        status |-> "ACCEPTED"]
                  ELSE old
           answer == [inst |-> i, bal |-> new.bal]
<1>1. TypeOK
  BY DEF IInv
<1>2. /\ Receives(r, q, "Accept")
      /\ maxRecvBallot' = Received(r, m.bal)
      /\ crtInstance' = Covering(r, i)
      /\ insts' = [insts EXCEPT ![r][i] = new]
      /\ net' = Sent(Taken(l), r, q, "AcceptReply", answer)
      /\ UNCHANGED <<isLeader, defaultBallot, smallestDefaultBallot, lbs,
                     proposeChan, toRecover, timeouts, executed, replied,
                     panicked>>
  BY DEF HandleAccept
<1>3. {"Accept", "AcceptReply"} \subseteq Types
  BY DEF Types
<1>4. m \in Message("Accept") /\ m \in OnLink(l) /\ l \in Links
  BY <1>1, <1>2, <1>3, Taking
<1>5. i \in Instances /\ m.bal \in Ballots /\ m.cmds \in Values
  BY <1>4 DEF Message
<1>6. Bookkept(q, i)
  BY <1>4 DEF IInv, MessagesOwned
<1> HIDE DEF m
<1>7. new \in Instance
  <2>1. Known(r, i) => old \in Instance
    BY <1>1, <1>5, OpenedTyped
  <2> QED
    BY <1>5, <2>1 DEF Instance, Status
<1> HIDE DEF old, new
<1>8. answer \in Message("AcceptReply") /\ answer.inst = i
  BY <1>5, <1>7 DEF Message, Instance
<1> HIDE DEF answer, i
<1>9. /\ Network(net')
      /\ \A x \in Links : \A y \in Queued(net', x) :
           y \in OnLink(x) \/ (x = <<r, q, "AcceptReply">> /\ y = answer)
  BY <1>1, <1>2, <1>3, <1>8, NetAnswered
<1>10. \A s \in Replicas, j \in Instances :
         lbs'[s][j] # NoBookkeeping =>
           Bookkept(s, j) /\ lbs'[s][j].lastTried = lbs[s][j].lastTried
  BY <1>2 DEF Bookkept
<1>11. /\ insts' \in [Replicas -> [Instances -> Instance \cup {NoInstance}]]
       /\ crtInstance' \in [Replicas -> Instances \cup {-1}]
       /\ NoOverwrite' /\ BookkeepingKnown' /\ RecoversOpened'
  BY <1>2, <1>5, <1>7, <1>10, OneRecordStays
<1>12. maxRecvBallot' \in [Replicas -> Ballots]
  BY <1>1, <1>2, <1>5, ReceivedKeeps
<1>13. TypeOK'
  BY <1>1, <1>2, <1>9, <1>11, <1>12 DEF TypeOK, Network
<1>14. MessagesOwned'
  <2>1. lbs'[q][i] # NoBookkeeping
    BY <1>2, <1>6 DEF Bookkept
  <2>2. \A s \in Replicas, j \in Instances :
          Bookkept(s, j) => lbs'[s][j] # NoBookkeeping
    BY <1>2 DEF Bookkept
  <2>3. \A x \in Links : \A y \in Queued(net', x) :
          \/ y \in OnLink(x)
          \/ /\ x[3] \in {"Prepare", "Accept"} =>
                  lbs'[x[1]][y.inst] # NoBookkeeping /\ y.bal % N = x[1]
             /\ x[3] \in {"PrepareReply", "AcceptReply"} =>
                  lbs'[x[2]][y.inst] # NoBookkeeping
    BY <1>8, <1>9, <2>1
  <2> QED
    BY <2>2, <2>3, MessagesStay
<1>15. ClientsOnce'
  BY <1>2, ClientsStay DEF IInv, ClientsOnce, Bookkept
<1> QED
  BY <1>11, <1>13, <1>14, <1>15 DEF IInv

\* A Commit gives the clients' batch back, and the bookkeeping forgets it.
LEMMA HandleCommitKeeps ==
  ASSUME IInv, NEW r \in Replicas, NEW q \in Replicas, HandleCommit(r, q)
  PROVE  IInv'
<1> DEFINE l == <<q, r, "Commit">>
           m == Head(net[l])
           i == m.inst
           old == InstanceOrOpened(r, i)
           ignored == old.status = "COMMITTED" \/ m.bal < old.bal
           own == OwnBatch(r, i)
           new == IF ignored THEN old
                  ELSE [cmds |-> m.cmds, bal |-> m.bal, vbal |-> m.bal,
                        status |-> "COMMITTED"]
           Returned == ~ ignored /\ own # None
<1>1. TypeOK
  BY DEF IInv
<1>2. /\ Receives(r, q, "Commit")
      /\ crtInstance' = Covering(r, i)
      /\ insts' = [insts EXCEPT ![r][i] = new]
      /\ \/ /\ Returned
            /\ proposeChan' = [proposeChan EXCEPT ![r] = @ \cup {own}]
            /\ lbs' = [lbs EXCEPT ![r][i].proposals = None]
         \/ ~ Returned /\ UNCHANGED <<proposeChan, lbs>>
      /\ net' = Taken(l)
      /\ UNCHANGED <<isLeader, maxRecvBallot, defaultBallot,
                     smallestDefaultBallot, toRecover, timeouts, executed,
                     replied, panicked>>
  BY DEF HandleCommit
<1>3. "Commit" \in Types
  BY DEF Types
<1>4. /\ m \in Message("Commit") /\ Network(net')
      /\ \A x \in Links : Queued(net', x) \subseteq OnLink(x)
  BY <1>1, <1>2, <1>3, Taking
<1>5. i \in Instances /\ m.bal \in Ballots /\ m.cmds \in Values
  BY <1>4 DEF Message
<1> HIDE DEF m
<1>6. new \in Instance
  <2>1. old \in Instance
    BY <1>1, <1>5, OpenedTyped
  <2> HIDE DEF old, ignored
  <2> QED
    BY <1>5, <2>1 DEF Instance, Status
<1>7. own \in Commands \cup {None} /\ (own # None => Bookkept(r, i) /\ lbs[r][i].proposals = own)
  <2>1. own \in Commands \cup {None}
    BY <1>1, <1>5, OpenedTyped
  <2> QED
    BY <2>1 DEF OwnBatch, Bookkept
<1> HIDE DEF old, new, ignored, own, i
<1>8. /\ lbs' \in [Replicas -> [Instances -> Bookkeeping \cup {NoBookkeeping}]]
      /\ \A s \in Replicas, j \in Instances :
           /\ lbs'[s][j] # NoBookkeeping <=> Bookkept(s, j)
           /\ Bookkept(s, j) => lbs'[s][j].lastTried = lbs[s][j].lastTried
           /\ Bookkept(s, j) =>
                lbs'[s][j].proposals =
                  IF Returned /\ s = r /\ j = i THEN None ELSE lbs[s][j].proposals
  <2>1. CASE Returned /\ lbs' = [lbs EXCEPT ![r][i].proposals = None]
    <3> DEFINE y == [lbs[r][i] EXCEPT !.proposals = None]
    <3>1. Bookkept(r, i) /\ lbs[r][i] \in Bookkeeping
      BY <1>1, <1>5, <1>7, <2>1, OpenedTyped
    <3>2. /\ y \in Bookkeeping /\ y.lastTried = lbs[r][i].lastTried
          /\ y.proposals = None
      BY <3>1 DEF Bookkeeping, Values
    <3>3. lbs' = [lbs EXCEPT ![r][i] = y]
      BY <2>1
    <3> HIDE DEF y
    <3>4. /\ lbs' \in [Replicas -> [Instances -> Bookkeeping \cup {NoBookkeeping}]]
          /\ \A s \in Replicas, j \in Instances :
               lbs'[s][j] = IF s = r /\ j = i THEN y ELSE lbs[s][j]
      BY <1>1, <1>5, <3>2, <3>3, LbsUpdated
    <3> QED
      BY <2>1, <3>1, <3>2, <3>4, NilApart DEF Bookkept
  <2>2. CASE ~ Returned /\ lbs' = lbs
    BY <1>1, <2>2 DEF TypeOK, Bookkept
  <2> QED
    BY <1>2, <2>1, <2>2
<1>9. /\ insts' \in [Replicas -> [Instances -> Instance \cup {NoInstance}]]
      /\ crtInstance' \in [Replicas -> Instances \cup {-1}]
      /\ NoOverwrite' /\ BookkeepingKnown' /\ RecoversOpened'
  <2>1. \A s \in Replicas, j \in Instances :
          lbs'[s][j] # NoBookkeeping =>
            Bookkept(s, j) /\ lbs'[s][j].lastTried = lbs[s][j].lastTried
    BY <1>8
  <2> QED
    BY <1>2, <1>5, <1>6, <2>1, OneRecordStays
<1>10. proposeChan' \in [Replicas -> SUBSET Commands]
  <2>1. CASE Returned /\ proposeChan' = [proposeChan EXCEPT ![r] = @ \cup {own}]
    BY <1>1, <1>7, <2>1 DEF TypeOK
  <2> QED
    BY <1>1, <1>2, <2>1 DEF TypeOK
<1>11. TypeOK'
  BY <1>1, <1>2, <1>4, <1>8, <1>9, <1>10 DEF TypeOK, Network
<1>12. MessagesOwned'
  BY <1>4, <1>8, MessagesStay
<1>13. ClientsOnce'
  <2>1. CASE ~ (Returned /\ r = InitialLeader)
    <3>1. proposeChan'[InitialLeader] = proposeChan[InitialLeader]
      BY <1>1, <1>2, <2>1 DEF TypeOK
    <3>2. isLeader'[InitialLeader]
      BY <1>2 DEF IInv, ClientsOnce
    <3> QED
      BY <1>8, <2>1, <3>1, <3>2, ClientsStay
  <2>2. CASE Returned /\ r = InitialLeader
    <3>1. /\ isLeader'[InitialLeader]
          /\ \A e \in Commands :
               /\ e \in proposeChan[InitialLeader] => Concerned(e) = {}
               /\ e \in Proposals[InitialLeader] =>
                    e \in proposeChan[InitialLeader] \/ Concerned(e) # {}
               /\ \A j, k \in Concerned(e) : j = k
      BY <1>2 DEF IInv, ClientsOnce
    <3>2. own \in Commands /\ own # None /\ Bookkept(r, i) /\ lbs[r][i].proposals = own
      BY <1>7, <2>2
    <3>3. i \in Concerned(own)
      BY <1>5, <2>2, <3>2 DEF Concerned, Bookkept
    <3>4. Concerned(own) = {i}
      BY <3>1, <3>2, <3>3
    <3>5. \A e \in Commands :
            Concerned(e)' = IF e = own THEN {} ELSE Concerned(e)
      <4>1. \A e \in Commands, j \in Instances :
              j \in Concerned(e)' <=> j \in Concerned(e) /\ j # i
        BY <1>8, <2>2 DEF Concerned, Bookkept
      <4>2. \A e \in Commands : /\ Concerned(e) \subseteq Instances
                                /\ Concerned(e)' \subseteq Instances
        BY DEF Concerned
      <4>3. \A e \in Commands : i \in Concerned(e) => e = own
        BY <2>2, <3>2 DEF Concerned
      <4> QED
        BY <3>4, <4>1, <4>2, <4>3
    <3>6. proposeChan'[InitialLeader] = proposeChan[InitialLeader] \cup {own}
      BY <1>1, <1>2, <2>2 DEF TypeOK
    <3> QED
      BY <3>1, <3>2, <3>5, <3>6 DEF ClientsOnce
  <2> QED
    BY <2>1, <2>2
<1> QED
  BY <1>9, <1>11, <1>12, <1>13 DEF IInv

\* A CommitShort changes a record or nothing.
LEMMA HandleCommitShortKeeps ==
  ASSUME IInv, NEW r \in Replicas, NEW q \in Replicas, HandleCommitShort(r, q)
  PROVE  IInv'
<1> DEFINE l == <<q, r, "CommitShort">>
           m == Head(net[l])
           i == m.inst
           old == insts[r][i]
           new == [old EXCEPT !.status = "COMMITTED", !.bal = m.bal]
<1>1. TypeOK
  BY DEF IInv
<1>2. /\ Receives(r, q, "CommitShort")
      /\ (Known(r, i) /\ insts' = [insts EXCEPT ![r][i] = new]) \/ UNCHANGED insts
      /\ net' = Taken(l)
      /\ UNCHANGED <<isLeader, crtInstance, maxRecvBallot, defaultBallot,
                     smallestDefaultBallot, lbs, proposeChan, toRecover,
                     timeouts, executed, replied, panicked>>
  BY DEF HandleCommitShort
<1>3. "CommitShort" \in Types
  BY DEF Types
<1>4. /\ m \in Message("CommitShort") /\ Network(net')
      /\ \A x \in Links : Queued(net', x) \subseteq OnLink(x)
  BY <1>1, <1>2, <1>3, Taking
<1>5. i \in Instances /\ m.bal \in Ballots
  BY <1>4 DEF Message
<1> HIDE DEF m
<1>6. \A s \in Replicas, j \in Instances :
         lbs'[s][j] # NoBookkeeping =>
           Bookkept(s, j) /\ lbs'[s][j].lastTried = lbs[s][j].lastTried
  BY <1>2 DEF Bookkept
<1>7. /\ insts' \in [Replicas -> [Instances -> Instance \cup {NoInstance}]]
      /\ NoOverwrite' /\ BookkeepingKnown' /\ RecoversOpened'
  <2>1. CASE Known(r, i) /\ insts' = [insts EXCEPT ![r][i] = new]
    <3>1. old \in Instance
      BY <1>1, <1>5, <2>1, OpenedTyped
    <3>2. new \in Instance
      BY <1>5, <3>1 DEF Instance, Status
    <3> HIDE DEF new, i
    <3> QED
      BY <1>2, <1>5, <1>6, <2>1, <3>2, OneRecordStays
  <2>2. CASE UNCHANGED insts
    BY <1>1, <1>2, <2>2
    DEF IInv, TypeOK, NoOverwrite, BookkeepingKnown, RecoversOpened, Known, Bookkept
  <2> QED
    BY <1>2, <2>1, <2>2
<1>8. TypeOK'
  BY <1>1, <1>2, <1>4, <1>7 DEF TypeOK, Network
<1>9. MessagesOwned'
  BY <1>2, <1>4, MessagesStay DEF Bookkept
<1>10. ClientsOnce'
  BY <1>2, ClientsStay DEF IInv, ClientsOnce, Bookkept
<1> QED
  BY <1>7, <1>8, <1>9, <1>10 DEF IInv

----------------------------------------------------------------------------
\* Steps that touch neither records nor bookkeeping nor the network.
LEMMA LocalStepKeeps ==
  ASSUME IInv, TypeOK', isLeader'[InitialLeader],
         UNCHANGED <<crtInstance, insts, lbs, net>>,
         proposeChan'[InitialLeader] = proposeChan[InitialLeader],
         \A s \in Replicas : \A j \in toRecover'[s] :
           j \in toRecover[s] \/ j <= crtInstance[s]
  PROVE  IInv'
<1>1. NoOverwrite' /\ BookkeepingKnown' /\ RecoversOpened' /\ MessagesOwned'
  BY DEF IInv, NoOverwrite, BookkeepingKnown, RecoversOpened, MessagesOwned,
         Known, Bookkept, OnLink
<1>2. ClientsOnce'
  BY ClientsStay DEF Bookkept
<1> QED
  BY <1>1, <1>2 DEF IInv

LEMMA RefuseKeeps ==
  ASSUME IInv, NEW r \in Replicas, NEW c \in Commands, Refuse(r, c)
  PROVE  IInv'
<1>1. /\ ~ isLeader[r] /\ proposeChan' = [proposeChan EXCEPT ![r] = @ \ {c}]
      /\ UNCHANGED <<isLeader, crtInstance, maxRecvBallot, defaultBallot,
                     smallestDefaultBallot, insts, lbs, toRecover, timeouts,
                     executed, replied, panicked, net>>
  BY DEF Refuse
<1>2. TypeOK'
  BY <1>1 DEF IInv, TypeOK
<1>3. isLeader[InitialLeader] /\ proposeChan \in [Replicas -> SUBSET Commands]
  BY DEF IInv, ClientsOnce, TypeOK
<1> QED
  BY <1>1, <1>2, <1>3, LocalStepKeeps

LEMMA ExecuteKeeps ==
  ASSUME IInv, NEW r \in Replicas, Execute(r)
  PROVE  IInv'
<1> DEFINE i == NextToExecute(r)
           v == insts[r][i].cmds
           own == OwnBatch(r, i)
<1>1. /\ Ready(r)
      /\ executed' = [executed EXCEPT ![r] = Append(@, v)]
      /\ replied' = [replied EXCEPT ![r] =
           IF own = None THEN @ ELSE @ \cup {<<own, v>>}]
      /\ UNCHANGED <<isLeader, crtInstance, maxRecvBallot, defaultBallot,
                     smallestDefaultBallot, insts, lbs, proposeChan,
                     toRecover, timeouts, panicked, net>>
  BY DEF Execute
<1>2. TypeOK /\ isLeader[InitialLeader]
  BY DEF IInv, ClientsOnce
<1>3. i \in Instances /\ Known(r, i) /\ v # None
  BY <1>1 DEF Ready
<1>4. v \in Commands \cup {Noop} /\ own \in Commands \cup {None}
  BY <1>2, <1>3, OpenedTyped DEF Instance, Values
<1> HIDE DEF i, v, own
<1>5. executed' \in [Replicas -> Seq(Commands \cup {Noop})]
  <2>1. executed \in [Replicas -> Seq(Commands \cup {Noop})]
    BY <1>2 DEF TypeOK
  <2>2. Append(executed[r], v) \in Seq(Commands \cup {Noop})
    BY <1>4, <2>1, Appended
  <2> QED
    BY <1>1, <2>1, <2>2
<1>6. replied' \in [Replicas -> SUBSET (Commands \X (Commands \cup {Noop}))]
  BY <1>1, <1>2, <1>4 DEF TypeOK
<1>7. TypeOK'
  BY <1>1, <1>2, <1>5, <1>6 DEF TypeOK
<1> QED
  BY <1>1, <1>2, <1>7, LocalStepKeeps

LEMMA TimeoutKeeps ==
  ASSUME IInv, NEW r \in Replicas, Timeout(r)
  PROVE  IInv'
<1> DEFINE stuck == NextToExecute(r) .. crtInstance[r]
<1>1. /\ timeouts[r] < MaxTimeouts
      /\ timeouts' = [timeouts EXCEPT ![r] = @ + 1]
      /\ toRecover' = [toRecover EXCEPT ![r] = @ \cup stuck]
      /\ UNCHANGED <<isLeader, crtInstance, maxRecvBallot, defaultBallot,
                     smallestDefaultBallot, insts, lbs, proposeChan, executed,
                     replied, panicked, net>>
  BY DEF Timeout
<1>2. TypeOK /\ isLeader[InitialLeader]
  BY DEF IInv, ClientsOnce
<1>3. /\ stuck \subseteq Instances
      /\ \A j \in stuck : j <= crtInstance[r]
  <2>1. crtInstance[r] \in Instances \cup {-1} /\ NextToExecute(r) \in Nat
    BY <1>2 DEF TypeOK, NextToExecute
  <2> QED
    BY <2>1 DEF Instances
<1> HIDE DEF stuck
<1>4. /\ toRecover' \in [Replicas -> SUBSET Instances]
      /\ timeouts' \in [Replicas -> 0 .. MaxTimeouts]
  BY <1>1, <1>2, <1>3 DEF TypeOK
<1>5. TypeOK'
  BY <1>1, <1>2, <1>4 DEF TypeOK
<1>6. \A s \in Replicas : \A j \in toRecover'[s] :
        j \in toRecover[s] \/ j <= crtInstance[s]
  BY <1>1, <1>2, <1>3 DEF TypeOK
<1> QED
  BY <1>1, <1>2, <1>5, <1>6, LocalStepKeeps

LEMMA BeTheLeaderKeeps ==
  ASSUME IInv, NEW r \in Replicas, BeTheLeader(r)
  PROVE  IInv'
<1>1. /\ isLeader' = [isLeader EXCEPT ![r] = TRUE]
      /\ UNCHANGED <<crtInstance, maxRecvBallot, defaultBallot,
                     smallestDefaultBallot, insts, lbs, proposeChan, toRecover,
                     timeouts, executed, replied, panicked, net>>
  BY DEF BeTheLeader
<1>2. TypeOK' /\ isLeader'[InitialLeader]
  BY <1>1 DEF IInv, ClientsOnce, TypeOK
<1> QED
  BY <1>1, <1>2, LocalStepKeeps

\* A recovery keeps the books it has or opens empty ones.
LEMMA RecoverKeeps ==
  ASSUME IInv, NEW r \in Replicas, NEW i \in Instances, Recover(r, i)
  PROVE  IInv'
<1> DEFINE b == MadeBallot(r, maxRecvBallot[r])
           lb == BookkeepingOrNew(r, i)
           y == [lb EXCEPT !.lastTried = b]
           x == InstanceOrOpened(r, i)
           m == Prepare(i, b)
<1>1. TypeOK
  BY DEF IInv
<1>2. /\ i \in toRecover[r] /\ b <= MaxBallot
      /\ toRecover' = [toRecover EXCEPT ![r] = @ \ {i}]
      /\ insts' = [insts EXCEPT ![r][i] = x]
      /\ lbs' = [lbs EXCEPT ![r][i] = y]
      /\ net' = Broadcast(net, r, "Prepare", m)
      /\ UNCHANGED <<isLeader, crtInstance, maxRecvBallot, defaultBallot,
                     smallestDefaultBallot, proposeChan, timeouts, executed,
                     replied, panicked>>
  BY DEF Recover
<1>3. b \in Ballots /\ b % N = r
  <2>1. maxRecvBallot[r] \in Ballots
    BY <1>1 DEF TypeOK
  <2>2. b \in Nat /\ b % N = r
    BY <1>1, <2>1, MadeBallotOwn
  <2> HIDE DEF b
  <2> QED
    BY <1>2, <2>2 DEF Ballots
<1> HIDE DEF b
<1>4. x \in Instance /\ lb \in Bookkeeping
  BY <1>1, OpenedTyped
<1>5. y \in Bookkeeping /\ y.lastTried = b /\ y.proposals = lb.proposals
  <2> HIDE DEF lb
  <2> QED
    BY <1>3, <1>4 DEF Bookkeeping
<1>6. m \in Message("Prepare") /\ m.inst = i /\ m.bal = b
  BY <1>3 DEF Message, Prepare
<1>7. lb.proposals = IF Bookkept(r, i) THEN lbs[r][i].proposals ELSE None
  BY DEF BookkeepingOrNew, NewBookkeeping, Bookkept
<1> HIDE DEF x, y, m, lb
<1>8. x # NoInstance /\ y # NoBookkeeping
  BY <1>4, <1>5, NilApart
<1>9. /\ insts' \in [Replicas -> [Instances -> Instance \cup {NoInstance}]]
      /\ \A s \in Replicas, j \in Instances :
           insts'[s][j] = IF s = r /\ j = i THEN x ELSE insts[s][j]
  BY <1>1, <1>2, <1>4, InstsUpdated
<1>10. /\ lbs' \in [Replicas -> [Instances -> Bookkeeping \cup {NoBookkeeping}]]
       /\ \A s \in Replicas, j \in Instances :
            lbs'[s][j] = IF s = r /\ j = i THEN y ELSE lbs[s][j]
  BY <1>1, <1>2, <1>5, LbsUpdated
<1>11. /\ Network(net')
       /\ \A l \in Links : \A n \in Queued(net', l) :
            n \in OnLink(l) \/ (l[1] = r /\ l[3] = "Prepare" /\ n = m)
  <2>1. Network(net) /\ "Prepare" \in Types
    BY <1>1 DEF TypeOK, Network, Types
  <2>2. /\ Network(Broadcast(net, r, "Prepare", m))
        /\ \A l \in Links : \A n \in Queued(Broadcast(net, r, "Prepare", m), l) :
             n \in Queued(net, l) \/ (l[1] = r /\ l[3] = "Prepare" /\ n = m)
    BY <2>1, <1>6, NetBroadcast
  <2>3. \A l \in Links : Queued(net, l) = OnLink(l)
    BY DEF Queued, OnLink
  <2> QED
    BY <2>2, <2>3, <1>2
<1>12. /\ toRecover' \in [Replicas -> SUBSET Instances]
       /\ \A s \in Replicas : \A j \in toRecover'[s] : j \in toRecover[s]
  BY <1>1, <1>2 DEF TypeOK
<1>13. TypeOK'
  BY <1>1, <1>2, <1>9, <1>10, <1>11, <1>12 DEF TypeOK, Network
<1>14. NoOverwrite' /\ BookkeepingKnown' /\ RecoversOpened'
  <2>1. /\ crtInstance' \in [Replicas -> Instances \cup {-1}]
        /\ \A s \in Replicas : crtInstance[s] <= crtInstance'[s]
        /\ i <= crtInstance'[r]
    <3>1. crtInstance \in [Replicas -> Instances \cup {-1}]
      BY <1>1 DEF TypeOK
    <3>2. \A s \in Replicas : crtInstance[s] \in Int
      BY <3>1 DEF Instances
    <3> QED
      BY <1>2, <3>1, <3>2 DEF IInv, RecoversOpened
  <2>2. \A s \in Replicas, j \in Instances :
          Known(s, j) => insts'[s][j] # NoInstance
    BY <1>8, <1>9 DEF Known
  <2>3. \A s \in Replicas, j \in Instances :
          insts'[s][j] # NoInstance => Known(s, j) \/ j <= crtInstance'[s]
    BY <1>9, <2>1 DEF Known
  <2>4. \A s \in Replicas, j \in Instances :
          lbs'[s][j] # NoBookkeeping =>
            \/ Bookkept(s, j) /\ lbs'[s][j].lastTried = lbs[s][j].lastTried
            \/ insts'[s][j] # NoInstance /\ lbs'[s][j].lastTried % N = s
    BY <1>3, <1>5, <1>8, <1>9, <1>10 DEF Bookkept
  <2> QED
    BY <1>12, <2>1, <2>2, <2>3, <2>4, RecordsStay
<1>15. MessagesOwned'
  <2>1. \A s \in Replicas, j \in Instances :
          Bookkept(s, j) => lbs'[s][j] # NoBookkeeping
    BY <1>8, <1>10 DEF Bookkept
  <2>2. lbs'[r][i] # NoBookkeeping
    BY <1>8, <1>10
  <2>3. \A l \in Links : \A n \in Queued(net', l) :
          \/ n \in OnLink(l)
          \/ /\ l[3] \in {"Prepare", "Accept"} =>
                  lbs'[l[1]][n.inst] # NoBookkeeping /\ n.bal % N = l[1]
             /\ l[3] \in {"PrepareReply", "AcceptReply"} =>
                  lbs'[l[2]][n.inst] # NoBookkeeping
    BY <1>3, <1>6, <1>11, <2>2
  <2> QED
    BY <2>1, <2>3, MessagesStay
<1>16. ClientsOnce'
  <2>1. isLeader'[InitialLeader]
        /\ proposeChan'[InitialLeader] = proposeChan[InitialLeader]
    BY <1>2 DEF IInv, ClientsOnce
  <2>2. \A j \in Instances, c \in Commands :
          (lbs'[InitialLeader][j] # NoBookkeeping
             /\ lbs'[InitialLeader][j].proposals = c)
          <=> (Bookkept(InitialLeader, j) /\ lbs[InitialLeader][j].proposals = c)
    <3>1. None \notin Commands
      OBVIOUS
    <3> QED
      BY <1>5, <1>7, <1>8, <1>10, <3>1 DEF Bookkept
  <2> QED
    BY <2>1, <2>2, ClientsStay
<1> QED
  BY <1>13, <1>14, <1>15, <1>16 DEF IInv

----------------------------------------------------------------------------
\* A set of ballots that is not empty has a least one.
LEMMA HasLeast ==
  ASSUME NEW S \in SUBSET Ballots, S # {}
  PROVE  \E b \in S : \A a \in S : b <= a
<1> DEFINE Below(b) == {a \in S : a <= b}
           T == {Below(b) : b \in S}
<1>1. IsFiniteSet(S)
  <2>1. IsFiniteSet(Ballots)
    BY FS_Interval DEF Ballots
  <2> QED
    BY <2>1, FS_Subset
<1>2. T \subseteq FiniteSubsetsOf(S) /\ T # {}
  <2>1. \A b \in S : IsFiniteSet(Below(b)) /\ Below(b) \in SUBSET S
    BY <1>1, FS_Subset
  <2>2. T # {}
    <3>1. PICK e \in S : TRUE
      OBVIOUS
    <3>2. Below(e) \in T
      BY <3>1
    <3> QED
      BY <3>2
  <2> HIDE DEF Below
  <2>3. T \subseteq FiniteSubsetsOf(S)
    BY <2>1 DEF FiniteSubsetsOf
  <2> QED
    BY <2>2, <2>3
<1>3. PICK x \in T : \A y \in T : <<y, x>> \notin StrictSubsetOrdering(S)
  BY <1>2, FS_StrictSubsetOrderingWellFounded, WFMin
<1>4. PICK b \in S : x = Below(b)
  OBVIOUS
<1>5. ASSUME NEW a \in S, ~ (b <= a)
      PROVE  FALSE
  <2>1. a \in Int /\ b \in Int /\ \A n \in S : n \in Int
    BY DEF Ballots
  <2>0. \A n \in S : n <= a => n <= b
    BY <1>5, <2>1
  <2>2. Below(a) \subseteq Below(b)
    BY <2>0
  <2>3. b \in Below(b) /\ b \notin Below(a)
    BY <1>5, <2>1
  <2>4. <<Below(a), x>> \in StrictSubsetOrdering(S)
    BY <1>4, <2>2, <2>3 DEF StrictSubsetOrdering
  <2> QED
    BY <1>3, <2>4
<1> QED
  BY <1>5

\* The ballot that all followers are known to follow is one.
LEMMA FollowedTyped ==
  ASSUME TypeOK, NEW r \in Replicas, NEW defaults \in [Replicas -> Ballots]
  PROVE  Followed(r, defaults) \in Ballots
<1> DEFINE known == {q \in Replicas : defaults[q] # -1}
           S == {defaults[q] : q \in known}
           low == CHOOSE b \in S : \A q \in known : b <= defaults[q]
<1>1. smallestDefaultBallot[r] \in Ballots
  BY DEF TypeOK
<1>2. CASE known # {} /\ Cardinality(known) >= ReadQuorumSize - 1
  <2>1. S \in SUBSET Ballots /\ S # {}
    BY <1>2
  <2>2. PICK b \in S : \A a \in S : b <= a
    BY <2>1, HasLeast
  <2>3. \A q \in known : b <= defaults[q]
    BY <2>2
  <2>4. low \in S
    BY <2>3
  <2>5. Followed(r, defaults) = Larger(smallestDefaultBallot[r], low)
    BY <1>2 DEF Followed
  <2> QED
    BY <1>1, <2>1, <2>4, <2>5, LargerOne
<1>3. CASE ~ (known # {} /\ Cardinality(known) >= ReadQuorumSize - 1)
  BY <1>1, <1>3 DEF Followed
<1> QED
  BY <1>2, <1>3

\* A step that neither opens nor closes records and books, moves no batch, and
\* lets r, which keeps books of i, send messages about i.
LEMMA BooksStay ==
  ASSUME IInv, TypeOK', NEW r \in Replicas, NEW i \in Instances, Bookkept(r, i),
         UNCHANGED <<crtInstance, toRecover, isLeader, proposeChan>>,
         \A s \in Replicas, j \in Instances :
           insts'[s][j] # NoInstance <=> Known(s, j),
         \A s \in Replicas, j \in Instances :
           /\ lbs'[s][j] # NoBookkeeping <=> Bookkept(s, j)
           /\ Bookkept(s, j) => /\ lbs'[s][j].proposals = lbs[s][j].proposals
                               /\ lbs'[s][j].lastTried % N = s,
         \A l \in Links : \A n \in Queued(net', l) :
           \/ n \in OnLink(l)
           \/ /\ l[1] = r /\ l[3] \in {"Prepare", "Accept", "CommitShort"}
              /\ n.inst = i
              /\ l[3] # "CommitShort" => n.bal % N = r
  PROVE  IInv'
<1>1. TypeOK
  BY DEF IInv
<1>2. NoOverwrite' /\ BookkeepingKnown' /\ RecoversOpened'
  <2>1. /\ crtInstance' \in [Replicas -> Instances \cup {-1}]
        /\ \A s \in Replicas : crtInstance[s] <= crtInstance'[s]
    <3>1. crtInstance \in [Replicas -> Instances \cup {-1}]
      BY <1>1 DEF TypeOK
    <3>2. \A s \in Replicas : crtInstance[s] \in Int
      BY <3>1 DEF Instances
    <3> QED
      BY <3>1, <3>2
  <2>2. /\ toRecover' \in [Replicas -> SUBSET Instances]
        /\ \A s \in Replicas : toRecover'[s] = toRecover[s]
    BY <1>1 DEF TypeOK
  <2>3. \A s \in Replicas, j \in Instances :
          lbs'[s][j] # NoBookkeeping =>
            insts'[s][j] # NoInstance /\ lbs'[s][j].lastTried % N = s
    BY DEF IInv, BookkeepingKnown
  <2> QED
    BY <2>1, <2>2, <2>3, RecordsStay
<1>3. MessagesOwned'
  <2>1. lbs'[r][i] # NoBookkeeping
    OBVIOUS
  <2>2. \A l \in Links : \A n \in Queued(net', l) :
          \/ n \in OnLink(l)
          \/ /\ l[3] \in {"Prepare", "Accept"} =>
                  lbs'[l[1]][n.inst] # NoBookkeeping /\ n.bal % N = l[1]
             /\ l[3] \in {"PrepareReply", "AcceptReply"} =>
                  lbs'[l[2]][n.inst] # NoBookkeeping
    BY <2>1
  <2> QED
    BY <2>2, MessagesStay
<1>4. ClientsOnce'
  <2>1. isLeader'[InitialLeader]
    BY DEF IInv, ClientsOnce
  <2> QED
    BY <2>1, ClientsStay
<1> QED
  BY <1>2, <1>3, <1>4 DEF IInv

\* The books of r for instance i become y.
LEMMA BookUpdated ==
  ASSUME IInv, NEW r \in Replicas, NEW i \in Instances, Bookkept(r, i),
         NEW y \in Bookkeeping, y.proposals = lbs[r][i].proposals,
         y.lastTried % N = r, lbs' = [lbs EXCEPT ![r][i] = y]
  PROVE  /\ lbs' \in [Replicas -> [Instances -> Bookkeeping \cup {NoBookkeeping}]]
         /\ lbs'[r][i] = y
         /\ \A s \in Replicas, j \in Instances :
              /\ lbs'[s][j] # NoBookkeeping <=> Bookkept(s, j)
              /\ Bookkept(s, j) => /\ lbs'[s][j].proposals = lbs[s][j].proposals
                                  /\ lbs'[s][j].lastTried % N = s
<1>1. TypeOK /\ y # NoBookkeeping
  BY NilApart DEF IInv
<1>2. /\ lbs' \in [Replicas -> [Instances -> Bookkeeping \cup {NoBookkeeping}]]
      /\ \A s \in Replicas, j \in Instances :
           lbs'[s][j] = IF s = r /\ j = i THEN y ELSE lbs[s][j]
  BY <1>1, LbsUpdated
<1>3. \A s \in Replicas, j \in Instances :
        Bookkept(s, j) => lbs[s][j].lastTried % N = s
  BY DEF IInv, BookkeepingKnown
<1> QED
  BY <1>1, <1>2, <1>3 DEF Bookkept

\* What HandlePrepareReply does to the books: it counts a promise or a
\* refusal, or tries a higher ballot of its own.
LEMMA HandlePrepareReplyKeeps ==
  ASSUME IInv, NEW r \in Replicas, NEW q \in Replicas, HandlePrepareReply(r, q)
  PROVE  IInv'
<1> DEFINE l == <<q, r, "PrepareReply">>
           m == Head(net[l])
           i == m.inst
           lb == lbs[r][i]
           b == MadeBallot(r, Larger(maxRecvBallot[r], m.bal))
           heard == [lb EXCEPT !.prepareOKs = @ + 1,
                               !.ballot = Larger(@, m.vbal),
                               !.cmds = IF m.vbal > lb.ballot THEN m.cmds ELSE @]
           v == ChosenValue(lb)
           defaults == [defaultBallot[r] EXCEPT ![q] = Larger(@, m.default)]
           x == [insts[r][i] EXCEPT !.cmds = v, !.bal = lb.lastTried,
                                    !.status = "ACCEPTED"]
           retried == [lb EXCEPT !.nacks = @ + 1, !.lastTried = b]
           refused == [lb EXCEPT !.nacks = @ + 1]
           chosen == [heard EXCEPT !.cmds = v]
           ask == Prepare(i, b)
           accept == Accept(i, lb.lastTried, v)
<1>1. TypeOK
  BY DEF IInv
<1>2. /\ Receives(r, q, "PrepareReply")
      /\ maxRecvBallot' = Received(r, m.bal)
      /\ UNCHANGED <<isLeader, crtInstance, proposeChan, toRecover, timeouts,
                     executed, replied, panicked>>
  BY DEF HandlePrepareReply
<1>3. {"PrepareReply", "Prepare", "Accept"} \subseteq Types
  BY DEF Types
<1>4. /\ m \in Message("PrepareReply") /\ m \in OnLink(l) /\ l \in Links
      /\ Network(Taken(l))
      /\ \A z \in Links : Queued(Taken(l), z) \subseteq OnLink(z)
  BY <1>1, <1>2, <1>3, Taking
<1>5. /\ i \in Instances /\ m.bal \in Ballots /\ m.vbal \in Ballots
      /\ m.cmds \in Values /\ m.default \in Ballots
  BY <1>4 DEF Message
<1>6. Bookkept(r, i)
  BY <1>4 DEF IInv, MessagesOwned
<1> HIDE DEF m
<1>7. /\ lb \in Bookkeeping /\ Known(r, i) /\ insts[r][i] \in Instance
      /\ lb.lastTried % N = r
  BY <1>1, <1>5, <1>6, OpenedTyped DEF IInv, BookkeepingKnown
<1>8. v \in Values
  BY <1>7 DEF ChosenValue, Bookkeeping, Values
<1>9. b \in Nat /\ b % N = r
  <2>1. maxRecvBallot[r] \in Ballots
    BY <1>1 DEF TypeOK
  <2> QED
    BY <1>1, <1>5, <2>1, LargerOne, MadeBallotOwn
<1>10. defaults \in [Replicas -> Ballots]
  <2>1. defaultBallot[r] \in [Replicas -> Ballots]
    BY <1>1 DEF TypeOK
  <2> QED
    BY <1>5, <2>1, LargerOne
<1>11. maxRecvBallot' \in [Replicas -> Ballots]
  BY <1>1, <1>2, <1>5, ReceivedKeeps
<1>12. x \in Instance
  <2> HIDE DEF v, lb
  <2> QED
    BY <1>7, <1>8 DEF Instance, Status, Bookkeeping
<1>13. heard \in Bookkeeping /\ heard.proposals = lb.proposals /\ heard.lastTried = lb.lastTried
  <2> DEFINE w == Larger(lb.ballot, m.vbal)
             cmds == IF m.vbal > lb.ballot THEN m.cmds ELSE lb.cmds
             oks == lb.prepareOKs + 1
  <2> HIDE DEF lb
  <2>1. /\ lb.ballot \in Ballots /\ lb.cmds \in Values /\ lb.prepareOKs \in Nat
    BY <1>7 DEF Bookkeeping
  <2>2. w \in Ballots /\ cmds \in Values /\ oks \in Nat
    BY <1>5, <2>1, LargerOne
  <2>3. heard = [lb EXCEPT !.prepareOKs = oks, !.ballot = w, !.cmds = cmds]
    OBVIOUS
  <2> HIDE DEF w, cmds, oks, heard
  <2> QED
    BY <1>7, <2>2, <2>3 DEF Bookkeeping
<1>14. chosen \in Bookkeeping /\ chosen.proposals = lb.proposals /\ chosen.lastTried = lb.lastTried
  <2> HIDE DEF heard, v, lb
  <2> QED
    BY <1>8, <1>13 DEF Bookkeeping
<1>15. refused \in Bookkeeping /\ refused.proposals = lb.proposals /\ refused.lastTried = lb.lastTried
  <2> HIDE DEF lb
  <2> QED
    BY <1>7 DEF Bookkeeping
<1>16. b <= MaxBallot =>
         /\ retried \in Bookkeeping /\ retried.proposals = lb.proposals
         /\ retried.lastTried = b
         /\ ask \in Message("Prepare") /\ ask.inst = i /\ ask.bal = b
  <2> HIDE DEF lb, b
  <2> SUFFICES ASSUME b <= MaxBallot
               PROVE  <1>16!2
    OBVIOUS
  <2>1. b \in Ballots
    BY <1>9 DEF Ballots
  <2> DEFINE nacks == lb.nacks + 1
  <2>2. nacks \in Nat /\ retried = [lb EXCEPT !.nacks = nacks, !.lastTried = b]
    BY <1>7 DEF Bookkeeping
  <2> HIDE DEF nacks, retried
  <2>3. /\ retried \in Bookkeeping /\ retried.proposals = lb.proposals
        /\ retried.lastTried = b
    BY <1>7, <2>1, <2>2 DEF Bookkeeping
  <2>4. ask \in Message("Prepare") /\ ask.inst = i /\ ask.bal = b
    BY <1>5, <2>1 DEF Message, Prepare
  <2> QED
    BY <2>3, <2>4
<1>17. accept \in Message("Accept") /\ accept.inst = i /\ accept.bal % N = r
  <2> HIDE DEF lb, v
  <2> QED
    BY <1>5, <1>7, <1>8 DEF Message, Accept, Bookkeeping
<1>18. \/ /\ net' = Taken(l)
         /\ UNCHANGED <<defaultBallot, smallestDefaultBallot, insts, lbs>>
      \/ /\ b <= MaxBallot
         /\ lbs' = [lbs EXCEPT ![r][i] = retried]
         /\ net' = Broadcast(Taken(l), r, "Prepare", ask)
         /\ UNCHANGED <<defaultBallot, smallestDefaultBallot, insts>>
      \/ /\ lbs' = [lbs EXCEPT ![r][i] = refused]
         /\ net' = Taken(l)
         /\ UNCHANGED <<defaultBallot, smallestDefaultBallot, insts>>
      \/ /\ defaultBallot' = [defaultBallot EXCEPT ![r] = defaults]
         /\ lbs' = [lbs EXCEPT ![r][i] = chosen]
         /\ insts' = [insts EXCEPT ![r][i] = x]
         /\ smallestDefaultBallot' =
              [smallestDefaultBallot EXCEPT ![r] = Followed(r, defaults)]
         /\ net' = Broadcast(Taken(l), r, "Accept", accept)
      \/ /\ defaultBallot' = [defaultBallot EXCEPT ![r] = defaults]
         /\ lbs' = [lbs EXCEPT ![r][i] = heard]
         /\ net' = Taken(l)
         /\ UNCHANGED <<insts, smallestDefaultBallot>>
  BY DEF HandlePrepareReply, m
<1> HIDE DEF i, lb, b, heard, v, defaults, x, retried, refused, chosen, ask, accept
<1>19. /\ lbs' \in [Replicas -> [Instances -> Bookkeeping \cup {NoBookkeeping}]]
       /\ \A s \in Replicas, j \in Instances :
            /\ lbs'[s][j] # NoBookkeeping <=> Bookkept(s, j)
            /\ Bookkept(s, j) => /\ lbs'[s][j].proposals = lbs[s][j].proposals
                                /\ lbs'[s][j].lastTried % N = s
  <2>1. CASE UNCHANGED lbs
    BY <1>1, <2>1 DEF TypeOK, IInv, BookkeepingKnown, Bookkept
  <2>2. ASSUME NEW y \in Bookkeeping, y.proposals = lb.proposals,
               y.lastTried % N = r, lbs' = [lbs EXCEPT ![r][i] = y]
        PROVE  <1>19!1 /\ <1>19!2
    BY <1>5, <1>6, <2>2, BookUpdated DEF lb
  <2> QED
    BY <1>7, <1>9, <1>13, <1>14, <1>15, <1>16, <1>18, <2>1, <2>2
<1>20. /\ insts' \in [Replicas -> [Instances -> Instance \cup {NoInstance}]]
       /\ \A s \in Replicas, j \in Instances :
            insts'[s][j] # NoInstance <=> Known(s, j)
  <2>1. CASE UNCHANGED insts
    BY <1>1, <2>1 DEF TypeOK, Known
  <2>2. CASE insts' = [insts EXCEPT ![r][i] = x]
    <3>1. /\ insts' \in [Replicas -> [Instances -> Instance \cup {NoInstance}]]
          /\ \A s \in Replicas, j \in Instances :
               insts'[s][j] = IF s = r /\ j = i THEN x ELSE insts[s][j]
      BY <1>1, <1>5, <1>12, <2>2, InstsUpdated
    <3> QED
      BY <1>7, <1>12, <3>1, NilApart DEF Known
  <2> QED
    BY <1>18, <2>1, <2>2
<1>21. /\ Network(net')
       /\ \A z \in Links : \A n \in Queued(net', z) :
            \/ n \in OnLink(z)
            \/ /\ z[1] = r /\ z[3] \in {"Prepare", "Accept", "CommitShort"}
               /\ n.inst = i
               /\ z[3] # "CommitShort" => n.bal % N = r
  <2>1. CASE net' = Taken(l)
    BY <1>4, <2>1
  <2>2. CASE b <= MaxBallot /\ net' = Broadcast(Taken(l), r, "Prepare", ask)
    <3>1. /\ Network(net')
          /\ \A z \in Links : \A n \in Queued(net', z) :
               n \in OnLink(z) \/ (z[1] = r /\ z[3] = "Prepare" /\ n = ask)
      BY <1>1, <1>2, <1>3, <1>16, <2>2, NetTold
    <3> QED
      BY <1>9, <1>16, <2>2, <3>1
  <2>3. CASE net' = Broadcast(Taken(l), r, "Accept", accept)
    <3>1. /\ Network(net')
          /\ \A z \in Links : \A n \in Queued(net', z) :
               n \in OnLink(z) \/ (z[1] = r /\ z[3] = "Accept" /\ n = accept)
      BY <1>1, <1>2, <1>3, <1>17, <2>3, NetTold
    <3> QED
      BY <1>17, <3>1
  <2> QED
    BY <1>18, <2>1, <2>2, <2>3
<1>22. /\ defaultBallot' \in [Replicas -> [Replicas -> Ballots]]
       /\ smallestDefaultBallot' \in [Replicas -> Ballots]
  <2>1. Followed(r, defaults) \in Ballots
    BY <1>1, <1>10, FollowedTyped
  <2>2. /\ defaultBallot \in [Replicas -> [Replicas -> Ballots]]
        /\ smallestDefaultBallot \in [Replicas -> Ballots]
    BY <1>1 DEF TypeOK
  <2> QED
    BY <1>10, <1>18, <2>1, <2>2
<1>23. TypeOK'
  BY <1>1, <1>2, <1>11, <1>19, <1>20, <1>21, <1>22 DEF TypeOK, Network
<1> QED
  BY <1>2, <1>5, <1>6, <1>19, <1>20, <1>21, <1>23, BooksStay

\* An AcceptReply counts, commits, or tries a ballot of r again: with
\* makeBallot() given a ballot for an instance, in other books than those of
\* the instance it prepares.
LEMMA HandleAcceptReplyKeeps ==
  ASSUME IInv, NEW r \in Replicas, NEW q \in Replicas, HandleAcceptReply(r, q)
  PROVE  IInv'
<1> DEFINE l == <<q, r, "AcceptReply">>
           m == Head(net[l])
           i == m.inst
           lb == lbs[r][i]
           inst == insts[r][i]
           hasLb == m.bal \in Instances /\ lbs[r][m.bal] # NoBookkeeping
           b == MadeBallot(r, Larger(maxRecvBallot[r], m.bal))
           nacked == [lbs EXCEPT ![r][i].nacks = @ + 1]
           commits == lb.acceptOKs + 2 >= WriteQuorumSize
           x == [inst EXCEPT !.status = IF commits THEN "COMMITTED" ELSE @]
           refused == [lb EXCEPT !.nacks = @ + 1]
           counted == [lb EXCEPT !.acceptOKs = @ + 1]
           ask == Prepare(i, lbs'[r][i].lastTried)
           short == Prepare(i, inst.bal)
<1>1. TypeOK
  BY DEF IInv
<1>2. /\ Receives(r, q, "AcceptReply")
      /\ maxRecvBallot' = Received(r, m.bal)
      /\ UNCHANGED <<isLeader, crtInstance, defaultBallot,
                     smallestDefaultBallot, proposeChan, toRecover, timeouts,
                     executed, replied>>
  BY DEF HandleAcceptReply
<1>3. {"AcceptReply", "Prepare", "CommitShort"} \subseteq Types
  BY DEF Types
<1>4. /\ m \in Message("AcceptReply") /\ m \in OnLink(l) /\ l \in Links
      /\ Network(Taken(l))
      /\ \A z \in Links : Queued(Taken(l), z) \subseteq OnLink(z)
  BY <1>1, <1>2, <1>3, Taking
<1>5. i \in Instances /\ m.bal \in Ballots
  BY <1>4 DEF Message
<1>6. Bookkept(r, i)
  BY <1>4 DEF IInv, MessagesOwned
<1> HIDE DEF m
<1>7. /\ lb \in Bookkeeping /\ Known(r, i) /\ inst \in Instance
      /\ lb.lastTried % N = r
  BY <1>1, <1>5, <1>6, OpenedTyped DEF IInv, BookkeepingKnown
<1>8. b \in Nat /\ b % N = r
  <2>1. maxRecvBallot[r] \in Ballots
    BY <1>1 DEF TypeOK
  <2> QED
    BY <1>1, <1>5, <2>1, LargerOne, MadeBallotOwn
<1>9. maxRecvBallot' \in [Replicas -> Ballots]
  BY <1>1, <1>2, <1>5, ReceivedKeeps
<1>10. x \in Instance
  <2> HIDE DEF inst, commits
  <2> QED
    BY <1>7 DEF Instance, Status
<1>11. refused \in Bookkeeping /\ refused.proposals = lb.proposals /\ refused.lastTried = lb.lastTried
  <2> HIDE DEF lb
  <2> QED
    BY <1>7 DEF Bookkeeping
<1>12. counted \in Bookkeeping /\ counted.proposals = lb.proposals /\ counted.lastTried = lb.lastTried
  <2> HIDE DEF lb
  <2> QED
    BY <1>7 DEF Bookkeeping
<1>13. short \in Message("CommitShort") /\ short.inst = i
  <2> HIDE DEF inst
  <2> QED
    BY <1>5, <1>7 DEF Message, Prepare, Instance
<1>14. \/ net' = Taken(l) /\ UNCHANGED <<insts, lbs, panicked>>
      \/ /\ hasLb /\ b <= MaxBallot
         /\ lbs' = [nacked EXCEPT ![r][m.bal].lastTried = b]
         /\ net' = Broadcast(Taken(l), r, "Prepare", ask)
         /\ UNCHANGED <<insts, panicked>>
      \/ /\ panicked' = panicked \cup {r}
         /\ net' = Taken(l)
         /\ UNCHANGED <<insts, lbs>>
      \/ /\ lbs' = nacked
         /\ net' = Taken(l)
         /\ UNCHANGED <<insts, panicked>>
      \/ /\ lbs' = [lbs EXCEPT ![r][i] = counted]
         /\ insts' = [insts EXCEPT ![r][i] = x]
         /\ net' = IF commits
                   THEN Broadcast(Taken(l), r, "CommitShort", short)
                   ELSE Taken(l)
         /\ UNCHANGED panicked
  BY DEF HandleAcceptReply, m
<1>15. /\ nacked \in [Replicas -> [Instances -> Bookkeeping \cup {NoBookkeeping}]]
       /\ nacked = [lbs EXCEPT ![r][i] = refused]
       /\ \A s \in Replicas, j \in Instances :
            nacked[s][j] = IF s = r /\ j = i THEN refused ELSE lbs[s][j]
  <2>1. nacked = [lbs EXCEPT ![r][i] = refused]
    OBVIOUS
  <2> HIDE DEF nacked, refused, lb, i
  <2> QED
    BY <1>1, <1>5, <1>11, <2>1, LbsUpdated
<1> HIDE DEF nacked, i, lb, inst, b, commits, x, refused, counted, short
<1>16. /\ refused # NoBookkeeping
       /\ \A s \in Replicas, j \in Instances :
            /\ nacked[s][j] # NoBookkeeping <=> Bookkept(s, j)
            /\ Bookkept(s, j) => /\ nacked[s][j].proposals = lbs[s][j].proposals
                                /\ nacked[s][j].lastTried % N = s
  <2>1. /\ refused # NoBookkeeping
        /\ \A s \in Replicas, j \in Instances :
             Bookkept(s, j) => lbs[s][j].lastTried % N = s
    BY <1>11, NilApart DEF IInv, BookkeepingKnown
  <2> QED
    BY <1>6, <1>7, <1>11, <1>15, <2>1 DEF Bookkept, lb
<1> DEFINE BooksFine ==
             /\ lbs' \in [Replicas -> [Instances -> Bookkeeping \cup {NoBookkeeping}]]
             /\ \A s \in Replicas, j \in Instances :
                  /\ lbs'[s][j] # NoBookkeeping <=> Bookkept(s, j)
                  /\ Bookkept(s, j) => /\ lbs'[s][j].proposals = lbs[s][j].proposals
                                      /\ lbs'[s][j].lastTried % N = s
           NetFine ==
             /\ Network(net')
             /\ \A z \in Links : \A n \in Queued(net', z) :
                  \/ n \in OnLink(z)
                  \/ /\ z[1] = r /\ z[3] \in {"Prepare", "Accept", "CommitShort"}
                     /\ n.inst = i
                     /\ z[3] # "CommitShort" => n.bal % N = r
<1>17. ASSUME hasLb, b <= MaxBallot,
              lbs' = [nacked EXCEPT ![r][m.bal].lastTried = b],
              net' = Broadcast(Taken(l), r, "Prepare", ask)
       PROVE  BooksFine /\ NetFine
  <2> DEFINE y == [nacked[r][m.bal] EXCEPT !.lastTried = b]
  <2>1. b \in Ballots
    BY <1>8, <1>17 DEF Ballots
  <2>2. m.bal \in Instances /\ Bookkept(r, m.bal)
    BY <1>17 DEF Bookkept
  <2>3. nacked[r][m.bal] \in Bookkeeping
    BY <1>15, <1>16, <2>2
  <2>4. /\ y \in Bookkeeping /\ y.lastTried = b
        /\ y.proposals = nacked[r][m.bal].proposals
    BY <2>1, <2>3 DEF Bookkeeping
  <2>5. /\ lbs' \in [Replicas -> [Instances -> Bookkeeping \cup {NoBookkeeping}]]
        /\ \A s \in Replicas, j \in Instances :
             lbs'[s][j] = IF s = r /\ j = m.bal THEN y ELSE nacked[s][j]
    <3>1. lbs' = [nacked EXCEPT ![r][m.bal] = y]
      BY <1>17
    <3> HIDE DEF y
    <3> QED
      BY <1>15, <2>2, <2>4, <3>1
  <2> HIDE DEF y
  <2>6. y # NoBookkeeping
    BY <2>4, NilApart
  <2> HIDE DEF NetFine
  <2>7. BooksFine
    <3> SUFFICES ASSUME NEW s \in Replicas, NEW j \in Instances
                 PROVE  /\ lbs'[s][j] # NoBookkeeping <=> Bookkept(s, j)
                        /\ Bookkept(s, j) =>
                             /\ lbs'[s][j].proposals = lbs[s][j].proposals
                             /\ lbs'[s][j].lastTried % N = s
      BY <2>5
    <3>1. CASE s = r /\ j = m.bal
      BY <1>8, <1>16, <2>2, <2>4, <2>5, <2>6, <3>1
    <3>2. CASE ~ (s = r /\ j = m.bal)
      BY <1>16, <2>5, <3>2
    <3> QED
      BY <3>1, <3>2
  <2>8. lbs'[r][i] \in Bookkeeping /\ lbs'[r][i].lastTried % N = r
    BY <1>5, <1>6, <2>7
  <2>9. ask \in Message("Prepare") /\ ask.inst = i /\ ask.bal % N = r
    BY <1>5, <2>8 DEF Message, Prepare, Bookkeeping
  <2> HIDE DEF ask
  <2>10. /\ Network(net')
         /\ \A z \in Links : \A n \in Queued(net', z) :
              n \in OnLink(z) \/ (z[1] = r /\ z[3] = "Prepare" /\ n = ask)
    BY <1>1, <1>2, <1>3, <1>17, <2>9, NetTold
  <2>11. NetFine
    BY <2>9, <2>10 DEF NetFine
  <2> HIDE DEF NetFine, BooksFine
  <2> QED
    BY <2>7, <2>11
<1>19. BooksFine
  <2>1. CASE UNCHANGED lbs
    BY <1>1, <2>1 DEF TypeOK, IInv, BookkeepingKnown, Bookkept
  <2>2. CASE lbs' = nacked
    BY <1>15, <1>16, <2>2
  <2>3. CASE lbs' = [lbs EXCEPT ![r][i] = counted]
    BY <1>5, <1>6, <1>7, <1>12, <2>3, BookUpdated DEF lb
  <2> HIDE DEF BooksFine, hasLb, NetFine
  <2> QED
    BY <1>14, <1>17, <2>1, <2>2, <2>3
<1>20. NetFine
  <2>1. CASE net' = Taken(l)
    BY <1>4, <2>1
  <2>2. CASE net' = Broadcast(Taken(l), r, "CommitShort", short)
    <3>1. /\ Network(net')
          /\ \A z \in Links : \A n \in Queued(net', z) :
               n \in OnLink(z) \/ (z[1] = r /\ z[3] = "CommitShort" /\ n = short)
      BY <1>1, <1>2, <1>3, <1>13, <2>2, NetTold
    <3> QED
      BY <1>13, <3>1
  <2> HIDE DEF BooksFine, hasLb, NetFine
  <2> QED
    BY <1>14, <1>17, <2>1, <2>2
<1>21. /\ insts' \in [Replicas -> [Instances -> Instance \cup {NoInstance}]]
       /\ \A s \in Replicas, j \in Instances :
            insts'[s][j] # NoInstance <=> Known(s, j)
  <2>1. CASE UNCHANGED insts
    BY <1>1, <2>1 DEF TypeOK, Known
  <2>2. CASE insts' = [insts EXCEPT ![r][i] = x]
    <3>1. /\ insts' \in [Replicas -> [Instances -> Instance \cup {NoInstance}]]
          /\ \A s \in Replicas, j \in Instances :
               insts'[s][j] = IF s = r /\ j = i THEN x ELSE insts[s][j]
      BY <1>1, <1>5, <1>10, <2>2, InstsUpdated
    <3> QED
      BY <1>7, <1>10, <3>1, NilApart DEF Known
  <2> HIDE DEF BooksFine, hasLb, NetFine
  <2> QED
    BY <1>14, <2>1, <2>2
<1>22. panicked' \subseteq Replicas
  BY <1>1, <1>14 DEF TypeOK
<1>23. TypeOK'
  BY <1>1, <1>2, <1>9, <1>19, <1>20, <1>21, <1>22 DEF TypeOK, Network
<1> QED
  BY <1>2, <1>5, <1>6, <1>19, <1>20, <1>21, <1>23, BooksStay

----------------------------------------------------------------------------
LEMMA InitIInv == Init => IInv
<1> SUFFICES ASSUME Init PROVE IInv
  OBVIOUS
<1>1. TypeOK
  <2>1. /\ isLeader \in [Replicas -> BOOLEAN]
        /\ crtInstance \in [Replicas -> Instances \cup {-1}]
        /\ maxRecvBallot \in [Replicas -> Ballots]
        /\ smallestDefaultBallot \in [Replicas -> Ballots]
    BY DEF Init, Ballots
  <2>2. defaultBallot \in [Replicas -> [Replicas -> Ballots]]
    BY DEF Init, Ballots
  <2>3. /\ insts \in [Replicas -> [Instances -> Instance \cup {NoInstance}]]
        /\ lbs \in [Replicas -> [Instances -> Bookkeeping \cup {NoBookkeeping}]]
    BY DEF Init
  <2>4. /\ proposeChan \in [Replicas -> SUBSET Commands]
        /\ toRecover \in [Replicas -> SUBSET Instances]
        /\ timeouts \in [Replicas -> 0 .. MaxTimeouts]
    BY DEF Init
  <2>5. /\ executed \in [Replicas -> Seq(Commands \cup {Noop})]
        /\ replied \in [Replicas -> SUBSET (Commands \X (Commands \cup {Noop}))]
        /\ panicked \subseteq Replicas
    BY DEF Init
  <2>6. /\ DOMAIN net = Links
        /\ \A l \in Links : net[l] \in Seq(Message(l[3]))
    BY DEF Init
  <2> QED
    BY <2>1, <2>2, <2>3, <2>4, <2>5, <2>6 DEF TypeOK
<1>2. NoOverwrite /\ BookkeepingKnown /\ RecoversOpened
  BY DEF Init, NoOverwrite, BookkeepingKnown, RecoversOpened, Known, Bookkept
<1>3. MessagesOwned
  BY DEF Init, MessagesOwned, OnLink
<1>4. ClientsOnce
  <2>1. \A c : Concerned(c) = {}
    BY DEF Init, Concerned
  <2> QED
    BY <2>1 DEF Init, ClientsOnce
<1> QED
  BY <1>1, <1>2, <1>3, <1>4 DEF IInv

LEMMA NextIInv == IInv /\ [Next]_vars => IInv'
<1> SUFFICES ASSUME IInv, [Next]_vars PROVE IInv'
  OBVIOUS
<1>1. ASSUME NEW r \in Replicas, NEW c \in Commands, Propose(r, c) \/ Refuse(r, c)
      PROVE  IInv'
  BY <1>1, ProposeKeeps, RefuseKeeps
<1>2. ASSUME NEW r \in Replicas, NEW q \in Replicas, Handle(r, q)
      PROVE  IInv'
  BY <1>2, HandlePrepareKeeps, HandlePrepareReplyKeeps, HandleAcceptKeeps,
     HandleAcceptReplyKeeps, HandleCommitKeeps, HandleCommitShortKeeps DEF Handle
<1>3. ASSUME NEW r \in Replicas, NEW i \in Instances, Recover(r, i)
      PROVE  IInv'
  BY <1>3, RecoverKeeps
<1>4. ASSUME NEW r \in Replicas, Execute(r) \/ Timeout(r) \/ BeTheLeader(r)
      PROVE  IInv'
  BY <1>4, ExecuteKeeps, TimeoutKeeps, BeTheLeaderKeeps
<1>5. CASE UNCHANGED vars
  BY <1>5 DEF vars, IInv, TypeOK, NoOverwrite, BookkeepingKnown, RecoversOpened,
     MessagesOwned, ClientsOnce, Concerned, Known, Bookkept, OnLink
<1> QED
  BY <1>1, <1>2, <1>3, <1>4, <1>5 DEF Next, Step

\* The inductive invariant of Paxos, whoever leads, times out and recovers.
THEOREM Invariance == Spec => []IInv
  BY InitIInv, NextIInv, PTL DEF Spec

\* The variables keep their types: with TypeOK, no handler reads a field of a
\* nil pointer but the one that HandleAcceptReply says.
THEOREM TypeCorrect == Spec => []TypeOK
<1>1. IInv => TypeOK
  BY DEF IInv
<1> QED
  BY <1>1, Invariance, PTL

\* The instance a leader opens (handlePropose()) lies beyond all its records.
THEOREM NothingOverwritten == Spec => []NoOverwrite
<1>1. IInv => NoOverwrite
  BY DEF IInv
<1> QED
  BY <1>1, Invariance, PTL

\* No two replicas ever work for one ballot (makeBallot()).
THEOREM BallotsHaveOwners == Spec => []BallotsOwned
<1>1. IInv => BallotsOwned
  BY DEF IInv, MessagesOwned, BallotsOwned, OnLink
<1> QED
  BY <1>1, Invariance, PTL

\* A client's batch waits or is the business of exactly one instance, however
\* often Commits give it back.
THEOREM ClientsAreKept == Spec => []ClientsKept
<1>1. ASSUME IInv PROVE ClientsKept
  <2> SUFFICES ASSUME NEW c \in Proposals[InitialLeader]
               PROVE  /\ c \in proposeChan[InitialLeader] => Concerned(c) = {}
                      /\ c \notin proposeChan[InitialLeader] =>
                           Cardinality(Concerned(c)) = 1
    BY DEF ClientsKept
  <2>1. c \in Commands
    BY ReplicaAssumption
  <2>4. c \in proposeChan[InitialLeader] => Concerned(c) = {}
    BY <1>1, <2>1 DEF IInv, ClientsOnce
  <2> SUFFICES ASSUME c \notin proposeChan[InitialLeader]
               PROVE  Cardinality(Concerned(c)) = 1
    BY <2>4
  <2>2. PICK i \in Concerned(c) : \A j \in Concerned(c) : j = i
    BY <1>1, <2>1 DEF IInv, ClientsOnce
  <2>3. Concerned(c) = {i}
    BY <2>2
  <2> QED
    BY <2>3, FS_Singleton
<1> QED
  BY <1>1, Invariance, PTL

----------------------------------------------------------------------------
(***************************************************************************)
(* One leader.                                                             *)
(***************************************************************************)
(***************************************************************************)
(* The network after a message has left the links of T (at most one) and m *)
(* was sent on those of Z.                                                 *)
(***************************************************************************)
Moves(n, T, Z, m) ==
  /\ T \subseteq Links /\ Z \subseteq Links /\ T \cap Z = {}
  /\ \A l \in T : net[l] # << >>
  /\ \A l \in Links :
       n[l] = IF l \in T THEN Tail(net[l])
              ELSE IF l \in Z THEN Append(net[l], m) ELSE net[l]

\* What taking the first message of a queue leaves of its instances.
LEMMA OnceTail ==
  ASSUME NEW S, NEW n, NEW x, NEW l, n[l] \in Seq(S), n[l] # << >>,
         x[l] = Tail(n[l])
  PROVE  /\ InstsOn(x, l) \subseteq InstsOn(n, l)
         /\ Once(n, l) => /\ Once(x, l)
                          /\ InstsOn(x, l) = InstsOn(n, l) \ {Head(n[l]).inst}
<1> DEFINE s == n[l]
<1>1. /\ Len(s) \in Nat /\ Len(s) >= 1 /\ Len(x[l]) = Len(s) - 1
      /\ \A k \in 1 .. Len(x[l]) : x[l][k] = s[k + 1]
      /\ Head(s) = s[1]
  <2>1. s \in Seq(S) /\ s # << >>
    OBVIOUS
  <2> HIDE DEF s
  <2>2. /\ Len(s) \in Nat /\ Len(s) >= 1
        /\ Len(Tail(s)) = Len(s) - 1
        /\ \A k \in 1 .. Len(Tail(s)) : Tail(s)[k] = s[k + 1]
        /\ Head(s) = s[1]
    BY <2>1, Shifted
  <2>3. x[l] = Tail(s)
    BY DEF s
  <2> QED
    BY <2>2, <2>3
<1> HIDE DEF s
<1>2. \A k \in 1 .. Len(x[l]) : k + 1 \in 1 .. Len(s) /\ x[l][k] = s[k + 1]
  BY <1>1
<1>3. InstsOn(x, l) \subseteq InstsOn(n, l)
  BY <1>2 DEF InstsOn, s
<1>4. ASSUME Once(n, l) PROVE Once(x, l)
  <2> SUFFICES ASSUME NEW j \in 1 .. Len(x[l]), NEW k \in 1 .. Len(x[l]),
                      x[l][j].inst = x[l][k].inst
               PROVE  j = k
    BY DEF Once
  <2>1. j + 1 = k + 1
    BY <1>2, <1>4 DEF Once, s
  <2> QED
    BY <2>1
<1>5. ASSUME Once(n, l), NEW i
      PROVE  i \in InstsOn(x, l) <=> i \in InstsOn(n, l) /\ i # Head(s).inst
  <2>1. ASSUME NEW k \in 1 .. Len(x[l]), x[l][k].inst = s[1].inst PROVE FALSE
    <3>1. k + 1 \in 1 .. Len(s) /\ 1 \in 1 .. Len(s) /\ s[k + 1].inst = s[1].inst
      BY <1>1, <1>2, <2>1
    <3>2. k + 1 = 1
      BY <3>1, <1>5 DEF Once, s
    <3> QED
      BY <3>2
  <2>2. ASSUME i \in InstsOn(x, l)
        PROVE  i \in InstsOn(n, l) /\ i # Head(s).inst
    <3>1. PICK k \in 1 .. Len(x[l]) : i = x[l][k].inst
      BY <2>2 DEF InstsOn
    <3>2. x[l][k].inst # s[1].inst
      BY <2>1
    <3> QED
      BY <2>2, <1>3, <3>1, <3>2, <1>1
  <2>3. ASSUME i \in InstsOn(n, l), i # Head(s).inst
        PROVE  i \in InstsOn(x, l)
    <3>1. PICK k \in 1 .. Len(s) : i = s[k].inst
      BY <2>3 DEF InstsOn, s
    <3>2. k # 1
      BY <3>1, <2>3, <1>1
    <3>3. k - 1 \in 1 .. Len(x[l]) /\ (k - 1) + 1 = k
      <4> DEFINE z == x[l]
      <4>1. Len(z) = Len(s) - 1 /\ Len(s) \in Nat
        BY <1>1
      <4> HIDE DEF s, z
      <4>2. k - 1 \in 1 .. Len(z) /\ (k - 1) + 1 = k
        BY <3>2, <4>1
      <4> QED
        BY <4>2 DEF z
    <3>4. x[l][k - 1] = s[(k - 1) + 1]
      BY <1>1, <3>3
    <3> QED
      BY <3>1, <3>3, <3>4 DEF InstsOn
  <2> QED
    BY <2>2, <2>3
<1> QED
  BY <1>3, <1>4, <1>5 DEF s

\* What appending a message to a queue adds.
LEMMA OnceAppend ==
  ASSUME NEW S, NEW n, NEW x, NEW l, NEW m \in S, n[l] \in Seq(S),
         x[l] = Append(n[l], m)
  PROVE  /\ InstsOn(x, l) = InstsOn(n, l) \cup {m.inst}
         /\ Once(n, l) /\ m.inst \notin InstsOn(n, l) => Once(x, l)
<1>1. /\ Len(n[l]) \in Nat /\ Len(x[l]) = Len(n[l]) + 1
      /\ \A k \in 1 .. Len(n[l]) : x[l][k] = n[l][k]
      /\ x[l][Len(n[l]) + 1] = m
  BY Appended
<1>2. \A i : i \in InstsOn(x, l) <=> i \in InstsOn(n, l) \/ i = m.inst
  <2> SUFFICES ASSUME NEW i
               PROVE  i \in InstsOn(x, l) <=> i \in InstsOn(n, l) \/ i = m.inst
    OBVIOUS
  <2>1. ASSUME i \in InstsOn(x, l) PROVE i \in InstsOn(n, l) \/ i = m.inst
    <3>1. PICK k \in 1 .. Len(x[l]) : i = x[l][k].inst
      BY <2>1 DEF InstsOn
    <3>2. k \in 1 .. Len(n[l]) \/ k = Len(n[l]) + 1
      BY <1>1
    <3> QED
      BY <3>1, <3>2, <1>1 DEF InstsOn
  <2>2. ASSUME i \in InstsOn(n, l) PROVE i \in InstsOn(x, l)
    <3>1. PICK k \in 1 .. Len(n[l]) : i = n[l][k].inst
      BY <2>2 DEF InstsOn
    <3>2. k \in 1 .. Len(x[l]) /\ x[l][k] = n[l][k]
      BY <1>1
    <3> QED
      BY <3>1, <3>2 DEF InstsOn
  <2>3. m.inst \in InstsOn(x, l)
    BY <1>1 DEF InstsOn
  <2> QED
    BY <2>1, <2>2, <2>3
<1>3. ASSUME Once(n, l), m.inst \notin InstsOn(n, l) PROVE Once(x, l)
  <2> SUFFICES ASSUME NEW j \in 1 .. Len(x[l]), NEW k \in 1 .. Len(x[l]),
                      x[l][j].inst = x[l][k].inst
               PROVE  j = k
    BY DEF Once
  <2>1. ASSUME NEW k1 \in 1 .. Len(n[l]) PROVE x[l][k1].inst # m.inst
    BY <1>1, <1>3, <2>1 DEF InstsOn
  <2>2. /\ j \in 1 .. Len(n[l]) \/ (j = Len(n[l]) + 1 /\ x[l][j].inst = m.inst)
        /\ k \in 1 .. Len(n[l]) \/ (k = Len(n[l]) + 1 /\ x[l][k].inst = m.inst)
    BY <1>1
  <2>3. CASE j \in 1 .. Len(n[l]) /\ k \in 1 .. Len(n[l])
    BY <1>1, <1>3, <2>3 DEF Once
  <2> QED
    BY <2>1, <2>2, <2>3
<1> QED
  BY <1>2, <1>3

\* The instances on the links after such a move.
LinksAfter(n, T, Z, m) ==
  \A l \in Links :
    /\ InstsOn(n, l) \subseteq
         InstsOn(net, l) \cup (IF l \in Z THEN {m.inst} ELSE {})
    /\ Once(net, l) \/ l \notin T => InstsOn(n, l) =
         IF l \in T THEN InstsOn(net, l) \ {Head(net[l]).inst}
         ELSE IF l \in Z THEN InstsOn(net, l) \cup {m.inst}
         ELSE InstsOn(net, l)
    /\ Once(net, l) /\ (l \in Z => m.inst \notin InstsOn(net, l)) => Once(n, l)

LEMMA Moved ==
  ASSUME TypeOK, NEW n, NEW T, NEW Z, NEW m, Moves(n, T, Z, m),
         \A l \in Z : m \in Message(l[3])
  PROVE  LinksAfter(n, T, Z, m)
<1> SUFFICES ASSUME NEW l \in Links
             PROVE  /\ InstsOn(n, l) \subseteq
                         InstsOn(net, l) \cup (IF l \in Z THEN {m.inst} ELSE {})
                    /\ Once(net, l) \/ l \notin T => InstsOn(n, l) =
                         IF l \in T THEN InstsOn(net, l) \ {Head(net[l]).inst}
                         ELSE IF l \in Z THEN InstsOn(net, l) \cup {m.inst}
                         ELSE InstsOn(net, l)
                    /\ Once(net, l) /\ (l \in Z => m.inst \notin InstsOn(net, l))
                         => Once(n, l)
  BY DEF LinksAfter
<1>1. net[l] \in Seq(Message(l[3]))
  BY DEF TypeOK
<1>2. CASE l \in T
  <2>1. net[l] # << >> /\ n[l] = Tail(net[l]) /\ l \notin Z
    BY <1>2 DEF Moves
  <2>2. /\ InstsOn(n, l) \subseteq InstsOn(net, l)
        /\ Once(net, l) => /\ Once(n, l)
                           /\ InstsOn(n, l) = InstsOn(net, l) \ {Head(net[l]).inst}
    <3> DEFINE S == Message(l[3])
    <3>1. net[l] \in Seq(S)
      BY <1>1
    <3> HIDE DEF S
    <3> QED
      BY <3>1, <2>1, OnceTail, Zenon
  <2> QED
    BY <1>2, <2>1, <2>2
<1>3. CASE l \in Z
  <2>1. n[l] = Append(net[l], m) /\ l \notin T /\ m \in Message(l[3])
    BY <1>3 DEF Moves
  <2>2. /\ InstsOn(n, l) = InstsOn(net, l) \cup {m.inst}
        /\ Once(net, l) /\ m.inst \notin InstsOn(net, l) => Once(n, l)
    <3> DEFINE S == Message(l[3])
    <3>1. net[l] \in Seq(S) /\ m \in S
      BY <1>1, <2>1
    <3> HIDE DEF S
    <3> QED
      BY <2>1, <3>1, OnceAppend, Zenon
  <2> QED
    BY <1>3, <2>1, <2>2
<1>4. CASE l \notin T /\ l \notin Z
  <2>1. n[l] = net[l]
    BY <1>4 DEF Moves
  <2> QED
    BY <2>1, <1>4 DEF InstsOn, Once
<1> QED
  BY <1>2, <1>3, <1>4

\* The instances and the messages on the links after such a move.
AfterMove(n, T, Z, m) ==
  /\ LinksAfter(n, T, Z, m)
  /\ \A l \in Links : \A y \in Queued(n, l) : y \in OnLink(l) \/ (l \in Z /\ y = m)

\* A message is taken, and nothing sent.
LEMMA Took ==
  ASSUME TypeOK, NEW r \in Replicas, NEW q \in Replicas, NEW t \in Types,
         Receives(r, q, t), NEW m
  PROVE  AfterMove(Taken(<<q, r, t>>), {<<q, r, t>>}, {}, m)
<1> DEFINE l == <<q, r, t>>
           n == Taken(l)
<1>1. /\ l \in Links /\ net[l] # << >>
      /\ \A x \in Links : Queued(n, x) \subseteq OnLink(x)
  BY Taking DEF Receives
<1>2. Moves(n, {l}, {}, m)
  BY <1>1 DEF Moves, Taken, TypeOK
<1> HIDE DEF n, l
<1>3. LinksAfter(n, {l}, {}, m)
  BY <1>2, Moved
<1> QED
  BY <1>1, <1>3 DEF AfterMove, n, l

\* r answers q.
LEMMA Answered ==
  ASSUME TypeOK, NEW r \in Replicas, NEW q \in Replicas, NEW t \in Types,
         Receives(r, q, t), NEW u \in Types, NEW m \in Message(u)
  PROVE  AfterMove(Sent(Taken(<<q, r, t>>), r, q, u, m), {<<q, r, t>>}, {<<r, q, u>>}, m)
<1> DEFINE l == <<q, r, t>>
           a == <<r, q, u>>
           n == Sent(Taken(<<q, r, t>>), r, q, u, m)
<1>1. /\ l \in Links /\ net[l] # << >> /\ r # q
  BY Taking DEF Receives
<1>2. a \in Links /\ a # l /\ a[3] = u
  BY <1>1 DEF Links
<1>3. \A x \in Links : \A y \in Queued(n, x) : y \in OnLink(x) \/ (x \in {a} /\ y = m)
  BY NetAnswered
<1>4. Moves(n, {l}, {a}, m)
  BY <1>1, <1>2 DEF Moves, Sent, Taken, TypeOK
<1>5. \A x \in {a} : m \in Message(x[3])
  BY <1>2
<1> HIDE DEF n, l, a
<1>6. LinksAfter(n, {l}, {a}, m)
  BY <1>4, <1>5, Moved
<1> QED
  BY <1>3, <1>6 DEF AfterMove, n, l, a

\* The links on which r sends to all.
ToAll(r, u) == {l \in Links : l[1] = r /\ l[3] = u}

\* r takes a message and tells its peers, or tells them unasked.
LEMMA Told ==
  ASSUME TypeOK, NEW r \in Replicas, NEW q \in Replicas, NEW t \in Types,
         Receives(r, q, t), NEW u \in Types, NEW m \in Message(u)
  PROVE  AfterMove(Broadcast(Taken(<<q, r, t>>), r, u, m), {<<q, r, t>>}, ToAll(r, u), m)
<1> DEFINE l == <<q, r, t>>
           Z == ToAll(r, u)
           n == Broadcast(Taken(<<q, r, t>>), r, u, m)
<1>1. /\ l \in Links /\ net[l] # << >> /\ r # q
  BY Taking DEF Receives
<1>2. l \notin Z /\ Z \subseteq Links
  BY <1>1 DEF ToAll
<1>3. \A x \in Links : \A y \in Queued(n, x) : y \in OnLink(x) \/ (x \in Z /\ y = m)
  BY NetTold DEF ToAll
<1>4. Moves(n, {l}, Z, m)
  <2>1. \A x \in Links : Taken(l)[x] = IF x = l THEN Tail(net[l]) ELSE net[x]
    BY DEF Taken, TypeOK
  <2>2. \A x \in Links : n[x] = IF x \in Z THEN Append(Taken(l)[x], m) ELSE Taken(l)[x]
    BY DEF Broadcast, ToAll
  <2> HIDE DEF n, Z
  <2> QED
    BY <1>1, <1>2, <2>1, <2>2 DEF Moves
<1>5. \A x \in Z : m \in Message(x[3])
  BY DEF ToAll
<1> HIDE DEF n, l, Z
<1>6. LinksAfter(n, {l}, Z, m)
  BY <1>4, <1>5, Moved
<1> QED
  BY <1>3, <1>6 DEF AfterMove, n, l, Z

LEMMA Announced ==
  ASSUME TypeOK, NEW r \in Replicas, NEW u \in Types, NEW m \in Message(u)
  PROVE  AfterMove(Broadcast(net, r, u, m), {}, ToAll(r, u), m)
<1> DEFINE Z == ToAll(r, u)
           n == Broadcast(net, r, u, m)
<1>1. Z \subseteq Links
  BY DEF ToAll
<1>3. \A x \in Links : \A y \in Queued(n, x) : y \in OnLink(x) \/ (x \in Z /\ y = m)
  <2>1. Network(net)
    BY DEF TypeOK, Network
  <2>2. \A x \in Links : \A y \in Queued(n, x) :
              y \in Queued(net, x) \/ (x[1] = r /\ x[3] = u /\ y = m)
    BY <2>1, NetBroadcast
  <2> QED
    BY <2>2 DEF ToAll, Queued, OnLink
<1>4. Moves(n, {}, Z, m)
  <2>2. \A x \in Links : n[x] = IF x \in Z THEN Append(net[x], m) ELSE net[x]
    BY DEF Broadcast, ToAll
  <2> HIDE DEF n, Z
  <2> QED
    BY <1>1, <2>2 DEF Moves
<1>5. \A x \in Z : m \in Message(x[3])
  BY DEF ToAll
<1> HIDE DEF n, Z
<1>6. LinksAfter(n, {}, Z, m)
  BY <1>4, <1>5, Moved
<1> QED
  BY <1>3, <1>6 DEF AfterMove, n, Z

----------------------------------------------------------------------------

\* The links between the leader and a peer.
LEMMA PeerLinks ==
  ASSUME NEW q \in Peers
  PROVE  /\ q \in Replicas /\ q # InitialLeader /\ InitialLeader \in Replicas
         /\ \A t \in {"Prepare", "Accept", "CommitShort"} :
              <<InitialLeader, q, t>> \in Links
         /\ \A t \in {"PrepareReply", "AcceptReply", "Commit"} :
              <<q, InitialLeader, t>> \in Links
BY DEF Peers, Links, Types

\* There are N - 1 peers.
LEMMA PeersCount ==
  IsFiniteSet(Peers) /\ Cardinality(Peers) = N - 1
<1>1. IsFiniteSet(0 .. N - 1) /\ Cardinality(0 .. N - 1) = N
  <2>1. /\ IsFiniteSet(0 .. N - 1)
        /\ Cardinality(0 .. N - 1) = IF 0 > N - 1 THEN 0 ELSE (N - 1) - 0 + 1
    BY FS_Interval
  <2> QED
    BY <2>1
<1>2. IsFiniteSet(Replicas) /\ Cardinality(Replicas) = N
  BY <1>1 DEF Replicas
<1>3. /\ IsFiniteSet(Replicas \ {InitialLeader})
      /\ Cardinality(Replicas \ {InitialLeader}) = Cardinality(Replicas) - 1
  BY <1>2, FS_RemoveElement
<1> QED
  BY <1>2, <1>3 DEF Peers

\* The step leaves instance j alone.
Untouched(j) ==
  /\ \A s \in Replicas : insts'[s][j] = insts[s][j] /\ lbs'[s][j] = lbs[s][j]
  /\ \A l \in Links : j \in InstsOn(net', l) => j \in InstsOn(net, l)
  /\ \A l \in Links :
       l[3] \in {"Prepare", "PrepareReply", "Commit"} /\ j \in InstsOn(net, l)
         => j \in InstsOn(net', l)

LEMMA OthersStay ==
  ASSUME NEW j \in Instances, Untouched(j), InstanceSteady(j)
  PROVE  InstanceSteady(j)'
<1>1. \A s \in Replicas : insts'[s][j] = insts[s][j] /\ lbs'[s][j] = lbs[s][j]
  BY DEF Untouched
<1>2. \A q \in Peers :
        /\ j \in InstsOn(net', <<InitialLeader, q, "Prepare">>) <=> j \in Asked(q)
        /\ j \in InstsOn(net', <<q, InitialLeader, "PrepareReply">>) <=> j \in Promised(q)
        /\ j \in InstsOn(net', <<q, InitialLeader, "Commit">>) <=> j \in Corrected(q)
        /\ j \in InstsOn(net', <<q, InitialLeader, "AcceptReply">>) => j \in Accepting(q)
        /\ j \in InstsOn(net', <<InitialLeader, q, "CommitShort">>) => j \in Shortened(q)
  BY PeerLinks DEF Untouched, Asked, Promised, Corrected, Accepting, Shortened
<1>3. Finished(j)' = Finished(j)
  BY <1>2 DEF Finished, Asked, Promised, Corrected
<1>4. InitialLeader \in Replicas /\ Peers \subseteq Replicas
  BY DEF Peers
<1>5. \A q \in Peers :
        /\ insts'[q][j] = insts[q][j]
        /\ insts'[InitialLeader][j] = insts[InitialLeader][j]
        /\ lbs'[InitialLeader][j] = lbs[InitialLeader][j]
  BY <1>1, <1>4
<1>6. LeaderProposes(j)'
  BY <1>1, <1>4 DEF InstanceSteady, LeaderProposes, Known, Bookkept, Proposed, BatchTaken
<1>7. PeersCopy(j)'
  BY <1>2, <1>5 DEF InstanceSteady, PeersCopy, HasAccepted, Known, Proposed, Asked
<1>8. RoundTrip(j)'
  BY <1>2, <1>5 DEF InstanceSteady, RoundTrip, HasAccepted, Known, Proposed,
     Asked, Promised, Corrected
<1>9. PromisesCounted(j)' /\ ProposedAfterPromises(j)'
  BY <1>1, <1>3, <1>4 DEF InstanceSteady, PromisesCounted, ProposedAfterPromises,
     Known, Promises, BatchTaken, Proposed
<1>10. DecidedByLeader(j)'
  BY <1>2, <1>5 DEF InstanceSteady, DecidedByLeader, Decided, Shortened, Known,
     Proposed, Promises
<1>11. CommitsAccepted(j)'
  <2>1. SomePeerAccepted(j)' <=> SomePeerAccepted(j)
    BY <1>5 DEF SomePeerAccepted, HasAccepted, Known, Proposed
  <2> QED
    BY <2>1, <1>1, <1>2, <1>4, <1>5 DEF InstanceSteady, CommitsAccepted, Decided,
       Shortened, Accepting, Known
<1> QED
  BY <1>6, <1>7, <1>8, <1>9, <1>10, <1>11 DEF InstanceSteady

\* What the leader has proposed stays, and with it what others made of it.
ProposalsStay ==
  \A i \in Instances :
    Known(InitialLeader, i) =>
      /\ insts'[InitialLeader][i] # NoInstance
      /\ Proposed(i) # None => insts'[InitialLeader][i].cmds = Proposed(i)
AcceptedStay ==
  \A q \in Peers, i \in Instances : HasAccepted(q, i) =>
    /\ insts'[q][i] # NoInstance
    /\ insts'[q][i].cmds = insts[q][i].cmds
    /\ insts'[q][i].vbal = InitialLeader
    /\ insts'[q][i].status \in {"ACCEPTED", "COMMITTED"}

LEMMA AcceptedStays ==
  ASSUME ProposalsStay, AcceptedStay, NEW i \in Instances, Known(InitialLeader, i),
         NEW q \in Peers, HasAccepted(q, i)
  PROVE  /\ insts'[q][i] # NoInstance
         /\ insts'[q][i].cmds = insts'[InitialLeader][i].cmds
         /\ insts'[q][i].cmds # None
         /\ insts'[q][i].vbal = InitialLeader
         /\ insts'[q][i].status \in {"ACCEPTED", "COMMITTED"}
BY DEF ProposalsStay, AcceptedStay, HasAccepted, Proposed

LEMMA ExecutedStay ==
  ASSUME ProposalsStay, AcceptedStay, executed' = executed, ExecutedProposed
  PROVE  ExecutedProposed'
<1> SUFFICES ASSUME NEW r \in Replicas, NEW k \in 1 .. Len(executed[r])
             PROVE  /\ k - 1 \in Instances /\ Known(InitialLeader, k - 1)'
                    /\ executed[r][k] = Proposed(k - 1)' /\ executed[r][k] # None
                    /\ SomePeerAccepted(k - 1)'
  BY DEF ExecutedProposed
<1>1. /\ k - 1 \in Instances /\ Known(InitialLeader, k - 1)
      /\ executed[r][k] = Proposed(k - 1) /\ executed[r][k] # None
      /\ SomePeerAccepted(k - 1)
  BY DEF ExecutedProposed
<1>2. /\ Known(InitialLeader, k - 1)'
      /\ executed[r][k] = Proposed(k - 1)'
  BY <1>1 DEF ProposalsStay, Known, Proposed
<1>3. PICK q \in Peers : HasAccepted(q, k - 1)
  BY <1>1 DEF SomePeerAccepted
<1>4. HasAccepted(q, k - 1)'
  BY <1>1, <1>3, AcceptedStays DEF HasAccepted, Known, Proposed
<1> QED
  BY <1>1, <1>2, <1>4 DEF SomePeerAccepted

\* Messages stay the leader's when those sent are.
LEMMA MessagesStayLeaders ==
  ASSUME TypeOK, MessagesOfLeader, ProposalsStay,
         \A l \in Links : \A y \in Queued(net', l) : y \in OnLink(l) \/ FromLeader(l, y)'
  PROVE  MessagesOfLeader'
<1> SUFFICES ASSUME NEW l \in Links, NEW y \in Queued(net', l)
             PROVE  FromLeader(l, y)'
  BY DEF MessagesOfLeader, Queued, OnLink
<1>1. CASE y \in OnLink(l)
  <2>1. FromLeader(l, y)
    BY <1>1 DEF MessagesOfLeader
  <2>2. y.inst \in Instances
    <3>1. net[l] \in Seq(Message(l[3]))
      BY DEF TypeOK
    <3>2. y \in Message(l[3])
      BY <3>1, <1>1 DEF OnLink
    <3> QED
      BY <3>2 DEF Message
  <2> QED
    BY <2>1, <2>2 DEF FromLeader, ProposalsStay, Known, Proposed
<1> QED
  BY <1>1

\* A step that concerns one instance.
LEMMA OneInstanceSteps ==
  ASSUME SteadyInv, NEW i \in Instances,
         \A j \in Instances : j # i => Untouched(j),
         InstanceSteady(i)', OneBallot', MessagesOfLeader', RoundTripsOnce',
         ExecutedProposed', RepliesMatch'
  PROVE  SteadyInv'
<1>1. ASSUME NEW j \in Instances PROVE InstanceSteady(j)'
  <2>1. CASE j = i
    BY <2>1
  <2>2. CASE j # i
    <3>1. InstanceSteady(j)
      BY DEF SteadyInv
    <3> QED
      BY <2>2, <3>1, OthersStay
  <2> QED
    BY <2>1, <2>2
<1> QED
  BY <1>1 DEF SteadyInv

\* The leader's ballot is its identity.
LEMMA LeaderBallot ==
  ASSUME TypeOK, OneBallot, isLeader[InitialLeader],
         NEW m \in {-1, InitialLeader}
  PROVE  MadeBallot(InitialLeader, m) = InitialLeader
<1>1. /\ InitialLeader \in Nat /\ InitialLeader % N = InitialLeader
      /\ InitialLeader \in 0 .. N - 1
  BY OwnResidue DEF Replicas
<1>2. \A a \in 0 .. InitialLeader : a % N = a
  <2>1. ASSUME NEW a \in 0 .. InitialLeader PROVE a \in Replicas
    BY <1>1, <2>1 DEF Replicas
  <2> QED
    BY <2>1, OwnResidue
<1> DEFINE d == defaultBallot[InitialLeader][InitialLeader]
<1>3. d \in {-1, InitialLeader}
  BY DEF OneBallot
<1> HIDE DEF d
<1> DEFINE fits(b) == /\ b \in {n \in 0 .. MaxBallot + N : n % N = InitialLeader}
                      /\ b >= d /\ b >= m
                      /\ \A a \in 0 .. b - 1 :
                           a % N = InitialLeader => a < d \/ a < m
<1>4. fits(InitialLeader)
  <2>1. InitialLeader \in 0 .. MaxBallot + N
    BY <1>1
  <2>2. \A a \in 0 .. InitialLeader - 1 : a % N # InitialLeader
    BY <1>1, <1>2
  <2> QED
    BY <1>1, <1>3, <2>1, <2>2
<1>5. ASSUME NEW b, fits(b) PROVE b = InitialLeader
  <2>1. b \in 0 .. MaxBallot + N /\ b % N = InitialLeader
    BY <1>5
  <2>2. ~ (b < InitialLeader)
    BY <1>1, <1>2, <2>1
  <2>3. ~ (b > InitialLeader)
    <3>1. SUFFICES ASSUME b > InitialLeader PROVE FALSE
      OBVIOUS
    <3>2. InitialLeader \in 0 .. b - 1
      BY <1>1, <2>1, <3>1
    <3>3. InitialLeader < d \/ InitialLeader < m
      BY <1>1, <1>5, <3>2
    <3> QED
      BY <1>1, <1>3, <3>3
  <2> QED
    BY <1>1, <2>1, <2>2, <2>3
<1>6. MadeBallot(InitialLeader, m) =
        CHOOSE b \in {n \in 0 .. MaxBallot + N : n % N = InitialLeader} :
          /\ b >= d /\ b >= m
          /\ \A a \in 0 .. b - 1 : a % N = InitialLeader => a < d \/ a < m
  BY DEF MadeBallot, d
<1> QED
  BY <1>4, <1>5, <1>6

----------------------------------------------------------------------------
\* What a replica takes is the leader's, or sent to the leader.
LEMMA TakingLeaders ==
  ASSUME IInv, SteadyInv, NEW r \in Replicas, NEW q \in Replicas, NEW t \in Types,
         Receives(r, q, t)
  PROVE  LET l == <<q, r, t>>
             m == Head(net[l])
         IN /\ l \in Links /\ m \in Message(t) /\ m.inst \in Instances
            /\ m.inst \in InstsOn(net, l)
            /\ FromLeader(l, m) /\ m.bal = InitialLeader
            /\ IF t \in {"Prepare", "Accept", "CommitShort"}
               THEN q = InitialLeader /\ r \in Peers
               ELSE r = InitialLeader /\ q \in Peers
<1> DEFINE l == <<q, r, t>>
           m == Head(net[l])
<1>1. r # q /\ l \in Links /\ m \in Message(t) /\ m \in OnLink(l)
  BY Taking DEF IInv
<1>2. m.inst \in Instances
  BY <1>1 DEF Message
<1>3. m.inst \in InstsOn(net, l)
  BY <1>1 DEF OnLink, InstsOn
<1>4. FromLeader(l, m)
  BY <1>1 DEF SteadyInv, MessagesOfLeader
<1>5. l[1] = q /\ l[2] = r /\ l[3] = t
  OBVIOUS
<1> HIDE DEF l, m
<1>6. m.bal = InitialLeader
  BY <1>4 DEF FromLeader
<1>7. IF t \in {"Prepare", "Accept", "CommitShort"}
      THEN q = InitialLeader /\ r \in Peers
      ELSE r = InitialLeader /\ q \in Peers
  BY <1>1, <1>4, <1>5 DEF FromLeader, Peers
<1> QED
  BY <1>1, <1>2, <1>3, <1>4, <1>6, <1>7 DEF l, m

\* When only messages about instance i move, the others are left alone.
LEMMA OthersUntouched ==
  ASSUME RoundTripsOnce, NEW i \in Instances,
         NEW T, NEW Z, NEW m, AfterMove(net', T, Z, m), T \subseteq Links,
         \A l \in T : Head(net[l]).inst = i,
         \A l \in Z : m.inst = i,
         \A s \in Replicas, j \in Instances :
           j # i => insts'[s][j] = insts[s][j] /\ lbs'[s][j] = lbs[s][j]
  PROVE  \A j \in Instances : j # i => Untouched(j)
<1> SUFFICES ASSUME NEW j \in Instances, j # i
             PROVE  Untouched(j)
  OBVIOUS
<1>1. ASSUME NEW l \in Links, j \in InstsOn(net', l)
      PROVE  j \in InstsOn(net, l)
  BY <1>1 DEF AfterMove, LinksAfter
<1>2. ASSUME NEW l \in Links, l[3] \in {"Prepare", "PrepareReply", "Commit"},
             j \in InstsOn(net, l)
      PROVE  j \in InstsOn(net', l)
  <2>1. Once(net, l)
    BY <1>2 DEF RoundTripsOnce
  <2>2. InstsOn(net', l) = IF l \in T THEN InstsOn(net, l) \ {Head(net[l]).inst}
            ELSE IF l \in Z THEN InstsOn(net, l) \cup {m.inst}
            ELSE InstsOn(net, l)
    BY <2>1 DEF AfterMove, LinksAfter
  <2> QED
    BY <1>2, <2>2
<1> QED
  BY <1>1, <1>2 DEF Untouched

\* No message of the first round trip comes twice when one is sent that the
\* link has not.
LEMMA RoundTripsStayOnce ==
  ASSUME RoundTripsOnce, NEW T, NEW Z, NEW m, AfterMove(net', T, Z, m),
         \A l \in Z : l[3] \in {"Prepare", "PrepareReply", "Commit"} =>
                       m.inst \notin InstsOn(net, l)
  PROVE  RoundTripsOnce'
<1> SUFFICES ASSUME NEW l \in Links, l[3] \in {"Prepare", "PrepareReply", "Commit"}
             PROVE  Once(net', l)
  BY DEF RoundTripsOnce
<1>1. Once(net, l) /\ (l \in Z => m.inst \notin InstsOn(net, l))
  BY DEF RoundTripsOnce
<1> QED
  BY <1>1 DEF AfterMove, LinksAfter

\* A step of peer r about instance i of the leader.
PeersRecord(r, i) ==
  /\ lbs' = lbs
  /\ \A s \in Replicas, j \in Instances :
       ~ (s = r /\ j = i) => insts'[s][j] = insts[s][j]
  /\ insts'[r][i] # NoInstance =>
       /\ insts'[r][i].bal = InitialLeader
       /\ \/ /\ insts'[r][i].cmds = Proposed(i) /\ Proposed(i) # None
             /\ insts'[r][i].vbal = InitialLeader
             /\ insts'[r][i].status \in {"ACCEPTED", "COMMITTED"}
          \/ /\ insts'[r][i].cmds = None /\ insts'[r][i].status # "ACCEPTED"
             /\ i \notin InstsOn(net', <<InitialLeader, r, "Prepare">>)
       /\ insts'[r][i].status = "COMMITTED" => Decided(r, i)
  /\ HasAccepted(r, i) =>
       /\ insts'[r][i] # NoInstance /\ insts'[r][i].cmds = Proposed(i)
       /\ insts[r][i].status = "COMMITTED" => insts'[r][i].status = "COMMITTED"
PeersMessages(r, i) ==
  /\ \A q \in Peers \ {r} :
       /\ i \in InstsOn(net', <<InitialLeader, q, "Prepare">>) <=> i \in Asked(q)
       /\ i \in InstsOn(net', <<q, InitialLeader, "PrepareReply">>) <=> i \in Promised(q)
       /\ i \in InstsOn(net', <<q, InitialLeader, "Commit">>) <=> i \in Corrected(q)
  /\ \/ /\ i \in InstsOn(net', <<InitialLeader, r, "Prepare">>) <=> i \in Asked(r)
        /\ i \in InstsOn(net', <<r, InitialLeader, "PrepareReply">>) <=> i \in Promised(r)
        /\ i \in InstsOn(net', <<r, InitialLeader, "Commit">>) <=> i \in Corrected(r)
     \/ /\ i \in Asked(r) /\ i \notin InstsOn(net', <<InitialLeader, r, "Prepare">>)
        /\ \/ /\ i \in InstsOn(net', <<r, InitialLeader, "PrepareReply">>)
              /\ i \notin InstsOn(net', <<r, InitialLeader, "Commit">>)
           \/ /\ i \notin InstsOn(net', <<r, InitialLeader, "PrepareReply">>)
              /\ i \in InstsOn(net', <<r, InitialLeader, "Commit">>)
              /\ HasAccepted(r, i) /\ insts[r][i].status = "COMMITTED"
  /\ \A q \in Peers :
       /\ i \in InstsOn(net', <<InitialLeader, q, "CommitShort">>) => i \in Shortened(q)
       /\ i \in InstsOn(net', <<q, InitialLeader, "AcceptReply">>) =>
            \/ i \in Accepting(q) \/ SomePeerAccepted(i) \/ HasAccepted(r, i)'

LEMMA PeerSteps ==
  ASSUME NEW r \in Peers, NEW i \in Instances, Known(InitialLeader, i),
         InstanceSteady(i), PeersRecord(r, i), PeersMessages(r, i)
  PROVE  InstanceSteady(i)'
<1>1. /\ InitialLeader \in Replicas /\ Peers \subseteq Replicas
      /\ InitialLeader # r /\ InitialLeader \notin Peers
  BY DEF Peers
<1>2. /\ insts'[InitialLeader][i] = insts[InitialLeader][i]
      /\ lbs' = lbs
      /\ \A q \in Peers \ {r} : insts'[q][i] = insts[q][i]
  BY <1>1 DEF PeersRecord
<1>3. \A q \in Peers : HasAccepted(q, i) =>
        /\ insts'[q][i] # NoInstance /\ insts'[q][i].cmds = Proposed(i)
        /\ Proposed(i) # None /\ insts'[q][i].vbal = InitialLeader
        /\ insts'[q][i].status \in {"ACCEPTED", "COMMITTED"}
        /\ insts[q][i].status = "COMMITTED" => insts'[q][i].status = "COMMITTED"
  <2>1. CASE HasAccepted(r, i)
    BY <1>2, <2>1 DEF HasAccepted, PeersRecord, Known
  <2> QED
    BY <1>2, <2>1 DEF HasAccepted, Known
<1>4. SomePeerAccepted(i) => SomePeerAccepted(i)'
  BY <1>2, <1>3 DEF SomePeerAccepted, HasAccepted, Known, Proposed
<1>5. \A q \in Peers :
        /\ i \in InstsOn(net', <<InitialLeader, q, "Prepare">>) => i \in Asked(q)
        /\ i \notin InstsOn(net', <<InitialLeader, q, "Prepare">>)
             /\ i \notin InstsOn(net', <<q, InitialLeader, "PrepareReply">>)
             /\ i \notin InstsOn(net', <<q, InitialLeader, "Commit">>)
             <=> i \notin Asked(q) /\ i \notin Promised(q) /\ i \notin Corrected(q)
  BY DEF PeersMessages
<1>6. Finished(i)' = Finished(i)
  BY <1>5 DEF Finished, Asked, Promised, Corrected
<1>7. LeaderProposes(i)'
  BY <1>2 DEF InstanceSteady, LeaderProposes, Known, Bookkept, Proposed, BatchTaken
<1>8. PeersCopy(i)'
  <2> SUFFICES ASSUME NEW q \in Peers, insts'[q][i] # NoInstance
               PROVE  /\ insts'[q][i].bal = InitialLeader
                      /\ \/ /\ insts'[q][i].cmds = Proposed(i) /\ Proposed(i) # None
                            /\ insts'[q][i].vbal = InitialLeader
                            /\ insts'[q][i].status \in {"ACCEPTED", "COMMITTED"}
                         \/ /\ insts'[q][i].cmds = None
                            /\ i \notin InstsOn(net', <<InitialLeader, q, "Prepare">>)
                            /\ insts'[q][i].status # "ACCEPTED"
    BY <1>2 DEF PeersCopy, HasAccepted, Known, Proposed, Asked
  <2>1. CASE q = r
    BY <2>1 DEF PeersRecord
  <2>2. CASE q # r
    BY <1>2, <1>5, <2>2 DEF InstanceSteady, PeersCopy, HasAccepted, Known, Proposed, Asked
  <2> QED
    BY <2>1, <2>2
<1>9. RoundTrip(i)'
  <2> SUFFICES ASSUME NEW q \in Peers
               PROVE  /\ ~ (/\ i \in InstsOn(net', <<InitialLeader, q, "Prepare">>)
                            /\ i \in InstsOn(net', <<q, InitialLeader, "PrepareReply">>))
                      /\ ~ (/\ i \in InstsOn(net', <<InitialLeader, q, "Prepare">>)
                            /\ i \in InstsOn(net', <<q, InitialLeader, "Commit">>))
                      /\ ~ (/\ i \in InstsOn(net', <<q, InitialLeader, "PrepareReply">>)
                            /\ i \in InstsOn(net', <<q, InitialLeader, "Commit">>))
                      /\ i \in InstsOn(net', <<q, InitialLeader, "Commit">>) =>
                           HasAccepted(q, i) /\ insts[q][i].status = "COMMITTED"
    BY <1>2, <1>3 DEF RoundTrip, HasAccepted, Known, Proposed, Asked, Promised, Corrected
  <2>1. /\ ~ (i \in Asked(q) /\ i \in Promised(q))
        /\ ~ (i \in Asked(q) /\ i \in Corrected(q))
        /\ ~ (i \in Promised(q) /\ i \in Corrected(q))
        /\ i \in Corrected(q) =>
             HasAccepted(q, i) /\ insts[q][i].status = "COMMITTED"
    BY DEF InstanceSteady, RoundTrip
  <2>2. CASE q # r
    BY <2>1, <2>2 DEF PeersMessages
  <2>3. CASE q = r
    BY <2>1, <2>3 DEF PeersMessages
  <2> QED
    BY <2>2, <2>3
<1>10. PromisesCounted(i)' /\ ProposedAfterPromises(i)'
  BY <1>2, <1>6 DEF InstanceSteady, PromisesCounted, ProposedAfterPromises,
     Known, Promises, BatchTaken, Proposed
<1>11. \A q \in Peers :
         \/ i \in InstsOn(net', <<InitialLeader, q, "CommitShort">>)
         \/ insts'[q][i] # NoInstance /\ insts'[q][i].status = "COMMITTED"
         => Decided(q, i)
  BY <1>2 DEF PeersMessages, PeersRecord, Decided, Known
<1>12. DecidedByLeader(i)'
  BY <1>2, <1>11 DEF InstanceSteady, DecidedByLeader, Decided, Shortened, Known,
     Proposed, Promises
<1>13. CommitsAccepted(i)'
  <2>1. /\ Known(InitialLeader, i) /\ insts[InitialLeader][i].status = "COMMITTED"
             => SomePeerAccepted(i)
        /\ \A q \in Peers : Decided(q, i) \/ i \in Accepting(q) => SomePeerAccepted(i)
    BY DEF InstanceSteady, CommitsAccepted
  <2>2. \A q \in Peers :
          i \in InstsOn(net', <<q, InitialLeader, "AcceptReply">>) => SomePeerAccepted(i)'
    BY <1>4, <2>1 DEF PeersMessages, SomePeerAccepted
  <2> QED
    BY <1>2, <1>4, <1>11, <2>1, <2>2 DEF CommitsAccepted, Decided, Shortened,
       Accepting, Known
<1> QED
  BY <1>7, <1>8, <1>9, <1>10, <1>12, <1>13 DEF InstanceSteady

\* The leader's record stays in a peer's step, and what was accepted too.
LEMMA PeersRecordStays ==
  ASSUME NEW r \in Peers, NEW i \in Instances, PeersRecord(r, i)
  PROVE  ProposalsStay /\ AcceptedStay
<1>1. InitialLeader \in Replicas /\ Peers \subseteq Replicas /\ r # InitialLeader
  BY DEF Peers
<1>2. \A s \in Replicas, j \in Instances :
        ~ (s = r /\ j = i) => insts'[s][j] = insts[s][j]
  BY DEF PeersRecord
<1>3. ProposalsStay
  BY <1>1, <1>2 DEF ProposalsStay, Known, Proposed
<1>4. ASSUME NEW q \in Peers, NEW j \in Instances, HasAccepted(q, j)
      PROVE  /\ insts'[q][j] # NoInstance
             /\ insts'[q][j].cmds = insts[q][j].cmds
             /\ insts'[q][j].vbal = InitialLeader
             /\ insts'[q][j].status \in {"ACCEPTED", "COMMITTED"}
  <2>1. CASE q = r /\ j = i
    BY <1>4, <2>1 DEF PeersRecord, HasAccepted
  <2>2. CASE ~ (q = r /\ j = i)
    BY <1>1, <1>2, <1>4, <2>2 DEF HasAccepted, Known
  <2> QED
    BY <2>1, <2>2
<1> QED
  BY <1>3, <1>4 DEF AcceptedStay

\* A peer's step as a whole.
LEMMA PeerKeeps ==
  ASSUME IInv, SteadyInv, NEW r \in Peers, NEW i \in Instances,
         Known(InitialLeader, i), PeersRecord(r, i), PeersMessages(r, i),
         \A j \in Instances : j # i => Untouched(j),
         OneBallot', RoundTripsOnce', executed' = executed, replied' = replied,
         \A l \in Links : \A y \in Queued(net', l) : y \in OnLink(l) \/ FromLeader(l, y)'
  PROVE  SteadyInv'
<1>1. InstanceSteady(i)'
  BY PeerSteps DEF SteadyInv
<1>2. ProposalsStay /\ AcceptedStay
  BY PeersRecordStays
<1>3. ExecutedProposed' /\ RepliesMatch'
  BY <1>2, ExecutedStay DEF SteadyInv, RepliesMatch
<1>4. MessagesOfLeader'
  BY <1>2, MessagesStayLeaders DEF SteadyInv, IInv
<1> QED
  BY <1>1, <1>3, <1>4, OneInstanceSteps

LEMMA HandleCommitShortSteady ==
  ASSUME IInv, SteadyInv, NEW r \in Replicas, NEW q \in Replicas, HandleCommitShort(r, q)
  PROVE  SteadyInv'
<1> DEFINE l == <<q, r, "CommitShort">>
           m == Head(net[l])
<1>0. PICK i \in Instances : i = m.inst
  BY TakingLeaders DEF HandleCommitShort, Types
<1> DEFINE old == insts[r][i]
           x == [old EXCEPT !.status = "COMMITTED", !.bal = m.bal]
<1>1. /\ Receives(r, q, "CommitShort") /\ "CommitShort" \in Types
      /\ net' = Taken(l) /\ lbs' = lbs
      /\ executed' = executed /\ replied' = replied
      /\ UNCHANGED <<isLeader, maxRecvBallot, defaultBallot, toRecover>>
      /\ \/ /\ Known(r, i) /\ old.status # "COMMITTED"
            /\ insts' = [insts EXCEPT ![r][i] = x]
         \/ insts' = insts
  BY <1>0 DEF HandleCommitShort, Types
<1>2. /\ l \in Links /\ i \in InstsOn(net, l)
      /\ m.bal = InitialLeader /\ q = InitialLeader /\ r \in Peers
  BY <1>0, <1>1, TakingLeaders
<1>3. AfterMove(net', {l}, {}, m)
  BY <1>1, Took DEF IInv
<1>4. InstanceSteady(i)
  BY <1>2 DEF SteadyInv
<1>5. Decided(r, i)
  BY <1>2 DEF Decided, Shortened
<1>6. Known(InitialLeader, i)
  BY <1>2, <1>4, <1>5 DEF InstanceSteady, DecidedByLeader
<1> HIDE DEF m
<1>7. /\ \A s \in Replicas, j \in Instances :
           ~ (s = r /\ j = i) => insts'[s][j] = insts[s][j]
      /\ \/ insts'[r][i] = old
         \/ /\ Known(r, i) /\ insts'[r][i] # NoInstance
            /\ insts'[r][i].cmds = old.cmds /\ insts'[r][i].vbal = old.vbal
            /\ insts'[r][i].bal = InitialLeader
            /\ insts'[r][i].status = "COMMITTED"
  <2>1. CASE insts' = insts
    BY <2>1
  <2>2. CASE Known(r, i) /\ insts' = [insts EXCEPT ![r][i] = x]
    <3>1. old \in Instance
      BY <1>2, <2>2, OpenedTyped DEF IInv
    <3>2. InitialLeader \in Ballots
      <4>1. m \in Message("CommitShort")
        BY <1>1, TakingLeaders DEF m
      <4> QED
        BY <1>2, <4>1 DEF Message
    <3>3. /\ x \in Instance /\ x.cmds = old.cmds /\ x.vbal = old.vbal
          /\ x.bal = InitialLeader /\ x.status = "COMMITTED"
      BY <3>1, <3>2, <1>2 DEF Instance, Status
    <3> HIDE DEF x
    <3>4. \A s \in Replicas, j \in Instances :
            insts'[s][j] = IF s = r /\ j = i THEN x ELSE insts[s][j]
      BY <1>2, <2>2, <3>3, InstsUpdated DEF IInv
    <3> QED
      BY <1>2, <2>2, <3>3, <3>4, NilApart
  <2> QED
    BY <1>1, <2>1, <2>2
<1>8. \A p \in Peers :
        /\ InstsOn(net', <<InitialLeader, p, "Prepare">>) = Asked(p)
        /\ InstsOn(net', <<p, InitialLeader, "PrepareReply">>) = Promised(p)
        /\ InstsOn(net', <<p, InitialLeader, "Commit">>) = Corrected(p)
        /\ InstsOn(net', <<p, InitialLeader, "AcceptReply">>) = Accepting(p)
        /\ InstsOn(net', <<InitialLeader, p, "CommitShort">>) \subseteq Shortened(p)
  BY <1>2, <1>3, PeerLinks DEF AfterMove, LinksAfter, Asked, Promised, Corrected,
     Accepting, Shortened
<1>9. PeersMessages(r, i)
  BY <1>2, <1>8 DEF PeersMessages
<1>10. PeersRecord(r, i)
  <2>1. Known(r, i) =>
          /\ old.bal = InitialLeader
          /\ \/ HasAccepted(r, i)
             \/ old.cmds = None /\ i \notin Asked(r) /\ old.status # "ACCEPTED"
    BY <1>2, <1>4 DEF InstanceSteady, PeersCopy
  <2> QED
    BY <1>1, <1>2, <1>5, <1>7, <1>8, <2>1 DEF PeersRecord, HasAccepted, Known
<1>11. \A j \in Instances : j # i => Untouched(j)
  <2>1. \A z \in {l} : Head(net[z]).inst = i
    BY <1>0 DEF m
  <2>2. \A s \in Replicas, j \in Instances :
          j # i => insts'[s][j] = insts[s][j] /\ lbs'[s][j] = lbs[s][j]
    BY <1>1, <1>7
  <2>3. {l} \subseteq Links /\ RoundTripsOnce /\ \A z \in {} : m.inst = i
    BY <1>2 DEF SteadyInv
  <2> HIDE DEF l
  <2> QED
    BY <1>2, <1>3, <2>1, <2>2, <2>3, OthersUntouched
<1>12. OneBallot'
  BY <1>1 DEF SteadyInv, OneBallot, Bookkept
<1>13. RoundTripsOnce'
  BY <1>3, RoundTripsStayOnce DEF SteadyInv
<1>14. \A z \in Links : \A y \in Queued(net', z) : y \in OnLink(z) \/ FromLeader(z, y)'
  BY <1>3 DEF AfterMove
<1> QED
  BY <1>1, <1>2, <1>6, <1>9, <1>10, <1>11, <1>12, <1>13, <1>14, PeerKeeps

\* Nobody hears of another ballot.
LEMMA HearsLeaders ==
  ASSUME TypeOK, SteadyInv, NEW r \in Replicas,
         maxRecvBallot' = Received(r, InitialLeader)
  PROVE  \A s \in Replicas : maxRecvBallot'[s] \in {-1, InitialLeader}
<1>1. InitialLeader \in Nat /\ maxRecvBallot \in [Replicas -> Ballots]
  BY OwnResidue DEF TypeOK
<1>2. \A s \in Replicas : maxRecvBallot[s] \in {-1, InitialLeader}
  BY DEF SteadyInv, OneBallot
<1> QED
  BY <1>1, <1>2 DEF Received, Larger

LEMMA HandleAcceptSteady ==
  ASSUME IInv, SteadyInv, NEW r \in Replicas, NEW q \in Replicas, HandleAccept(r, q)
  PROVE  SteadyInv'
<1> DEFINE l == <<q, r, "Accept">>
           m == Head(net[l])
<1>0. PICK i \in Instances : i = m.inst
  BY TakingLeaders DEF HandleAccept, Types
<1> DEFINE old == insts[r][i]
           accepts == ~ Known(r, i) \/ (m.bal >= old.bal /\ old.status # "COMMITTED")
           accepted == [cmds |-> m.cmds, bal |-> m.bal, vbal |-> m.bal,
                        status |-> "ACCEPTED"]
           new == IF accepts THEN accepted ELSE old
           a == <<r, q, "AcceptReply">>
<1>1. /\ Receives(r, q, "Accept") /\ {"Accept", "AcceptReply"} \subseteq Types
      /\ maxRecvBallot' = Received(r, m.bal)
      /\ insts' = [insts EXCEPT ![r][i] = new]
      /\ net' = Sent(Taken(l), r, q, "AcceptReply", [inst |-> i, bal |-> new.bal]) /\ lbs' = lbs
      /\ executed' = executed /\ replied' = replied
      /\ UNCHANGED <<isLeader, defaultBallot, toRecover>>
  BY <1>0 DEF HandleAccept, Types
<1>2. /\ l \in Links /\ m \in Message("Accept")
      /\ FromLeader(l, m)
      /\ m.bal = InitialLeader /\ q = InitialLeader /\ r \in Peers
  BY <1>1, TakingLeaders
<1>3. Known(InitialLeader, i) /\ m.cmds = Proposed(i) /\ m.cmds # None
  BY <1>0, <1>2 DEF FromLeader
<1>4. InstanceSteady(i)
  BY <1>2 DEF SteadyInv
<1>5. InitialLeader \in Ballots /\ m.cmds \in Values /\ InitialLeader \in Int
  BY <1>2, OwnResidue DEF Message
<1>6. Known(r, i) =>
        /\ old \in Instance /\ old.bal = InitialLeader
        /\ \/ HasAccepted(r, i)
           \/ old.cmds = None /\ i \notin Asked(r) /\ old.status # "ACCEPTED"
  BY <1>2, <1>4, OpenedTyped DEF InstanceSteady, PeersCopy, IInv
<1> HIDE DEF m
<1>7. /\ accepted \in Instance
      /\ accepted.cmds = Proposed(i) /\ accepted.vbal = InitialLeader
      /\ accepted.bal = InitialLeader /\ accepted.status = "ACCEPTED"
  BY <1>2, <1>3, <1>5 DEF Instance, Status
<1> HIDE DEF accepted
<1>8. \/ new = accepted /\ (Known(r, i) => old.status # "COMMITTED")
      \/ new = old /\ Known(r, i) /\ old.status = "COMMITTED"
  BY <1>2, <1>5, <1>6
<1> HIDE DEF accepts, new
<1>9. /\ new \in Instance /\ new.bal = InitialLeader
  BY <1>6, <1>7, <1>8
<1>10. \A s \in Replicas, j \in Instances :
         insts'[s][j] = IF s = r /\ j = i THEN new ELSE insts[s][j]
  BY <1>1, <1>2, <1>9, InstsUpdated DEF IInv
<1>11. PICK answer \in Message("AcceptReply") :
          /\ answer = [inst |-> i, bal |-> new.bal]
          /\ answer.inst = i /\ answer.bal = InitialLeader
  <2> DEFINE x == [inst |-> i, bal |-> new.bal]
  <2>1. x \in Message("AcceptReply") /\ x.inst = i /\ x.bal = InitialLeader
    BY <1>5, <1>9 DEF Message
  <2> QED
    BY <2>1
<1>12. AfterMove(net', {l}, {a}, answer)
  BY <1>1, <1>11, Answered DEF IInv
<1>13. new # NoInstance
  BY <1>9, NilApart
<1>14. \A p \in Peers :
        /\ InstsOn(net', <<InitialLeader, p, "Prepare">>) = Asked(p)
        /\ InstsOn(net', <<p, InitialLeader, "PrepareReply">>) = Promised(p)
        /\ InstsOn(net', <<p, InitialLeader, "Commit">>) = Corrected(p)
        /\ p # r => InstsOn(net', <<p, InitialLeader, "AcceptReply">>) = Accepting(p)
        /\ InstsOn(net', <<InitialLeader, p, "CommitShort">>) = Shortened(p)
  BY <1>2, <1>12, PeerLinks DEF AfterMove, LinksAfter, Asked, Promised, Corrected,
     Accepting, Shortened
<1>15. SomePeerAccepted(i) \/ HasAccepted(r, i)'
  <2>1. CASE new = accepted
    <3>1. insts'[r][i] = new /\ insts'[InitialLeader][i] = insts[InitialLeader][i]
      BY <1>2, <1>10, PeerLinks
    <3> QED
      BY <1>3, <1>7, <1>13, <2>1, <3>1 DEF HasAccepted, Known, Proposed
  <2>2. CASE Known(r, i) /\ old.status = "COMMITTED"
    BY <1>2, <1>4, <2>2 DEF InstanceSteady, CommitsAccepted, Decided
  <2> QED
    BY <1>8, <2>1, <2>2
<1>16. PeersMessages(r, i)
  BY <1>2, <1>14, <1>15 DEF PeersMessages
<1>17. PeersRecord(r, i)
  <2>1. insts'[r][i] = new
    BY <1>2, <1>10
  <2>2. /\ insts'[r][i].bal = InitialLeader
        /\ \/ /\ insts'[r][i].cmds = Proposed(i) /\ Proposed(i) # None
              /\ insts'[r][i].vbal = InitialLeader
              /\ insts'[r][i].status \in {"ACCEPTED", "COMMITTED"}
           \/ /\ insts'[r][i].cmds = None /\ insts'[r][i].status # "ACCEPTED"
              /\ i \notin InstsOn(net', <<InitialLeader, r, "Prepare">>)
        /\ insts'[r][i].status = "COMMITTED" => Decided(r, i)
        /\ HasAccepted(r, i) =>
             /\ insts'[r][i].cmds = Proposed(i)
             /\ insts[r][i].status = "COMMITTED" => insts'[r][i].status = "COMMITTED"
    BY <1>2, <1>3, <1>6, <1>7, <1>8, <1>9, <1>14, <2>1 DEF HasAccepted, Decided
  <2> QED
    BY <1>1, <1>10, <1>13, <2>1, <2>2 DEF PeersRecord
<1>18. \A j \in Instances : j # i => Untouched(j)
  <2>1. \A z \in {l} : Head(net[z]).inst = i
    BY <1>0 DEF m
  <2>2. \A s \in Replicas, j \in Instances :
          j # i => insts'[s][j] = insts[s][j] /\ lbs'[s][j] = lbs[s][j]
    BY <1>1, <1>10
  <2>3. {l} \subseteq Links /\ RoundTripsOnce /\ \A z \in {a} : answer.inst = i
    BY <1>2, <1>11 DEF SteadyInv
  <2> HIDE DEF l, a
  <2> QED
    BY <1>2, <1>12, <2>1, <2>2, <2>3, OthersUntouched
<1>19. OneBallot'
  <2>1. \A s \in Replicas : maxRecvBallot'[s] \in {-1, InitialLeader}
    BY <1>1, <1>2, HearsLeaders DEF IInv
  <2> QED
    BY <1>1, <2>1 DEF SteadyInv, OneBallot, Bookkept
<1>20. RoundTripsOnce'
  <2>1. \A z \in {a} : z[3] = "AcceptReply"
    OBVIOUS
  <2> HIDE DEF a, l
  <2> QED
    BY <1>12, <2>1, RoundTripsStayOnce DEF SteadyInv
<1>21. \A z \in Links : \A y \in Queued(net', z) : y \in OnLink(z) \/ FromLeader(z, y)'
  <2>1. FromLeader(a, answer)'
    BY <1>2, <1>11 DEF FromLeader
  <2> QED
    BY <1>12, <2>1 DEF AfterMove
<1> QED
  BY <1>1, <1>2, <1>3, <1>16, <1>17, <1>18, <1>19, <1>20, <1>21, PeerKeeps

LEMMA HandlePrepareSteady ==
  ASSUME IInv, SteadyInv, NEW r \in Replicas, NEW q \in Replicas, HandlePrepare(r, q)
  PROVE  SteadyInv'
<1> DEFINE l == <<q, r, "Prepare">>
           m == Head(net[l])
<1>0. PICK i \in Instances : i = m.inst
  BY TakingLeaders DEF HandlePrepare, Types
<1> DEFINE old == InstanceOrOpened(r, i)
           new == IF old.bal < m.bal
                  THEN [old EXCEPT !.bal = m.bal, !.status = "PREPARED"]
                  ELSE old
           Corrects == old.status = "COMMITTED"
<1>1. /\ Receives(r, q, "Prepare") /\ {"Prepare", "PrepareReply", "Commit"} \subseteq Types
      /\ maxRecvBallot' = Received(r, m.bal) /\ lbs' = lbs
      /\ executed' = executed /\ replied' = replied
      /\ UNCHANGED <<isLeader, toRecover>>
      /\ \/ /\ Corrects
            /\ net' = Sent(Taken(l), r, q, "Commit", Accept(i, old.vbal, old.cmds))
            /\ UNCHANGED <<insts, defaultBallot>>
         \/ /\ ~ Corrects
            /\ insts' = [insts EXCEPT ![r][i] = new]
            /\ \/ defaultBallot' = [defaultBallot EXCEPT ![r][r] = m.bal]
               \/ defaultBallot' = [defaultBallot EXCEPT ![r][r] = @]
            /\ net' = Sent(Taken(l), r, q, "PrepareReply",
                           [inst |-> i, bal |-> new.bal,
                            vbal |-> new.vbal, cmds |-> new.cmds,
                            default |-> defaultBallot'[r][r]])
  BY <1>0 DEF HandlePrepare, Types
<1>2. /\ l \in Links /\ m \in Message("Prepare") /\ i \in InstsOn(net, l)
      /\ m.bal = InitialLeader /\ q = InitialLeader /\ r \in Peers
  BY <1>0, <1>1, TakingLeaders
<1>3. InstanceSteady(i) /\ i \in Asked(r)
  BY <1>2 DEF SteadyInv, Asked
<1>4. /\ Known(InitialLeader, i) /\ i \notin Promised(r) /\ i \notin Corrected(r)
  BY <1>2, <1>3 DEF InstanceSteady, RoundTrip
<1>5. InitialLeader \in Ballots /\ InitialLeader \in Nat
  BY <1>2, OwnResidue DEF Message
<1>6. /\ Known(r, i) => old = insts[r][i] /\ HasAccepted(r, i) /\ old.bal = InitialLeader
      /\ old \in Instance
  BY <1>2, <1>3, OpenedTyped DEF InstanceSteady, PeersCopy, IInv
<1>7. ~ Known(r, i) =>
        /\ old.cmds = None /\ old.status = "PREPARING"
        /\ old.bal \in {-1, InitialLeader}
  BY DEF InstanceOrOpened, Opened, SteadyInv, OneBallot
<1> HIDE DEF m, old
<1>8. /\ new \in Instance /\ new.bal = InitialLeader
      /\ Known(r, i) => new = insts[r][i]
      /\ ~ Known(r, i) => new.cmds = None /\ new.status \in {"PREPARING", "PREPARED"}
  <2>1. CASE old.bal < m.bal
    <3> DEFINE x == [old EXCEPT !.bal = m.bal, !.status = "PREPARED"]
    <3>1. new = x
      BY <2>1
    <3>2. /\ x \in Instance /\ x.bal = InitialLeader
          /\ x.cmds = old.cmds /\ x.status = "PREPARED"
      BY <1>2, <1>5, <1>6 DEF Instance, Status
    <3>3. ~ Known(r, i)
      BY <1>2, <1>5, <1>6, <2>1
    <3> HIDE DEF x, new
    <3> QED
      BY <1>7, <3>1, <3>2, <3>3
  <2>2. CASE ~ (old.bal < m.bal)
    <3>1. new = old
      BY <2>2
    <3>2. old.bal = InitialLeader
      BY <1>2, <1>5, <1>6, <1>7, <2>2
    <3> HIDE DEF new
    <3> QED
      BY <1>6, <1>7, <3>1, <3>2
  <2> QED
    BY <2>1, <2>2
<1>9. new # NoInstance
  BY <1>8, NilApart
<1> HIDE DEF new
<1>10. /\ \A s \in Replicas, j \in Instances :
            ~ (s = r /\ j = i) => insts'[s][j] = insts[s][j]
       /\ insts'[r][i] = IF Corrects THEN insts[r][i] ELSE new
       /\ Known(r, i) => insts'[r][i] = insts[r][i]
       /\ Corrects => Known(r, i)
  <2>1. CASE Corrects
    BY <1>1, <1>7, <2>1
  <2>2. CASE ~ Corrects
    <3>1. \A s \in Replicas, j \in Instances :
            insts'[s][j] = IF s = r /\ j = i THEN new ELSE insts[s][j]
      BY <1>1, <1>8, <2>2, InstsUpdated DEF IInv
    <3> QED
      BY <1>8, <2>2, <3>1
  <2> QED
    BY <2>1, <2>2
<1>11. PICK t \in {"PrepareReply", "Commit"} : t = IF Corrects THEN "Commit" ELSE "PrepareReply"
  OBVIOUS
<1>12. \A s, p \in Replicas : defaultBallot'[s][p] \in {-1, InitialLeader}
  <2>1. \A s, p \in Replicas : defaultBallot[s][p] \in {-1, InitialLeader}
    BY DEF SteadyInv, OneBallot
  <2>2. defaultBallot \in [Replicas -> [Replicas -> Ballots]]
    BY DEF IInv, TypeOK
  <2> QED
    BY <1>1, <1>2, <2>1, <2>2
<1>13. PICK d \in {-1, InitialLeader} : d = defaultBallot'[r][r]
  BY <1>12
<1>14. PICK answer \in Message(t) :
         /\ net' = Sent(Taken(l), r, q, t, answer)
         /\ answer.inst = i /\ answer.bal = InitialLeader
         /\ t = "PrepareReply" => answer.default = d
         /\ t = "Commit" => answer.cmds = insts[r][i].cmds
  <2>1. CASE Corrects
    <3> DEFINE x == Accept(i, old.vbal, old.cmds)
    <3>1. old.vbal = InitialLeader /\ Known(r, i) /\ t = "Commit"
      BY <1>6, <1>10, <1>11, <2>1 DEF HasAccepted
    <3>2. x \in Message("Commit") /\ x.inst = i /\ x.bal = InitialLeader
          /\ x.cmds = insts[r][i].cmds
      BY <1>5, <1>6, <3>1 DEF Message, Accept, Instance
    <3> QED
      BY <1>1, <2>1, <3>1, <3>2
  <2>2. CASE ~ Corrects
    <3> DEFINE x == [inst |-> i, bal |-> new.bal, vbal |-> new.vbal,
                     cmds |-> new.cmds, default |-> d]
    <3>1. d \in Ballots /\ t = "PrepareReply"
      BY <1>5, <1>11, <2>2 DEF Ballots
    <3>2. /\ x \in Message("PrepareReply") /\ x.inst = i
          /\ x.bal = InitialLeader /\ x.default = d
      BY <1>8, <3>1 DEF Message, Instance
    <3>3. net' = Sent(Taken(l), r, q, "PrepareReply", x)
      BY <1>1, <1>13, <2>2
    <3> HIDE DEF x
    <3> QED
      BY <3>1, <3>2, <3>3
  <2> QED
    BY <2>1, <2>2
<1> DEFINE a == <<r, q, t>>
<1>15. AfterMove(net', {l}, {a}, answer)
  BY <1>1, <1>14, Answered DEF IInv
<1>16. Once(net, l)
  BY <1>2 DEF SteadyInv, RoundTripsOnce
<1>17. /\ \A p \in Peers :
             /\ p # r =>
                  /\ InstsOn(net', <<InitialLeader, p, "Prepare">>) = Asked(p)
                  /\ InstsOn(net', <<p, InitialLeader, "PrepareReply">>) = Promised(p)
                  /\ InstsOn(net', <<p, InitialLeader, "Commit">>) = Corrected(p)
             /\ InstsOn(net', <<p, InitialLeader, "AcceptReply">>) = Accepting(p)
             /\ InstsOn(net', <<InitialLeader, p, "CommitShort">>) = Shortened(p)
  BY <1>2, <1>15, PeerLinks DEF AfterMove, LinksAfter, Asked, Promised, Corrected,
     Accepting, Shortened
<1>18. /\ InstsOn(net', l) = Asked(r) \ {i}
       /\ InstsOn(net', <<r, InitialLeader, "PrepareReply">>) =
            Promised(r) \cup (IF t = "PrepareReply" THEN {i} ELSE {})
       /\ InstsOn(net', <<r, InitialLeader, "Commit">>) =
            Corrected(r) \cup (IF t = "Commit" THEN {i} ELSE {})
  <2>1. InstsOn(net', l) = InstsOn(net, l) \ {i}
    BY <1>0, <1>2, <1>15, <1>16 DEF AfterMove, LinksAfter, m
  <2>2. \A u \in {"PrepareReply", "Commit"} :
          InstsOn(net', <<r, InitialLeader, u>>) =
            InstsOn(net, <<r, InitialLeader, u>>) \cup (IF u = t THEN {i} ELSE {})
    <3> TAKE u \in {"PrepareReply", "Commit"}
    <3>1. <<r, InitialLeader, u>> \in Links /\ <<r, InitialLeader, u>> # l
      BY <1>2, PeerLinks
    <3>2. <<r, InitialLeader, u>> = a <=> u = t
      BY <1>2
    <3> QED
      BY <1>14, <1>15, <3>1, <3>2 DEF AfterMove, LinksAfter
  <2> QED
    BY <1>2, <2>1, <2>2 DEF Asked, Promised, Corrected
<1>19. PeersMessages(r, i)
  <2>1. t = "Commit" => HasAccepted(r, i) /\ insts[r][i].status = "COMMITTED"
    BY <1>6, <1>10, <1>11
  <2> QED
    BY <1>2, <1>3, <1>4, <1>11, <1>17, <1>18, <2>1 DEF PeersMessages
<1>20. PeersRecord(r, i)
  <2>1. i \notin InstsOn(net', <<InitialLeader, r, "Prepare">>)
    BY <1>2, <1>18
  <2>2. CASE Known(r, i)
    BY <1>1, <1>6, <1>10, <2>2 DEF PeersRecord, HasAccepted, Known, Decided
  <2>3. CASE ~ Known(r, i)
    BY <1>1, <1>8, <1>9, <1>10, <2>1, <2>3 DEF PeersRecord, HasAccepted
  <2> QED
    BY <2>2, <2>3
<1>21. \A j \in Instances : j # i => Untouched(j)
  <2>1. \A z \in {l} : Head(net[z]).inst = i
    BY <1>0 DEF m
  <2>2. \A s \in Replicas, j \in Instances :
          j # i => insts'[s][j] = insts[s][j] /\ lbs'[s][j] = lbs[s][j]
    BY <1>1, <1>10
  <2>3. {l} \subseteq Links /\ RoundTripsOnce /\ \A z \in {a} : answer.inst = i
    BY <1>2, <1>14 DEF SteadyInv
  <2> HIDE DEF l, a
  <2> QED
    BY <1>2, <1>15, <2>1, <2>2, <2>3, OthersUntouched
<1>22. OneBallot'
  <2>1. \A s \in Replicas : maxRecvBallot'[s] \in {-1, InitialLeader}
    BY <1>1, <1>2, HearsLeaders DEF IInv
  <2> QED
    BY <1>1, <1>12, <2>1 DEF SteadyInv, OneBallot, Bookkept
<1>23. RoundTripsOnce'
  <2>1. answer.inst \notin InstsOn(net, a)
    BY <1>2, <1>4, <1>14 DEF Promised, Corrected
  <2> HIDE DEF a, l
  <2> QED
    BY <1>15, <2>1, RoundTripsStayOnce DEF SteadyInv
<1>24. \A z \in Links : \A y \in Queued(net', z) : y \in OnLink(z) \/ FromLeader(z, y)'
  <2>1. FromLeader(a, answer)'
    <3>1. t = "Commit" => /\ answer.cmds = Proposed(i) /\ answer.cmds # None
      BY <1>6, <1>10, <1>11, <1>14 DEF HasAccepted
    <3>2. insts'[InitialLeader][i] = insts[InitialLeader][i]
      BY <1>2, <1>10, PeerLinks
    <3> QED
      BY <1>2, <1>4, <1>14, <3>1, <3>2 DEF FromLeader, Known, Proposed
  <2> QED
    BY <1>15, <2>1 DEF AfterMove
<1> QED
  BY <1>1, <1>2, <1>4, <1>19, <1>20, <1>21, <1>22, <1>23, <1>24, PeerKeeps

----------------------------------------------------------------------------
\* A step of the leader about instance i, on an answer of peer q.
LeadersRecord(i) ==
  /\ \A s \in Replicas, j \in Instances :
       ~ (s = InitialLeader /\ j = i) =>
         insts'[s][j] = insts[s][j] /\ lbs'[s][j] = lbs[s][j]
  /\ insts'[InitialLeader][i] # NoInstance
  /\ Proposed(i) # None => insts'[InitialLeader][i].cmds = Proposed(i)
  /\ lbs'[InitialLeader][i] # NoBookkeeping
  /\ lbs'[InitialLeader][i].lastTried = InitialLeader
LeadersMessages(q, i) ==
  \A p \in Peers :
    /\ i \in InstsOn(net', <<InitialLeader, p, "Prepare">>) <=> i \in Asked(p)
    /\ i \in InstsOn(net', <<p, InitialLeader, "PrepareReply">>) => i \in Promised(p)
    /\ i \in InstsOn(net', <<p, InitialLeader, "Commit">>) => i \in Corrected(p)
    /\ p # q =>
         /\ i \in InstsOn(net', <<p, InitialLeader, "PrepareReply">>) <=> i \in Promised(p)
         /\ i \in InstsOn(net', <<p, InitialLeader, "Commit">>) <=> i \in Corrected(p)
    /\ i \in InstsOn(net', <<p, InitialLeader, "AcceptReply">>) => i \in Accepting(p)

LEMMA LeadersRecordStays ==
  ASSUME NEW i \in Instances, LeadersRecord(i)
  PROVE  ProposalsStay /\ AcceptedStay
<1>1. InitialLeader \in Replicas /\ Peers \subseteq Replicas /\ InitialLeader \notin Peers
  BY DEF Peers
<1>2. ProposalsStay
  BY <1>1 DEF ProposalsStay, LeadersRecord, Known, Proposed
<1>3. \A q \in Peers, j \in Instances : insts'[q][j] = insts[q][j]
  BY <1>1 DEF LeadersRecord
<1>4. AcceptedStay
  BY <1>3 DEF AcceptedStay, HasAccepted, Known
<1> QED
  BY <1>2, <1>4

LEMMA LeaderSteps ==
  ASSUME NEW q \in Peers, NEW i \in Instances, Known(InitialLeader, i),
         InstanceSteady(i), LeadersRecord(i), LeadersMessages(q, i)
  PROVE  /\ PeersCopy(i)' /\ RoundTrip(i)'
         /\ SomePeerAccepted(i) => SomePeerAccepted(i)'
         /\ Finished(i) \subseteq Finished(i)'
         /\ \A p \in Peers : insts'[p][i] = insts[p][i]
<1>1. InitialLeader \in Replicas /\ Peers \subseteq Replicas /\ InitialLeader \notin Peers
  BY DEF Peers
<1>2. \A p \in Peers : insts'[p][i] = insts[p][i]
  BY <1>1 DEF LeadersRecord
<1>3. ASSUME NEW p \in Peers, HasAccepted(p, i)
      PROVE  insts'[p][i].cmds = insts'[InitialLeader][i].cmds
  BY <1>2, <1>3 DEF HasAccepted, LeadersRecord
<1>4. insts'[InitialLeader][i] # NoInstance
  BY DEF LeadersRecord
<1>5. PeersCopy(i)'
  <2> SUFFICES ASSUME NEW p \in Peers, insts'[p][i] # NoInstance
               PROVE  /\ insts'[p][i].bal = InitialLeader
                      /\ \/ /\ insts'[p][i].cmds = insts'[InitialLeader][i].cmds
                            /\ insts'[p][i].cmds # None
                            /\ insts'[p][i].vbal = InitialLeader
                            /\ insts'[p][i].status \in {"ACCEPTED", "COMMITTED"}
                         \/ /\ insts'[p][i].cmds = None
                            /\ i \notin InstsOn(net', <<InitialLeader, p, "Prepare">>)
                            /\ insts'[p][i].status # "ACCEPTED"
    BY <1>4 DEF PeersCopy, HasAccepted, Known, Proposed, Asked
  <2>1. /\ insts[p][i].bal = InitialLeader
        /\ \/ HasAccepted(p, i)
           \/ /\ insts[p][i].cmds = None /\ i \notin Asked(p)
              /\ insts[p][i].status # "ACCEPTED"
    BY <1>2 DEF InstanceSteady, PeersCopy, Known
  <2>2. i \in InstsOn(net', <<InitialLeader, p, "Prepare">>) <=> i \in Asked(p)
    BY DEF LeadersMessages
  <2>3. CASE HasAccepted(p, i)
    BY <1>2, <1>3, <2>1, <2>3 DEF HasAccepted
  <2> QED
    BY <1>2, <2>1, <2>2, <2>3
<1>6. RoundTrip(i)'
  <2> SUFFICES ASSUME NEW p \in Peers
               PROVE  /\ ~ (/\ i \in InstsOn(net', <<InitialLeader, p, "Prepare">>)
                            /\ i \in InstsOn(net', <<p, InitialLeader, "PrepareReply">>))
                      /\ ~ (/\ i \in InstsOn(net', <<InitialLeader, p, "Prepare">>)
                            /\ i \in InstsOn(net', <<p, InitialLeader, "Commit">>))
                      /\ ~ (/\ i \in InstsOn(net', <<p, InitialLeader, "PrepareReply">>)
                            /\ i \in InstsOn(net', <<p, InitialLeader, "Commit">>))
                      /\ i \in InstsOn(net', <<p, InitialLeader, "Commit">>) =>
                           /\ HasAccepted(p, i) /\ insts[p][i].status = "COMMITTED"
    BY <1>2, <1>3, <1>4 DEF RoundTrip, HasAccepted, Known, Proposed, Asked, Promised,
       Corrected
  <2>1. /\ ~ (i \in Asked(p) /\ i \in Promised(p))
        /\ ~ (i \in Asked(p) /\ i \in Corrected(p))
        /\ ~ (i \in Promised(p) /\ i \in Corrected(p))
        /\ i \in Corrected(p) =>
             HasAccepted(p, i) /\ insts[p][i].status = "COMMITTED"
    BY DEF InstanceSteady, RoundTrip
  <2> QED
    BY <2>1 DEF LeadersMessages
<1>7. SomePeerAccepted(i) => SomePeerAccepted(i)'
  BY <1>2, <1>3 DEF SomePeerAccepted, HasAccepted, Known, Proposed
<1>8. Finished(i) \subseteq Finished(i)'
  BY DEF Finished, LeadersMessages, Asked, Promised, Corrected
<1> QED
  BY <1>2, <1>5, <1>6, <1>7, <1>8

LEMMA LeaderKeeps ==
  ASSUME IInv, SteadyInv, NEW q \in Peers, NEW i \in Instances,
         Known(InitialLeader, i), LeadersRecord(i), LeadersMessages(q, i),
         \A j \in Instances : j # i => Untouched(j),
         LeaderProposes(i)', PromisesCounted(i)', ProposedAfterPromises(i)',
         DecidedByLeader(i)', CommitsAccepted(i)',
         UNCHANGED <<isLeader, toRecover, executed, replied>>,
         \A s \in Replicas : maxRecvBallot'[s] \in {-1, InitialLeader},
         \A s, p \in Replicas : defaultBallot'[s][p] \in {-1, InitialLeader},
         RoundTripsOnce',
         \A l \in Links : \A y \in Queued(net', l) : y \in OnLink(l) \/ FromLeader(l, y)'
  PROVE  SteadyInv'
<1>1. InstanceSteady(i)'
  BY LeaderSteps DEF SteadyInv, InstanceSteady
<1>2. ProposalsStay /\ AcceptedStay
  BY LeadersRecordStays
<1>3. ExecutedProposed' /\ RepliesMatch'
  BY <1>2, ExecutedStay DEF SteadyInv, RepliesMatch
<1>4. MessagesOfLeader'
  BY <1>2, MessagesStayLeaders DEF SteadyInv, IInv
<1>5. OneBallot'
  <2>1. \A s \in Replicas, j \in Instances : Bookkept(s, j)' =>
          s = InitialLeader /\ lbs'[s][j].lastTried = InitialLeader
    BY DEF SteadyInv, OneBallot, LeadersRecord, Bookkept
  <2> QED
    BY <2>1 DEF SteadyInv, OneBallot
<1> QED
  BY <1>1, <1>3, <1>4, <1>5, OneInstanceSteps

LEMMA HandleAcceptReplySteady ==
  ASSUME IInv, SteadyInv, NEW r \in Replicas, NEW q \in Replicas, HandleAcceptReply(r, q)
  PROVE  SteadyInv'
<1> DEFINE l == <<q, r, "AcceptReply">>
           m == Head(net[l])
<1>0. PICK i \in Instances : i = m.inst
  BY TakingLeaders DEF HandleAcceptReply, Types
<1> DEFINE lb == lbs[r][i]
           inst == insts[r][i]
           commits == lb.acceptOKs + 2 >= WriteQuorumSize
           counted == [lb EXCEPT !.acceptOKs = @ + 1]
           x == [inst EXCEPT !.status = IF commits THEN "COMMITTED" ELSE @]
<1>1. /\ Receives(r, q, "AcceptReply") /\ {"AcceptReply", "CommitShort"} \subseteq Types
      /\ maxRecvBallot' = Received(r, m.bal)
      /\ UNCHANGED <<isLeader, defaultBallot, toRecover, executed, replied>>
  BY DEF HandleAcceptReply, Types
<1>2. /\ l \in Links /\ m \in Message("AcceptReply") /\ i \in InstsOn(net, l)
      /\ m.bal = InitialLeader /\ r = InitialLeader /\ q \in Peers
  BY <1>0, <1>1, TakingLeaders
<1>3. InstanceSteady(i)
  BY <1>2 DEF SteadyInv
<1>4. SomePeerAccepted(i) /\ Known(r, i) /\ Proposed(i) # None
  <2>1. i \in Accepting(q)
    BY <1>2 DEF Accepting
  <2>2. PICK p \in Peers : HasAccepted(p, i)
    BY <1>2, <1>3, <2>1 DEF InstanceSteady, CommitsAccepted, SomePeerAccepted
  <2> QED
    BY <1>2, <1>3, <2>2 DEF InstanceSteady, PeersCopy, HasAccepted, SomePeerAccepted
<1>5. /\ lb \in Bookkeeping /\ lb.lastTried = InitialLeader /\ inst \in Instance
      /\ inst.bal = InitialLeader /\ inst.status \in {"ACCEPTED", "COMMITTED"}
  <2>1. Bookkept(r, i)
    BY <1>2, <1>3, <1>4 DEF InstanceSteady, LeaderProposes
  <2>2. lb \in Bookkeeping /\ inst \in Instance
    BY <1>2, <1>4, <2>1, OpenedTyped DEF IInv
  <2> QED
    BY <1>2, <1>3, <1>4, <2>1, <2>2 DEF SteadyInv, OneBallot, InstanceSteady, LeaderProposes
<1>6. InitialLeader \in Nat /\ InitialLeader \in Ballots
  BY <1>2, OwnResidue DEF Message
<1>7. \/ net' = Taken(l) /\ UNCHANGED <<insts, lbs>>
      \/ /\ inst.status # "COMMITTED"
         /\ lbs' = [lbs EXCEPT ![r][i] = counted]
         /\ insts' = [insts EXCEPT ![r][i] = x]
         /\ net' = IF commits
                   THEN Broadcast(Taken(l), r, "CommitShort", Prepare(i, inst.bal))
                   ELSE Taken(l)
  <2>1. ~ (m.bal > lb.lastTried)
    BY <1>2, <1>5, <1>6
  <2> QED
    BY <1>0, <2>1 DEF HandleAcceptReply
<1>8. /\ counted \in Bookkeeping /\ counted.proposals = lb.proposals
      /\ counted.lastTried = InitialLeader /\ counted.prepareOKs = lb.prepareOKs
  <2> HIDE DEF lb
  <2> QED
    BY <1>5 DEF Bookkeeping
<1>9. /\ x \in Instance /\ x.cmds = inst.cmds /\ x.bal = inst.bal
      /\ x.status = IF commits THEN "COMMITTED" ELSE inst.status
  <2> HIDE DEF inst, commits
  <2> QED
    BY <1>5 DEF Instance, Status
<1> HIDE DEF m, counted, x
<1>10. PICK Z \in SUBSET Links, answer \in Message("CommitShort") :
         /\ AfterMove(net', {l}, Z, answer) /\ answer.inst = i
         /\ answer.bal = InitialLeader
         /\ \A z \in Z : z[1] = InitialLeader /\ z[3] = "CommitShort"
         /\ Z # {} => commits /\ ~ UNCHANGED insts /\ insts' = [insts EXCEPT ![r][i] = x]
  <2> DEFINE short == Prepare(i, inst.bal)
  <2>1. short \in Message("CommitShort") /\ short.inst = i /\ short.bal = InitialLeader
    BY <1>5, <1>6 DEF Message, Prepare
  <2>2. CASE net' = Taken(l)
    <3>1. AfterMove(net', {l}, {}, short)
      BY <1>1, <2>2, Took DEF IInv
    <3> QED
      BY <2>1, <3>1
  <2>3. CASE net' # Taken(l)
    <3>1. /\ commits /\ inst.status # "COMMITTED"
          /\ net' = Broadcast(Taken(l), r, "CommitShort", short)
          /\ insts' = [insts EXCEPT ![r][i] = x]
      BY <1>7, <2>3
    <3>2. ~ UNCHANGED insts
      <4>1. insts'[r][i] = x
        BY <3>1, <1>9, InstsUpdated DEF IInv
      <4> QED
        BY <4>1, <1>9, <3>1
    <3>3. AfterMove(net', {l}, ToAll(r, "CommitShort"), short)
      BY <1>1, <2>1, <3>1, Told DEF IInv
    <3>4. /\ ToAll(r, "CommitShort") \subseteq Links
          /\ \A z \in ToAll(r, "CommitShort") : z[1] = InitialLeader /\ z[3] = "CommitShort"
      BY <1>2 DEF ToAll
    <3> HIDE DEF short
    <3> QED
      BY <2>1, <3>1, <3>2, <3>3, <3>4
  <2> QED
    BY <2>2, <2>3
<1>11. /\ \A s \in Replicas, j \in Instances :
            ~ (s = r /\ j = i) =>
              insts'[s][j] = insts[s][j] /\ lbs'[s][j] = lbs[s][j]
       /\ \/ insts'[r][i] = inst /\ lbs'[r][i] = lb
          \/ insts'[r][i] = x /\ lbs'[r][i] = counted /\ inst.status # "COMMITTED"
       /\ Z # {} => insts'[r][i] = x /\ commits
  <2>1. CASE UNCHANGED <<insts, lbs>>
    BY <1>10, <2>1
  <2>2. CASE /\ inst.status # "COMMITTED"
             /\ lbs' = [lbs EXCEPT ![r][i] = counted]
             /\ insts' = [insts EXCEPT ![r][i] = x]
    <3>1. \A s \in Replicas, j \in Instances :
            /\ insts'[s][j] = IF s = r /\ j = i THEN x ELSE insts[s][j]
            /\ lbs'[s][j] = IF s = r /\ j = i THEN counted ELSE lbs[s][j]
      BY <1>8, <1>9, <2>2, InstsUpdated, LbsUpdated DEF IInv
    <3> QED
      BY <1>10, <2>2, <3>1
  <2> QED
    BY <1>7, <2>1, <2>2
<1>12. /\ insts'[r][i] # NoInstance /\ insts'[r][i].cmds = Proposed(i)
       /\ insts'[r][i].bal = InitialLeader
       /\ insts'[r][i].status \in {"ACCEPTED", "COMMITTED"}
       /\ inst.status = "COMMITTED" => insts'[r][i].status = "COMMITTED"
       /\ lbs'[r][i] # NoBookkeeping /\ lbs'[r][i].proposals = lb.proposals
       /\ lbs'[r][i].prepareOKs = lb.prepareOKs
       /\ lbs'[r][i].lastTried = InitialLeader
  BY <1>2, <1>5, <1>8, <1>9, <1>11, NilApart DEF Proposed
<1>13. \A p \in Peers :
         /\ InstsOn(net', <<InitialLeader, p, "Prepare">>) = Asked(p)
         /\ InstsOn(net', <<p, InitialLeader, "PrepareReply">>) = Promised(p)
         /\ InstsOn(net', <<p, InitialLeader, "Commit">>) = Corrected(p)
         /\ InstsOn(net', <<p, InitialLeader, "AcceptReply">>) \subseteq Accepting(p)
         /\ i \in InstsOn(net', <<InitialLeader, p, "CommitShort">>) =>
              i \in Shortened(p) \/ Z # {}
  <2> TAKE p \in Peers
  <2>1. \A t \in {"PrepareReply", "Commit"} :
          <<p, InitialLeader, t>> \in Links \ Z /\ <<p, InitialLeader, t>> # l
    BY <1>10, PeerLinks
  <2>2. /\ <<InitialLeader, p, "Prepare">> \in Links \ Z
        /\ <<InitialLeader, p, "Prepare">> # l
        /\ <<p, InitialLeader, "AcceptReply">> \in Links \ Z
        /\ <<InitialLeader, p, "CommitShort">> \in Links
    BY <1>10, PeerLinks
  <2> HIDE DEF l
  <2> QED
    BY <1>10, <2>1, <2>2 DEF AfterMove, LinksAfter, Asked, Promised, Corrected,
       Accepting, Shortened
<1>14. LeadersMessages(q, i) /\ LeadersRecord(i)
  BY <1>2, <1>11, <1>12, <1>13 DEF LeadersMessages, LeadersRecord
<1>15. Finished(i)' = Finished(i)
  BY <1>13 DEF Finished, Asked, Promised, Corrected
<1>16. LeaderProposes(i)'
  BY <1>2, <1>3, <1>4, <1>12 DEF InstanceSteady, LeaderProposes, Known, Bookkept,
     Proposed, BatchTaken
<1>17. PromisesCounted(i)' /\ ProposedAfterPromises(i)'
  BY <1>2, <1>3, <1>4, <1>12, <1>15 DEF InstanceSteady, PromisesCounted,
     ProposedAfterPromises, Promises, BatchTaken, Proposed, Known
<1>18. \A p \in Peers : insts'[p][i] = insts[p][i]
  BY <1>2, <1>3, <1>4, <1>14, LeaderSteps
<1>19. \A p \in Peers :
         \/ i \in InstsOn(net', <<InitialLeader, p, "CommitShort">>)
         \/ insts'[p][i] # NoInstance /\ insts'[p][i].status = "COMMITTED"
         => Decided(p, i) \/ Z # {}
  BY <1>13, <1>18 DEF Decided, Known
<1>20. DecidedByLeader(i)'
  <2>1. Z # {} => insts'[r][i].status = "COMMITTED"
    BY <1>9, <1>11
  <2>2. \A p \in Peers : Decided(p, i) =>
          inst.status = "COMMITTED" \/ lb.prepareOKs >= ReadQuorumSize
    BY <1>2, <1>3 DEF InstanceSteady, DecidedByLeader, Promises
  <2> QED
    BY <1>2, <1>4, <1>12, <1>19, <2>1, <2>2 DEF DecidedByLeader, Decided, Shortened,
       Known, Proposed, Promises
<1>21. CommitsAccepted(i)'
  <2>1. SomePeerAccepted(i)'
    BY <1>2, <1>3, <1>4, <1>14, LeaderSteps
  <2> QED
    BY <2>1 DEF CommitsAccepted
<1>22. \A j \in Instances : j # i => Untouched(j)
  <2>1. \A z \in {l} : Head(net[z]).inst = i
    BY <1>0 DEF m
  <2>2. \A s \in Replicas, j \in Instances :
          j # i => insts'[s][j] = insts[s][j] /\ lbs'[s][j] = lbs[s][j]
    BY <1>11
  <2>3. {l} \subseteq Links /\ RoundTripsOnce /\ \A z \in Z : answer.inst = i
    BY <1>2, <1>10 DEF SteadyInv
  <2> HIDE DEF l
  <2> QED
    BY <1>2, <1>10, <2>1, <2>2, <2>3, OthersUntouched
<1>23. RoundTripsOnce'
  <2>1. \A z \in Z : z[3] = "CommitShort"
    BY <1>10
  <2> HIDE DEF l
  <2> QED
    BY <1>10, <2>1, RoundTripsStayOnce DEF SteadyInv
<1>24. \A z \in Links : \A y \in Queued(net', z) : y \in OnLink(z) \/ FromLeader(z, y)'
  <2>1. \A z \in Z : FromLeader(z, answer)'
    BY <1>10 DEF FromLeader
  <2> QED
    BY <1>10, <2>1 DEF AfterMove
<1>25. /\ \A s \in Replicas : maxRecvBallot'[s] \in {-1, InitialLeader}
       /\ \A s, p \in Replicas : defaultBallot'[s][p] \in {-1, InitialLeader}
  BY <1>1, <1>2, HearsLeaders DEF IInv, SteadyInv, OneBallot
<1> QED
  BY <1>1, <1>2, <1>4, <1>14, <1>16, <1>17, <1>20, <1>21, <1>22, <1>23, <1>24,
     <1>25, LeaderKeeps

\* The peers whose round trip is over are at most all of them.
LEMMA FinishedCount ==
  ASSUME NEW i
  PROVE  /\ Finished(i) \subseteq Peers /\ IsFiniteSet(Finished(i))
         /\ Cardinality(Finished(i)) \in Nat
         /\ \A S \in SUBSET Peers :
              Finished(i) \subseteq S =>
                /\ IsFiniteSet(S) /\ Cardinality(S) \in Nat
                /\ Cardinality(Finished(i)) <= Cardinality(S)
                /\ \A q \in S \ Finished(i) :
                     Cardinality(Finished(i)) + 1 <= Cardinality(S)
<1>1. Finished(i) \subseteq Peers /\ IsFiniteSet(Peers)
  BY PeersCount DEF Finished
<1>2. ASSUME NEW S \in SUBSET Peers
      PROVE  IsFiniteSet(S) /\ Cardinality(S) \in Nat
  BY <1>1, FS_Subset, FS_CardinalityType
<1>3. ASSUME NEW S \in SUBSET Peers, NEW T \in SUBSET Peers, T \subseteq S
      PROVE  Cardinality(T) <= Cardinality(S)
  BY <1>2, <1>3, FS_Subset
<1>4. ASSUME NEW S \in SUBSET Peers, NEW T \in SUBSET Peers, T \subseteq S,
             NEW q \in S \ T
      PROVE  Cardinality(T) + 1 <= Cardinality(S)
  <2>1. T \cup {q} \in SUBSET Peers /\ T \cup {q} \subseteq S
    BY <1>4
  <2>2. Cardinality(T \cup {q}) <= Cardinality(S)
    BY <2>1, <1>3
  <2>3. Cardinality(T \cup {q}) = Cardinality(T) + 1
    BY <1>2, <1>4, FS_AddElement
  <2> QED
    BY <2>2, <2>3
<1> QED
  BY <1>1, <1>2, <1>3, <1>4

LEMMA HandleCommitSteady ==
  ASSUME IInv, SteadyInv, NEW r \in Replicas, NEW q \in Replicas, HandleCommit(r, q)
  PROVE  SteadyInv'
<1> DEFINE l == <<q, r, "Commit">>
           m == Head(net[l])
<1>0. PICK i \in Instances : i = m.inst
  BY TakingLeaders DEF HandleCommit, Types
<1> DEFINE lb == lbs[r][i]
           inst == insts[r][i]
           x == [cmds |-> m.cmds, bal |-> m.bal, vbal |-> m.bal, status |-> "COMMITTED"]
           y == [lb EXCEPT !.proposals = None]
<1>1. /\ Receives(r, q, "Commit") /\ "Commit" \in Types /\ net' = Taken(l)
      /\ UNCHANGED <<isLeader, maxRecvBallot, defaultBallot, toRecover, executed,
                     replied>>
  BY DEF HandleCommit, Types
<1>2. /\ l \in Links /\ m \in Message("Commit") /\ i \in InstsOn(net, l)
      /\ FromLeader(l, m)
      /\ m.bal = InitialLeader /\ r = InitialLeader /\ q \in Peers
  BY <1>0, <1>1, TakingLeaders
<1>3. InstanceSteady(i) /\ i \in Corrected(q)
  BY <1>2 DEF SteadyInv, Corrected
<1>4. Known(r, i) /\ m.cmds = Proposed(i) /\ Proposed(i) # None
  BY <1>0, <1>2 DEF FromLeader
<1>5. /\ lb \in Bookkeeping /\ lb.lastTried = InitialLeader /\ Bookkept(r, i)
      /\ inst \in Instance /\ inst.bal = InitialLeader
      /\ inst.status \in {"ACCEPTED", "COMMITTED"} /\ inst.cmds = Proposed(i)
  <2>1. Bookkept(r, i)
    BY <1>2, <1>3, <1>4 DEF InstanceSteady, LeaderProposes
  <2>2. lb \in Bookkeeping /\ inst \in Instance
    BY <1>2, <1>4, <2>1, OpenedTyped DEF IInv
  <2> QED
    BY <1>2, <1>3, <1>4, <2>1, <2>2 DEF SteadyInv, OneBallot, InstanceSteady,
       LeaderProposes, Proposed
<1>6. InitialLeader \in Nat /\ InitialLeader \in Ballots
  BY <1>2, OwnResidue DEF Message
<1>7. SomePeerAccepted(i) /\ (inst.status = "COMMITTED" \/ lb.prepareOKs >= ReadQuorumSize)
  <2>1. HasAccepted(q, i) /\ insts[q][i].status = "COMMITTED"
    BY <1>2, <1>3 DEF InstanceSteady, RoundTrip
  <2>2. Decided(q, i)
    BY <2>1 DEF Decided, HasAccepted
  <2> QED
    BY <1>2, <1>3, <2>1, <2>2 DEF SomePeerAccepted, InstanceSteady, DecidedByLeader, Promises
<1>8. /\ x \in Instance /\ x.cmds = Proposed(i) /\ x.bal = InitialLeader
      /\ x.status = "COMMITTED"
  BY <1>2, <1>4, <1>6 DEF Message, Instance, Status
<1>9. /\ y \in Bookkeeping /\ y.proposals = None /\ y.prepareOKs = lb.prepareOKs
      /\ y.lastTried = InitialLeader
  <2> HIDE DEF lb
  <2> QED
    BY <1>5 DEF Bookkeeping
<1>10. \/ /\ inst.status = "COMMITTED"
          /\ insts' = [insts EXCEPT ![r][i] = inst] /\ lbs' = lbs
       \/ /\ inst.status # "COMMITTED"
          /\ insts' = [insts EXCEPT ![r][i] = x]
          /\ \/ lbs' = [lbs EXCEPT ![r][i] = y]
             \/ lb.proposals = None /\ lbs' = lbs
  <2>1. InstanceOrOpened(r, i) = inst /\ OwnBatch(r, i) = lb.proposals
    BY <1>4, <1>5 DEF InstanceOrOpened, OwnBatch, Bookkept
  <2>2. ~ (m.bal < inst.bal)
    BY <1>2, <1>5, <1>6
  <2> QED
    BY <1>0, <2>1, <2>2 DEF HandleCommit
<1> HIDE DEF m, x, y
<1>11. /\ \A s \in Replicas, j \in Instances :
            ~ (s = r /\ j = i) =>
              insts'[s][j] = insts[s][j] /\ lbs'[s][j] = lbs[s][j]
       /\ insts'[r][i] # NoInstance /\ insts'[r][i].cmds = Proposed(i)
       /\ insts'[r][i].bal = InitialLeader /\ insts'[r][i].status = "COMMITTED"
       /\ lbs'[r][i] # NoBookkeeping /\ lbs'[r][i].lastTried = InitialLeader
       /\ lbs'[r][i].prepareOKs = lb.prepareOKs
       /\ \/ lbs'[r][i].proposals = lb.proposals
          \/ lbs'[r][i].proposals = None /\ lb.prepareOKs >= ReadQuorumSize
  <2>1. CASE /\ inst.status = "COMMITTED"
             /\ insts' = [insts EXCEPT ![r][i] = inst] /\ lbs' = lbs
    <3>1. \A s \in Replicas, j \in Instances : insts'[s][j] = insts[s][j]
      BY <1>5, <2>1, InstsUpdated DEF IInv
    <3> QED
      BY <1>5, <2>1, <3>1, NilApart
  <2>2. CASE /\ inst.status # "COMMITTED"
             /\ insts' = [insts EXCEPT ![r][i] = x]
             /\ \/ lbs' = [lbs EXCEPT ![r][i] = y]
                \/ lb.proposals = None /\ lbs' = lbs
    <3>1. \A s \in Replicas, j \in Instances :
            insts'[s][j] = IF s = r /\ j = i THEN x ELSE insts[s][j]
      BY <1>8, <2>2, InstsUpdated DEF IInv
    <3>2. CASE lbs' = [lbs EXCEPT ![r][i] = y]
      <4>1. \A s \in Replicas, j \in Instances :
              lbs'[s][j] = IF s = r /\ j = i THEN y ELSE lbs[s][j]
        BY <1>9, <3>2, LbsUpdated DEF IInv
      <4> QED
        BY <1>7, <1>8, <1>9, <2>2, <3>1, <4>1, NilApart
    <3>3. CASE lbs' = lbs
      BY <1>5, <1>7, <1>8, <2>2, <3>1, <3>3, NilApart
    <3> QED
      BY <2>2, <3>2, <3>3
  <2> QED
    BY <1>10, <2>1, <2>2
<1>12. AfterMove(net', {l}, {}, m) /\ Once(net, l)
  BY <1>1, <1>2, Took DEF IInv, SteadyInv, RoundTripsOnce
<1>13. \A p \in Peers :
         /\ InstsOn(net', <<InitialLeader, p, "Prepare">>) = Asked(p)
         /\ InstsOn(net', <<p, InitialLeader, "PrepareReply">>) = Promised(p)
         /\ InstsOn(net', <<p, InitialLeader, "Commit">>) =
              IF p = q THEN Corrected(p) \ {i} ELSE Corrected(p)
         /\ InstsOn(net', <<p, InitialLeader, "AcceptReply">>) = Accepting(p)
         /\ InstsOn(net', <<InitialLeader, p, "CommitShort">>) = Shortened(p)
  BY <1>0, <1>2, <1>12, PeerLinks DEF AfterMove, LinksAfter, Asked, Promised,
     Corrected, Accepting, Shortened, m
<1>14. LeadersMessages(q, i) /\ LeadersRecord(i)
  BY <1>2, <1>11, <1>13 DEF LeadersMessages, LeadersRecord
<1>15. /\ \A p \in Peers : insts'[p][i] = insts[p][i]
       /\ SomePeerAccepted(i)' /\ Finished(i) \subseteq Finished(i)'
  BY <1>2, <1>3, <1>4, <1>7, <1>14, LeaderSteps
<1>16. LeaderProposes(i)'
  BY <1>2, <1>3, <1>4, <1>11 DEF InstanceSteady, LeaderProposes, Known, Bookkept,
     Proposed, BatchTaken
<1>17. /\ Finished(i)' \subseteq Peers /\ Cardinality(Finished(i))' \in Nat
       /\ Cardinality(Finished(i)) \in Nat
       /\ Cardinality(Finished(i)) + 1 <= Cardinality(Finished(i))'
  <2>1. q \notin Finished(i) /\ q \in Finished(i)'
    <3>1. i \notin Asked(q) /\ i \notin Promised(q)
      BY <1>2, <1>3 DEF InstanceSteady, RoundTrip
    <3> QED
      BY <1>2, <1>3, <1>13, <3>1 DEF Finished, Asked, Promised, Corrected
  <2>2. Finished(i)' \subseteq Peers
    BY DEF Finished
  <2> QED
    BY <1>15, <2>1, <2>2, FinishedCount
<1>18. PromisesCounted(i)'
  <2>1. /\ lb.prepareOKs + (IF lb.proposals = None THEN 1 ELSE 0) <= Cardinality(Finished(i))
        /\ lb.prepareOKs \in Nat
    BY <1>2, <1>3, <1>4, <1>5 DEF InstanceSteady, PromisesCounted, Promises,
       BatchTaken, Bookkeeping
  <2> QED
    BY <1>2, <1>11, <1>17, <2>1 DEF PromisesCounted, Promises, BatchTaken
<1>19. ProposedAfterPromises(i)'
  <2>1. /\ lb.prepareOKs >= ReadQuorumSize - 1 \/ Finished(i) = Peers
        /\ lb.proposals = None => lb.prepareOKs >= ReadQuorumSize
    BY <1>2, <1>3, <1>4 DEF InstanceSteady, ProposedAfterPromises, Promises, BatchTaken
  <2>2. Finished(i) = Peers => Finished(i)' = Peers
    BY <1>15, <1>17
  <2> QED
    BY <1>2, <1>4, <1>11, <2>1, <2>2 DEF ProposedAfterPromises, Promises, BatchTaken,
       Proposed
<1>20. DecidedByLeader(i)'
  BY <1>2, <1>4, <1>11 DEF DecidedByLeader, Known, Proposed
<1>21. CommitsAccepted(i)'
  BY <1>15 DEF CommitsAccepted
<1>22. \A j \in Instances : j # i => Untouched(j)
  <2>1. \A z \in {l} : Head(net[z]).inst = i
    BY <1>0 DEF m
  <2>2. \A s \in Replicas, j \in Instances :
          j # i => insts'[s][j] = insts[s][j] /\ lbs'[s][j] = lbs[s][j]
    BY <1>11
  <2>3. {l} \subseteq Links /\ RoundTripsOnce /\ \A z \in {} : m.inst = i
    BY <1>2 DEF SteadyInv
  <2> HIDE DEF l
  <2> QED
    BY <1>2, <1>12, <2>1, <2>2, <2>3, OthersUntouched
<1>23. RoundTripsOnce'
  BY <1>12, RoundTripsStayOnce DEF SteadyInv
<1>24. \A z \in Links : \A n \in Queued(net', z) : n \in OnLink(z) \/ FromLeader(z, n)'
  BY <1>12 DEF AfterMove
<1>25. /\ \A s \in Replicas : maxRecvBallot'[s] \in {-1, InitialLeader}
       /\ \A s, p \in Replicas : defaultBallot'[s][p] \in {-1, InitialLeader}
  BY <1>1 DEF SteadyInv, OneBallot
<1> QED
  BY <1>1, <1>2, <1>4, <1>14, <1>16, <1>18, <1>19, <1>20, <1>21, <1>22, <1>23,
     <1>24, <1>25, LeaderKeeps

\* The one step that needs Steady: a promise that is counted finds the batch.
LEMMA BatchNotTaken ==
  ASSUME F <= 2, NEW i \in Instances, InstanceSteady(i), Known(InitialLeader, i),
         Promises(i) \in Nat, NEW q \in Peers, q \notin Finished(i)
  PROVE  /\ ~ BatchTaken(i)
         /\ Proposed(i) # None => Promises(i) >= ReadQuorumSize - 1
<1>1. /\ Cardinality(Finished(i)) \in Nat
      /\ Cardinality(Finished(i)) + 1 <= N - 1
  BY PeersCount, FinishedCount
<1>2. ReadQuorumSize \in Int /\ ReadQuorumSize >= N - 2
  BY DEF ReadQuorumSize, F
<1>3. ~ BatchTaken(i)
  <2> SUFFICES ASSUME BatchTaken(i) PROVE FALSE
    OBVIOUS
  <2>1. /\ Promises(i) + 1 <= Cardinality(Finished(i))
        /\ Promises(i) >= ReadQuorumSize
    BY DEF InstanceSteady, PromisesCounted, ProposedAfterPromises
  <2> QED
    BY <1>1, <1>2, <2>1
<1>4. Proposed(i) # None => Promises(i) >= ReadQuorumSize - 1
  BY DEF InstanceSteady, ProposedAfterPromises
<1> QED
  BY <1>3, <1>4

LEMMA HandlePrepareReplySteady ==
  ASSUME IInv, SteadyInv, F <= 2, NEW r \in Replicas, NEW q \in Replicas,
         HandlePrepareReply(r, q)
  PROVE  SteadyInv'
<1> DEFINE l == <<q, r, "PrepareReply">>
           m == Head(net[l])
<1>0. PICK i \in Instances : i = m.inst
  BY TakingLeaders DEF HandlePrepareReply, Types
<1> DEFINE lb == lbs[r][i]
           inst == insts[r][i]
           hb == Larger(lb.ballot, m.vbal)
           hc == IF m.vbal > lb.ballot THEN m.cmds ELSE lb.cmds
           hk == lb.prepareOKs + 1
           heard == [lb EXCEPT !.prepareOKs = hk, !.ballot = hb, !.cmds = hc]
           v == ChosenValue(lb)
           enough == heard.prepareOKs + 1 >= ReadQuorumSize
           y == [heard EXCEPT !.cmds = v]
           x == [inst EXCEPT !.cmds = v, !.bal = lb.lastTried, !.status = "ACCEPTED"]
<1>1. /\ Receives(r, q, "PrepareReply") /\ {"PrepareReply", "Accept"} \subseteq Types
      /\ maxRecvBallot' = Received(r, m.bal)
      /\ UNCHANGED <<isLeader, toRecover, executed, replied>>
  BY DEF HandlePrepareReply, Types
<1>2. /\ l \in Links /\ m \in Message("PrepareReply") /\ i \in InstsOn(net, l)
      /\ FromLeader(l, m)
      /\ m.bal = InitialLeader /\ r = InitialLeader /\ q \in Peers
  BY <1>0, <1>1, TakingLeaders
<1>3. InstanceSteady(i) /\ i \in Promised(q)
  BY <1>2 DEF SteadyInv, Promised
<1>4. Known(r, i) /\ i \notin Asked(q) /\ i \notin Corrected(q)
  BY <1>2, <1>3 DEF InstanceSteady, RoundTrip
<1>5. /\ lb \in Bookkeeping /\ lb.lastTried = InitialLeader /\ Bookkept(r, i)
      /\ inst \in Instance
  <2>1. Bookkept(r, i)
    BY <1>2, <1>3, <1>4 DEF InstanceSteady, LeaderProposes
  <2>2. lb \in Bookkeeping /\ inst \in Instance
    BY <1>2, <1>4, <2>1, OpenedTyped DEF IInv
  <2> QED
    BY <1>2, <2>1, <2>2 DEF SteadyInv, OneBallot
<1>6. /\ InitialLeader \in Nat /\ InitialLeader \in Ballots
      /\ m.default \in {-1, InitialLeader}
  BY <1>2, OwnResidue DEF Message, FromLeader
<1>7. /\ lb.proposals \in Commands /\ lb.proposals # None /\ v = lb.proposals
      /\ Proposed(i) # None => lb.prepareOKs >= ReadQuorumSize - 1 /\ Proposed(i) = v
      /\ lb.prepareOKs \in Nat /\ ReadQuorumSize \in Int
  <2>1. lb.prepareOKs \in Nat /\ lb.proposals \in Commands \cup {None}
    BY <1>5 DEF Bookkeeping
  <2>2. q \notin Finished(i)
    BY <1>3 DEF Finished
  <2>3. /\ ~ BatchTaken(i)
        /\ Proposed(i) # None => Promises(i) >= ReadQuorumSize - 1
    BY <1>2, <1>3, <1>4, <2>1, <2>2, BatchNotTaken DEF Promises
  <2>4. lb.proposals # None
    BY <1>2, <2>3 DEF BatchTaken
  <2>5. Proposed(i) # None => Proposed(i) = lb.proposals
    BY <1>2, <1>3, <1>4, <2>3 DEF InstanceSteady, LeaderProposes
  <2>6. ReadQuorumSize \in Int
    BY DEF ReadQuorumSize, F
  <2> QED
    BY <1>2, <2>1, <2>3, <2>4, <2>5, <2>6 DEF ChosenValue, Promises
<1>8. /\ defaultBallot' = [defaultBallot EXCEPT ![r] =
                             [defaultBallot[r] EXCEPT ![q] = Larger(@, m.default)]]
      /\ \/ /\ enough
            /\ lbs' = [lbs EXCEPT ![r][i] = y]
            /\ insts' = [insts EXCEPT ![r][i] = x]
            /\ net' = Broadcast(Taken(l), r, "Accept", Accept(i, lb.lastTried, v))
         \/ /\ ~ enough
            /\ lbs' = [lbs EXCEPT ![r][i] = heard]
            /\ net' = Taken(l) /\ insts' = insts
  <2>1. m.bal = lb.lastTried /\ ~ (m.bal < lb.lastTried) /\ ~ (m.bal > lb.lastTried)
    BY <1>2, <1>5, <1>6
  <2> DEFINE heard0 == [lb EXCEPT !.prepareOKs = @ + 1,
                                  !.ballot = Larger(@, m.vbal),
                                  !.cmds = IF m.vbal > lb.ballot THEN m.cmds ELSE @]
  <2>2. heard0 = heard
    OBVIOUS
  <2>3. /\ defaultBallot' = [defaultBallot EXCEPT ![r] =
                              [defaultBallot[r] EXCEPT ![q] = Larger(@, m.default)]]
        /\ \/ /\ heard0.prepareOKs + 1 >= ReadQuorumSize
              /\ lbs' = [lbs EXCEPT ![r][i] = [heard0 EXCEPT !.cmds = v]]
              /\ insts' = [insts EXCEPT ![r][i] =
                   [@ EXCEPT !.cmds = v, !.bal = lb.lastTried, !.status = "ACCEPTED"]]
              /\ net' = Broadcast(Taken(l), r, "Accept", Accept(i, lb.lastTried, v))
           \/ /\ heard0.prepareOKs + 1 < ReadQuorumSize
              /\ lbs' = [lbs EXCEPT ![r][i] = heard0]
              /\ net' = Taken(l) /\ insts' = insts
    BY <1>0, <2>1, Zenon DEF HandlePrepareReply
  <2>4. heard.prepareOKs \in Int
    <3>1. hk \in Int /\ DOMAIN lb = DOMAIN heard /\ "prepareOKs" \in DOMAIN lb
      BY <1>5, <1>7 DEF Bookkeeping
    <3>2. heard.prepareOKs = hk
      <4> HIDE DEF hk, hb, hc, lb
      <4> QED
        BY <1>5 DEF Bookkeeping
    <3> QED
      BY <3>1, <3>2
  <2>5. heard0.prepareOKs + 1 < ReadQuorumSize <=> ~ (heard0.prepareOKs + 1 >= ReadQuorumSize)
    BY <1>7, <2>2, <2>4
  <2> HIDE DEF heard, heard0, v, lb, m, l
  <2> QED
    BY <2>2, <2>3, <2>5
<1>9. /\ heard \in Bookkeeping /\ heard.proposals = lb.proposals
      /\ heard.prepareOKs = lb.prepareOKs + 1 /\ heard.lastTried = InitialLeader
  <2>1. m.vbal \in Ballots /\ m.cmds \in Values
    BY <1>2 DEF Message
  <2>2. /\ lb.ballot \in Ballots /\ lb.cmds \in Values /\ lb.prepareOKs \in Nat
    BY <1>5 DEF Bookkeeping
  <2>3. hb \in Ballots /\ hc \in Values /\ hk \in Nat
    BY <2>1, <2>2, LargerOne
  <2>4. hk = lb.prepareOKs + 1
    OBVIOUS
  <2> HIDE DEF hb, hc, hk, lb
  <2> QED
    BY <1>5, <2>3, <2>4 DEF Bookkeeping
<1> HIDE DEF heard, v
<1>10. /\ y \in Bookkeeping /\ y.proposals = lb.proposals
       /\ y.prepareOKs = lb.prepareOKs + 1 /\ y.lastTried = InitialLeader
  BY <1>7, <1>9 DEF Bookkeeping, Values
<1>11. /\ x \in Instance /\ x.cmds = v /\ x.bal = InitialLeader /\ x.status = "ACCEPTED"
  <2>1. v \in Values /\ lb.lastTried \in Ballots
    BY <1>5, <1>6, <1>7 DEF Values
  <2> HIDE DEF inst, lb
  <2> QED
    BY <1>5, <2>1 DEF Instance, Status
<1>12. enough <=> lb.prepareOKs + 2 >= ReadQuorumSize
  BY <1>7, <1>9
<1> HIDE DEF m, x, y, enough
<1>13. /\ \A s \in Replicas, j \in Instances :
            ~ (s = r /\ j = i) =>
              insts'[s][j] = insts[s][j] /\ lbs'[s][j] = lbs[s][j]
       /\ lbs'[r][i] # NoBookkeeping /\ lbs'[r][i].proposals = lb.proposals
       /\ lbs'[r][i].prepareOKs = lb.prepareOKs + 1
       /\ lbs'[r][i].lastTried = InitialLeader
       /\ insts'[r][i] = IF enough THEN x ELSE inst
  <2>1. CASE enough
    <3>1. \A s \in Replicas, j \in Instances :
            /\ insts'[s][j] = IF s = r /\ j = i THEN x ELSE insts[s][j]
            /\ lbs'[s][j] = IF s = r /\ j = i THEN y ELSE lbs[s][j]
      BY <1>8, <1>10, <1>11, <2>1, InstsUpdated, LbsUpdated DEF IInv
    <3> QED
      BY <1>10, <2>1, <3>1, NilApart
  <2>2. CASE ~ enough
    <3>1. \A s \in Replicas, j \in Instances :
            /\ insts'[s][j] = insts[s][j]
            /\ lbs'[s][j] = IF s = r /\ j = i THEN heard ELSE lbs[s][j]
      BY <1>8, <1>9, <2>2, LbsUpdated DEF IInv
    <3> QED
      BY <1>9, <2>2, <3>1, NilApart
  <2> QED
    BY <2>1, <2>2
<1>14. /\ insts'[r][i] # NoInstance
       /\ Proposed(i) # None => insts'[r][i].cmds = Proposed(i)
       /\ enough => insts'[r][i].cmds = v /\ insts'[r][i].bal = InitialLeader
                    /\ insts'[r][i].status = "ACCEPTED"
  BY <1>2, <1>5, <1>7, <1>11, <1>13, NilApart DEF Proposed
<1>15. PICK Z \in SUBSET Links, answer \in Message("Accept") :
         /\ AfterMove(net', {l}, Z, answer)
         /\ answer.inst = i /\ answer.bal = InitialLeader /\ answer.cmds = v
         /\ \A z \in Z : z[1] = InitialLeader /\ z[3] = "Accept"
         /\ Z # {} => enough
  <2> DEFINE a == Accept(i, lb.lastTried, v)
  <2>1. a \in Message("Accept") /\ a.inst = i /\ a.bal = InitialLeader /\ a.cmds = v
    BY <1>5, <1>6, <1>7 DEF Message, Accept, Values
  <2>2. CASE enough
    <3>1. AfterMove(net', {l}, ToAll(r, "Accept"), a)
      BY <1>1, <1>8, <2>1, <2>2, Told DEF IInv
    <3>2. /\ ToAll(r, "Accept") \subseteq Links
          /\ \A z \in ToAll(r, "Accept") : z[1] = InitialLeader /\ z[3] = "Accept"
      BY <1>2 DEF ToAll
    <3> HIDE DEF a
    <3> QED
      BY <2>1, <2>2, <3>1, <3>2
  <2>3. CASE ~ enough
    <3>1. AfterMove(net', {l}, {}, a)
      BY <1>1, <1>8, <2>3, Took DEF IInv
    <3> HIDE DEF a
    <3> QED
      BY <2>1, <3>1
  <2> QED
    BY <2>2, <2>3
<1>16. Once(net, l)
  BY <1>2 DEF SteadyInv, RoundTripsOnce
<1>17. \A p \in Peers :
         /\ InstsOn(net', <<InitialLeader, p, "Prepare">>) = Asked(p)
         /\ InstsOn(net', <<p, InitialLeader, "PrepareReply">>) =
              IF p = q THEN Promised(p) \ {i} ELSE Promised(p)
         /\ InstsOn(net', <<p, InitialLeader, "Commit">>) = Corrected(p)
         /\ InstsOn(net', <<p, InitialLeader, "AcceptReply">>) = Accepting(p)
         /\ InstsOn(net', <<InitialLeader, p, "CommitShort">>) = Shortened(p)
  <2> TAKE p \in Peers
  <2>1. \A t \in {"PrepareReply", "Commit", "AcceptReply"} :
          /\ <<p, InitialLeader, t>> \in Links \ Z
          /\ <<p, InitialLeader, t>> = l <=> p = q /\ t = "PrepareReply"
    BY <1>2, <1>15, PeerLinks
  <2>2. \A t \in {"Prepare", "CommitShort"} :
          <<InitialLeader, p, t>> \in Links \ Z /\ <<InitialLeader, p, t>> # l
    BY <1>15, PeerLinks
  <2>3. Head(net[l]).inst = i
    BY <1>0 DEF m
  <2> HIDE DEF l
  <2> QED
    BY <1>15, <1>16, <2>1, <2>2, <2>3 DEF AfterMove, LinksAfter, Asked, Promised,
       Corrected, Accepting, Shortened
<1>18. LeadersMessages(q, i) /\ LeadersRecord(i)
  BY <1>2, <1>13, <1>14, <1>17 DEF LeadersMessages, LeadersRecord
<1>19. /\ \A p \in Peers : insts'[p][i] = insts[p][i]
       /\ SomePeerAccepted(i) => SomePeerAccepted(i)'
       /\ Finished(i) \subseteq Finished(i)'
  BY <1>2, <1>3, <1>4, <1>18, LeaderSteps
<1>20. LeaderProposes(i)'
  <2>1. CASE enough
    BY <1>2, <1>7, <1>13, <1>14, <2>1 DEF LeaderProposes, Known, Bookkept, Proposed, BatchTaken
  <2>2. CASE ~ enough
    BY <1>2, <1>3, <1>4, <1>13, <2>2 DEF InstanceSteady, LeaderProposes, Known,
       Bookkept, Proposed, BatchTaken
  <2> QED
    BY <2>1, <2>2
<1>21. PromisesCounted(i)'
  <2>1. q \notin Finished(i) /\ q \in Finished(i)'
    BY <1>2, <1>3, <1>4, <1>17 DEF Finished, Asked, Promised, Corrected
  <2>2. Finished(i)' \subseteq Peers
    BY DEF Finished
  <2>3. /\ Cardinality(Finished(i)) + 1 <= Cardinality(Finished(i))'
        /\ Cardinality(Finished(i)) \in Nat /\ Cardinality(Finished(i))' \in Nat
    BY <1>19, <2>1, <2>2, FinishedCount
  <2>4. lb.prepareOKs <= Cardinality(Finished(i))
    BY <1>2, <1>3, <1>4, <1>7 DEF InstanceSteady, PromisesCounted, Promises, BatchTaken
  <2> QED
    BY <1>2, <1>7, <1>13, <2>3, <2>4 DEF PromisesCounted, Promises, BatchTaken
<1>22. ProposedAfterPromises(i)'
  <2>1. insts'[r][i].cmds # None => lb.prepareOKs + 1 >= ReadQuorumSize - 1
    <3>1. CASE enough
      BY <1>7, <1>12, <3>1
    <3>2. CASE ~ enough
      BY <1>2, <1>7, <1>13, <3>2 DEF Proposed
    <3> QED
      BY <3>1, <3>2
  <2> QED
    BY <1>2, <1>7, <1>13, <2>1 DEF ProposedAfterPromises, Promises, BatchTaken, Proposed
<1>23. \A p \in Peers :
         \/ i \in InstsOn(net', <<InitialLeader, p, "CommitShort">>)
         \/ insts'[p][i] # NoInstance /\ insts'[p][i].status = "COMMITTED"
         => Decided(p, i)
  BY <1>17, <1>19 DEF Decided, Known
<1>24. DecidedByLeader(i)'
  <2>1. \A p \in Peers : Decided(p, i) =>
          Proposed(i) # None /\ lb.prepareOKs + 1 >= ReadQuorumSize
    BY <1>3, <1>7 DEF InstanceSteady, DecidedByLeader
  <2> QED
    BY <1>2, <1>13, <1>14, <1>23, <2>1 DEF DecidedByLeader, Decided, Shortened,
       Known, Proposed, Promises
<1>25. CommitsAccepted(i)'
  <2>1. insts'[r][i].status = "COMMITTED" => SomePeerAccepted(i)
    BY <1>2, <1>3, <1>4, <1>13, <1>14 DEF InstanceSteady, CommitsAccepted
  <2>2. \A p \in Peers : Decided(p, i) \/ i \in Accepting(p) => SomePeerAccepted(i)
    BY <1>3 DEF InstanceSteady, CommitsAccepted
  <2> QED
    BY <1>2, <1>17, <1>19, <1>23, <2>1, <2>2 DEF CommitsAccepted, Decided, Shortened,
       Accepting, Known
<1>26. \A j \in Instances : j # i => Untouched(j)
  <2>1. \A z \in {l} : Head(net[z]).inst = i
    BY <1>0 DEF m
  <2>2. \A s \in Replicas, j \in Instances :
          j # i => insts'[s][j] = insts[s][j] /\ lbs'[s][j] = lbs[s][j]
    BY <1>13
  <2>3. {l} \subseteq Links /\ RoundTripsOnce /\ \A z \in Z : answer.inst = i
    BY <1>2, <1>15 DEF SteadyInv
  <2> HIDE DEF l
  <2> QED
    BY <1>2, <1>15, <2>1, <2>2, <2>3, OthersUntouched
<1>27. RoundTripsOnce'
  <2>1. \A z \in Z : z[3] = "Accept"
    BY <1>15
  <2> HIDE DEF l
  <2> QED
    BY <1>15, <2>1, RoundTripsStayOnce DEF SteadyInv
<1>28. \A z \in Links : \A n \in Queued(net', z) : n \in OnLink(z) \/ FromLeader(z, n)'
  <2>1. \A z \in Z : FromLeader(z, answer)'
    BY <1>2, <1>7, <1>14, <1>15 DEF FromLeader, Known, Proposed
  <2> QED
    BY <1>15, <2>1 DEF AfterMove
<1>29. \A s, p \in Replicas : defaultBallot'[s][p] \in {-1, InitialLeader}
  <2>1. \A s, p \in Replicas : defaultBallot[s][p] \in {-1, InitialLeader}
    BY DEF SteadyInv, OneBallot
  <2>2. defaultBallot \in [Replicas -> [Replicas -> Ballots]]
    BY DEF IInv, TypeOK
  <2>3. Larger(defaultBallot[r][q], m.default) \in {-1, InitialLeader}
    BY <1>6, <2>1 DEF Larger
  <2> QED
    BY <1>8, <2>1, <2>2, <2>3
<1>30. \A s \in Replicas : maxRecvBallot'[s] \in {-1, InitialLeader}
  BY <1>1, <1>2, HearsLeaders DEF IInv
<1> QED
  BY <1>1, <1>2, <1>4, <1>18, <1>20, <1>21, <1>22, <1>24, <1>25, <1>26, <1>27,
     <1>28, <1>29, <1>30, LeaderKeeps

----------------------------------------------------------------------------
\* Nothing is about an instance that the leader has not opened.
LEMMA NothingAbout ==
  ASSUME NEW i \in Instances, InstanceSteady(i), ~ Known(InitialLeader, i)
  PROVE  \A p \in Peers :
           /\ ~ Known(p, i) /\ ~ Decided(p, i)
           /\ i \notin Asked(p) /\ i \notin Promised(p) /\ i \notin Corrected(p)
           /\ i \notin Accepting(p) /\ i \notin Shortened(p)
<1>1. \A p \in Peers : ~ Known(p, i)
  BY DEF InstanceSteady, PeersCopy
<1>2. \A p \in Peers : i \notin Asked(p) /\ i \notin Promised(p) /\ i \notin Corrected(p)
  BY <1>1 DEF InstanceSteady, RoundTrip, HasAccepted
<1>3. \A p \in Peers : ~ Decided(p, i) /\ i \notin Shortened(p)
  BY DEF InstanceSteady, DecidedByLeader, Decided
<1>4. \A p \in Peers : i \notin Accepting(p)
  BY <1>1 DEF InstanceSteady, CommitsAccepted, SomePeerAccepted, HasAccepted
<1> QED
  BY <1>1, <1>2, <1>3, <1>4

LEMMA ProposeSteady ==
  ASSUME IInv, SteadyInv, NEW r \in Replicas, NEW c \in Commands, Propose(r, c)
  PROVE  SteadyInv'
<1>0. PICK i \in Instances : i = crtInstance[r] + 1
  BY DEF Propose
<1> DEFINE b == MadeBallot(r, maxRecvBallot[r])
           d == defaultBallot[r][r]
           lb == [proposals |-> c, prepareOKs |-> 0, acceptOKs |-> 0,
                  nacks |-> 0, ballot |-> r, cmds |-> None, lastTried |-> b]
           x2 == [cmds |-> c, bal |-> b, vbal |-> b, status |-> "ACCEPTED"]
           y2 == [lb EXCEPT !.cmds = c]
<1>1. /\ isLeader[r] /\ b <= MaxBallot
      /\ defaultBallot' = [defaultBallot EXCEPT ![r][r] = b]
      /\ UNCHANGED <<isLeader, maxRecvBallot, toRecover, executed, replied>>
      /\ \/ /\ insts' = [insts EXCEPT ![r][i] = Opened(d)]
            /\ lbs' = [lbs EXCEPT ![r][i] = lb]
            /\ net' = Broadcast(net, r, "Prepare", Prepare(i, b))
         \/ /\ insts' = [insts EXCEPT ![r][i] = x2]
            /\ lbs' = [lbs EXCEPT ![r][i] = y2]
            /\ net' = Broadcast(net, r, "Accept", Accept(i, b, c))
  BY <1>0 DEF Propose
<1>2. r = InitialLeader /\ d \in {-1, InitialLeader}
  BY <1>1 DEF SteadyInv, OneBallot
<1>3. b = InitialLeader
  <2>1. maxRecvBallot[r] \in {-1, InitialLeader}
    BY DEF SteadyInv, OneBallot
  <2> QED
    BY <1>1, <1>2, <2>1, LeaderBallot DEF IInv, SteadyInv
<1>4. InitialLeader \in Nat /\ InitialLeader \in Ballots /\ d \in Ballots
  <2>1. InitialLeader \in Nat
    BY OwnResidue
  <2> HIDE DEF b, d
  <2> QED
    BY <1>1, <1>2, <1>3, <2>1 DEF Ballots
<1> HIDE DEF b, d
<1>5. /\ c # None /\ c \in Values /\ None \in Values
      /\ {"PREPARING", "ACCEPTED"} \subseteq Status
  BY DEF Values, Status
<1>6. PICK x \in Instance, y \in Bookkeeping, t \in {"Prepare", "Accept"} :
        \E m \in Message(t) :
          /\ insts' = [insts EXCEPT ![r][i] = x] /\ lbs' = [lbs EXCEPT ![r][i] = y]
          /\ net' = Broadcast(net, r, t, m)
          /\ m.inst = i /\ m.bal = InitialLeader
          /\ y.proposals = c /\ y.prepareOKs = 0 /\ y.lastTried = InitialLeader
          /\ IF t = "Prepare"
             THEN x.cmds = None /\ x.status = "PREPARING" /\ x.bal \in {-1, InitialLeader}
             ELSE /\ x.cmds = c /\ x.status = "ACCEPTED" /\ x.bal = InitialLeader
                  /\ m.cmds = c
  <2>1. lb \in Bookkeeping /\ y2 \in Bookkeeping
    BY <1>2, <1>3, <1>4, <1>5 DEF Bookkeeping
  <2>2. /\ y2.proposals = c /\ y2.prepareOKs = 0 /\ y2.lastTried = InitialLeader
        /\ lb.proposals = c /\ lb.prepareOKs = 0 /\ lb.lastTried = InitialLeader
    BY <1>3
  <2>3. CASE /\ insts' = [insts EXCEPT ![r][i] = Opened(d)]
             /\ lbs' = [lbs EXCEPT ![r][i] = lb]
             /\ net' = Broadcast(net, r, "Prepare", Prepare(i, b))
    <3> DEFINE m == Prepare(i, b)
    <3>1. m \in Message("Prepare") /\ m.inst = i /\ m.bal = InitialLeader
      BY <1>3, <1>4 DEF Message, Prepare
    <3>2. /\ Opened(d) \in Instance /\ Opened(d).cmds = None
          /\ Opened(d).status = "PREPARING" /\ Opened(d).bal \in {-1, InitialLeader}
      BY <1>2, <1>4, <1>5 DEF Opened, Instance
    <3> HIDE DEF m, lb, y2
    <3> QED
      BY <2>1, <2>2, <2>3, <3>1, <3>2 DEF m
  <2>4. CASE /\ insts' = [insts EXCEPT ![r][i] = x2]
             /\ lbs' = [lbs EXCEPT ![r][i] = y2]
             /\ net' = Broadcast(net, r, "Accept", Accept(i, b, c))
    <3> DEFINE m == Accept(i, b, c)
    <3>1. m \in Message("Accept") /\ m.inst = i /\ m.bal = InitialLeader /\ m.cmds = c
      BY <1>3, <1>4, <1>5 DEF Message, Accept
    <3>2. /\ x2 \in Instance /\ x2.cmds = c
          /\ x2.status = "ACCEPTED" /\ x2.bal = InitialLeader
      BY <1>3, <1>4, <1>5 DEF Instance
    <3> HIDE DEF m, lb, y2, x2
    <3> QED
      BY <2>1, <2>2, <2>4, <3>1, <3>2 DEF m
  <2> QED
    BY <1>1, <2>3, <2>4
<1>7. PICK m \in Message(t) :
          /\ insts' = [insts EXCEPT ![r][i] = x] /\ lbs' = [lbs EXCEPT ![r][i] = y]
          /\ net' = Broadcast(net, r, t, m)
          /\ m.inst = i /\ m.bal = InitialLeader
          /\ y.proposals = c /\ y.prepareOKs = 0 /\ y.lastTried = InitialLeader
          /\ IF t = "Prepare"
             THEN x.cmds = None /\ x.status = "PREPARING" /\ x.bal \in {-1, InitialLeader}
             ELSE /\ x.cmds = c /\ x.status = "ACCEPTED" /\ x.bal = InitialLeader
                  /\ m.cmds = c
  BY <1>6
<1>8. \A s \in Replicas, j \in Instances :
        /\ insts'[s][j] = IF s = r /\ j = i THEN x ELSE insts[s][j]
        /\ lbs'[s][j] = IF s = r /\ j = i THEN y ELSE lbs[s][j]
  BY <1>7, InstsUpdated, LbsUpdated DEF IInv
<1>9. x # NoInstance /\ y # NoBookkeeping
  BY NilApart
<1> DEFINE Z == ToAll(r, t)
<1>10. AfterMove(net', {}, Z, m)
  BY <1>7, Announced DEF IInv, Types
<1>11. ~ Known(InitialLeader, i)
  <2>1. crtInstance[r] \in Int
    BY DEF IInv, TypeOK, Instances
  <2>2. Known(r, i) => i <= crtInstance[r]
    BY DEF IInv, NoOverwrite
  <2> QED
    BY <1>0, <1>2, <2>1, <2>2
<1>12. \A p \in Peers :
         /\ ~ Known(p, i) /\ ~ Decided(p, i)
         /\ i \notin Asked(p) /\ i \notin Promised(p) /\ i \notin Corrected(p)
         /\ i \notin Accepting(p) /\ i \notin Shortened(p)
  BY <1>11, NothingAbout DEF SteadyInv
<1>13. \A p \in Peers :
         /\ i \in InstsOn(net', <<InitialLeader, p, "Prepare">>) <=> t = "Prepare"
         /\ i \notin InstsOn(net', <<p, InitialLeader, "PrepareReply">>)
         /\ i \notin InstsOn(net', <<p, InitialLeader, "Commit">>)
         /\ i \notin InstsOn(net', <<p, InitialLeader, "AcceptReply">>)
         /\ i \notin InstsOn(net', <<InitialLeader, p, "CommitShort">>)
  <2> TAKE p \in Peers
  <2>1. \A u \in {"PrepareReply", "Commit", "AcceptReply"} :
          <<p, InitialLeader, u>> \in Links \ Z
    BY <1>2, PeerLinks DEF ToAll
  <2>2. /\ <<InitialLeader, p, "Prepare">> \in Links
        /\ <<InitialLeader, p, "Prepare">> \in Z <=> t = "Prepare"
        /\ <<InitialLeader, p, "CommitShort">> \in Links \ Z
    BY <1>2, PeerLinks DEF ToAll
  <2> HIDE DEF Z
  <2> QED
    BY <1>7, <1>10, <1>12, <2>1, <2>2 DEF AfterMove, LinksAfter, Asked, Promised,
       Corrected, Accepting, Shortened
<1>14. /\ insts'[InitialLeader][i] = x /\ lbs'[InitialLeader][i] = y
       /\ \A p \in Peers : insts'[p][i] = NoInstance
  BY <1>2, <1>8, <1>12, PeerLinks DEF Known
<1>15. Finished(i)' = IF t = "Prepare" THEN {} ELSE Peers
  BY <1>13 DEF Finished, Asked, Promised, Corrected
<1>16. LeaderProposes(i)'
  BY <1>5, <1>7, <1>9, <1>14 DEF LeaderProposes, Known, Bookkept, Proposed, BatchTaken
<1>17. PeersCopy(i)' /\ RoundTrip(i)'
  BY <1>9, <1>13, <1>14 DEF PeersCopy, RoundTrip, Known, Asked, Promised, Corrected
<1>18. PromisesCounted(i)' /\ ProposedAfterPromises(i)'
  <2>1. Cardinality(Finished(i))' \in Nat
    BY <1>15, PeersCount, FS_CardinalityType, FS_EmptySet
  <2> QED
    BY <1>5, <1>7, <1>14, <1>15, <2>1 DEF PromisesCounted, ProposedAfterPromises,
       Promises, BatchTaken, Proposed
<1>19. DecidedByLeader(i)' /\ CommitsAccepted(i)'
  BY <1>7, <1>13, <1>14 DEF DecidedByLeader, CommitsAccepted, Decided, Shortened,
     Accepting, Known
<1>20. InstanceSteady(i)'
  BY <1>16, <1>17, <1>18, <1>19 DEF InstanceSteady
<1>21. \A j \in Instances : j # i => Untouched(j)
  <2>1. \A s \in Replicas, j \in Instances :
          j # i => insts'[s][j] = insts[s][j] /\ lbs'[s][j] = lbs[s][j]
    BY <1>8
  <2>2. {} \subseteq Links /\ RoundTripsOnce /\ \A z \in Z : m.inst = i
    BY <1>7 DEF SteadyInv
  <2> HIDE DEF Z
  <2> QED
    BY <1>10, <2>1, <2>2, OthersUntouched
<1>22. OneBallot'
  <2>1. defaultBallot \in [Replicas -> [Replicas -> Ballots]]
    BY DEF IInv, TypeOK
  <2>2. \A s, p \in Replicas : defaultBallot'[s][p] \in {-1, InitialLeader}
    BY <1>1, <1>3, <2>1 DEF SteadyInv, OneBallot
  <2>3. \A s \in Replicas, j \in Instances : lbs'[s][j] # NoBookkeeping =>
          s = InitialLeader /\ lbs'[s][j].lastTried = InitialLeader
    BY <1>2, <1>7, <1>8 DEF SteadyInv, OneBallot, Bookkept
  <2> QED
    BY <1>1, <2>2, <2>3 DEF SteadyInv, OneBallot, Bookkept
<1>23. ProposalsStay /\ AcceptedStay
  <2>1. ProposalsStay
    BY <1>2, <1>8, <1>11 DEF ProposalsStay, Known, Proposed
  <2>2. \A p \in Peers, j \in Instances : insts'[p][j] = insts[p][j]
    BY <1>2, <1>8, PeerLinks
  <2> QED
    BY <2>1, <2>2 DEF AcceptedStay, HasAccepted, Known
<1>24. ExecutedProposed' /\ RepliesMatch'
  BY <1>1, <1>23, ExecutedStay DEF SteadyInv, RepliesMatch
<1>25. RoundTripsOnce'
  <2>1. ASSUME NEW z \in Z, z[3] \in {"Prepare", "PrepareReply", "Commit"}
        PROVE  m.inst \notin InstsOn(net, z)
    <3>1. /\ z[1] = InitialLeader /\ z[3] = "Prepare" /\ z[2] \in Peers
          /\ z = <<InitialLeader, z[2], "Prepare">>
      BY <1>2, <1>6, <2>1 DEF ToAll, Links, Peers
    <3> QED
      BY <1>7, <1>12, <3>1 DEF Asked
  <2> HIDE DEF Z
  <2> QED
    BY <1>10, <2>1, RoundTripsStayOnce DEF SteadyInv
<1>26. MessagesOfLeader'
  <2>1. ASSUME NEW z \in Z PROVE FromLeader(z, m)'
    BY <1>2, <1>5, <1>7, <1>9, <1>14, <2>1 DEF ToAll, FromLeader, Known, Proposed
  <2>2. \A z \in Links : \A n \in Queued(net', z) : n \in OnLink(z) \/ FromLeader(z, n)'
    BY <1>10, <2>1 DEF AfterMove
  <2> QED
    BY <1>23, <2>2, MessagesStayLeaders DEF IInv, SteadyInv
<1> QED
  BY <1>20, <1>21, <1>22, <1>24, <1>25, <1>26, OneInstanceSteps

----------------------------------------------------------------------------
\* A step that leaves the records, the books and the messages alone.
LEMMA NothingMoves ==
  ASSUME SteadyInv, UNCHANGED <<insts, lbs, net>>
  PROVE  /\ \A i \in Instances : InstanceSteady(i)'
         /\ MessagesOfLeader' /\ RoundTripsOnce' /\ ProposalsStay /\ AcceptedStay
<1>1. ASSUME NEW j \in Instances PROVE InstanceSteady(j)'
  <2>1. Untouched(j)
    BY DEF Untouched
  <2>2. InstanceSteady(j)
    BY DEF SteadyInv
  <2> QED
    BY <2>1, <2>2, OthersStay
<1>2. MessagesOfLeader'
  BY DEF SteadyInv, MessagesOfLeader, OnLink, FromLeader, Known, Proposed
<1>3. RoundTripsOnce'
  BY DEF SteadyInv, RoundTripsOnce, Once
<1>4. ProposalsStay /\ AcceptedStay
  BY DEF ProposalsStay, AcceptedStay, HasAccepted, Known, Proposed
<1> QED
  BY <1>1, <1>2, <1>3, <1>4

LEMMA ExecuteSteady ==
  ASSUME IInv, SteadyInv, NEW r \in Replicas, Execute(r)
  PROVE  SteadyInv'
<1>0. PICK i \in Instances : i = NextToExecute(r)
  BY DEF Execute, Ready
<1> DEFINE v == insts[r][i].cmds
           own == OwnBatch(r, i)
<1>1. /\ Known(r, i) /\ v # None /\ insts[r][i].status = "COMMITTED"
      /\ i = Len(executed[r])
      /\ executed' = [executed EXCEPT ![r] = Append(@, v)]
      /\ replied' = [replied EXCEPT ![r] =
           IF own = None THEN @ ELSE @ \cup {<<own, v>>}]
      /\ UNCHANGED <<isLeader, toRecover, maxRecvBallot, defaultBallot, insts, lbs, net>>
  BY <1>0 DEF Execute, Ready, NextToExecute
<1>2. InstanceSteady(i)
  BY DEF SteadyInv
<1>3. Known(InitialLeader, i) /\ v = Proposed(i) /\ SomePeerAccepted(i)
  <2>1. CASE r = InitialLeader
    BY <1>1, <1>2, <2>1 DEF InstanceSteady, CommitsAccepted, Proposed
  <2>2. CASE r # InitialLeader
    <3>1. r \in Peers
      BY <2>2 DEF Peers
    <3>2. Known(InitialLeader, i) /\ (HasAccepted(r, i) \/ v = None)
      BY <1>1, <1>2, <3>1 DEF InstanceSteady, PeersCopy
    <3> QED
      BY <1>1, <3>1, <3>2 DEF HasAccepted, SomePeerAccepted
  <2> QED
    BY <2>1, <2>2
<1>4. own # None => own = v
  <2> SUFFICES ASSUME own # None PROVE own = v
    OBVIOUS
  <2>1. Bookkept(r, i) /\ own = lbs[r][i].proposals
    BY DEF OwnBatch, Bookkept
  <2>2. r = InitialLeader
    BY <2>1 DEF SteadyInv, OneBallot
  <2> QED
    BY <1>1, <1>2, <1>3, <2>1, <2>2 DEF InstanceSteady, LeaderProposes, BatchTaken
<1>5. executed \in [Replicas -> Seq(Commands \cup {Noop})]
  BY DEF IInv, TypeOK
<1>6. v \in Commands \cup {Noop}
  <2>1. insts[r][i] \in Instance
    BY <1>1 DEF IInv, TypeOK, Known
  <2> QED
    BY <1>1, <2>1 DEF Instance, Values
<1>7. ExecutedProposed'
  <2> HIDE DEF v, own
  <2>1. /\ Len(Append(executed[r], v)) = Len(executed[r]) + 1
        /\ Append(executed[r], v)[Len(executed[r]) + 1] = v
        /\ \A k \in 1 .. Len(executed[r]) : Append(executed[r], v)[k] = executed[r][k]
        /\ Len(executed[r]) \in Nat
    BY <1>5, <1>6, Appended
  <2>2. /\ SomePeerAccepted(i)' <=> SomePeerAccepted(i)
        /\ \A j : Known(InitialLeader, j)' <=> Known(InitialLeader, j)
        /\ \A j : Proposed(j)' = Proposed(j)
        /\ \A j : SomePeerAccepted(j)' <=> SomePeerAccepted(j)
    BY <1>1 DEF SomePeerAccepted, HasAccepted, Known, Proposed
  <2> SUFFICES ASSUME NEW s \in Replicas, NEW k \in 1 .. Len(executed'[s])
               PROVE  /\ k - 1 \in Instances /\ Known(InitialLeader, k - 1)
                      /\ executed'[s][k] = Proposed(k - 1) /\ executed'[s][k] # None
                      /\ SomePeerAccepted(k - 1)
    BY <2>2 DEF ExecutedProposed
  <2>3. CASE s = r /\ k = Len(executed[r]) + 1
    <3>1. executed'[s][k] = v /\ k - 1 = i
      BY <1>1, <1>5, <2>1, <2>3
    <3> QED
      BY <1>1, <1>3, <3>1 DEF v
  <2>4. CASE ~ (s = r /\ k = Len(executed[r]) + 1)
    <3>1. k \in 1 .. Len(executed[s]) /\ executed'[s][k] = executed[s][k]
      BY <1>1, <1>5, <2>1, <2>4
    <3> QED
      BY <3>1 DEF SteadyInv, ExecutedProposed
  <2> QED
    BY <2>3, <2>4
<1>8. RepliesMatch'
  <2>1. replied \in [Replicas -> SUBSET (Commands \X (Commands \cup {Noop}))]
    BY DEF IInv, TypeOK
  <2>2. \A s \in Replicas : \A p \in replied'[s] : p \in replied[s] \/ p = <<v, v>>
    <3> HIDE DEF v, own
    <3> QED
      BY <1>1, <1>4, <2>1
  <2> HIDE DEF v, own
  <2> QED
    BY <2>2 DEF SteadyInv, RepliesMatch
<1>9. OneBallot'
  BY <1>1 DEF SteadyInv, OneBallot, Bookkept
<1> QED
  BY <1>1, <1>7, <1>8, <1>9, NothingMoves DEF SteadyInv

\* A client that is refused, or a step of nothing that SteadyInv speaks of.
LEMMA RefuseSteady ==
  ASSUME SteadyInv, UNCHANGED <<isLeader, maxRecvBallot, defaultBallot, insts, lbs,
                                toRecover, executed, replied, net>>
  PROVE  SteadyInv'
<1>1. OneBallot' /\ RepliesMatch'
  BY DEF SteadyInv, OneBallot, Bookkept, RepliesMatch
<1>2. ExecutedProposed'
  BY NothingMoves, ExecutedStay DEF SteadyInv
<1> QED
  BY <1>1, <1>2, NothingMoves DEF SteadyInv

----------------------------------------------------------------------------
LEMMA InitSteady == Init => SteadyInv
<1> SUFFICES ASSUME Init PROVE SteadyInv
  OBVIOUS
<1>1. /\ \A l \in Links : InstsOn(net, l) = {} /\ OnLink(l) = {} /\ Once(net, l)
      /\ \A r \in Replicas, i \in Instances : ~ Known(r, i) /\ ~ Bookkept(r, i)
  BY DEF Init, InstsOn, OnLink, Once, Known, Bookkept
<1>2. OneBallot
  BY <1>1 DEF Init, OneBallot
<1>3. MessagesOfLeader /\ RoundTripsOnce
  BY <1>1 DEF MessagesOfLeader, RoundTripsOnce
<1>4. ExecutedProposed /\ RepliesMatch
  BY DEF Init, ExecutedProposed, RepliesMatch
<1>5. ASSUME NEW i \in Instances PROVE InstanceSteady(i)
  <2>1. \A q \in Peers : /\ Asked(q) = {} /\ Promised(q) = {} /\ Corrected(q) = {}
                         /\ Accepting(q) = {} /\ Shortened(q) = {}
                         /\ ~ Known(q, i)
    BY <1>1, PeerLinks DEF Asked, Promised, Corrected, Accepting, Shortened
  <2>2. ~ Known(InitialLeader, i)
    BY <1>1
  <2> QED
    BY <2>1, <2>2 DEF InstanceSteady, LeaderProposes, PeersCopy, RoundTrip,
       PromisesCounted, ProposedAfterPromises, DecidedByLeader, Decided, CommitsAccepted
<1> QED
  BY <1>2, <1>3, <1>4, <1>5 DEF SteadyInv

LEMMA NextSteady == IInv /\ SteadyInv /\ Steady /\ [Next]_vars => SteadyInv'
<1> SUFFICES ASSUME IInv, SteadyInv, Steady, [Next]_vars PROVE SteadyInv'
  OBVIOUS
<1>1. ASSUME NEW r \in Replicas, NEW c \in Commands, Propose(r, c) \/ Refuse(r, c)
      PROVE  SteadyInv'
  <2>1. CASE Propose(r, c)
    BY <2>1, ProposeSteady
  <2>2. CASE Refuse(r, c)
    BY <2>2, RefuseSteady DEF Refuse
  <2> QED
    BY <1>1, <2>1, <2>2
<1>2. ASSUME NEW r \in Replicas, NEW q \in Replicas, Handle(r, q)
      PROVE  SteadyInv'
  BY <1>2, HandlePrepareSteady, HandlePrepareReplySteady, HandleAcceptSteady,
     HandleAcceptReplySteady, HandleCommitSteady, HandleCommitShortSteady
     DEF Handle, Steady
<1>3. ASSUME NEW r \in Replicas, NEW i \in Instances, Recover(r, i)
      PROVE  FALSE
  BY <1>3 DEF Recover, SteadyInv, OneBallot
<1>4. ASSUME NEW r \in Replicas, Execute(r)
      PROVE  SteadyInv'
  BY <1>4, ExecuteSteady
<1>5. ASSUME NEW r \in Replicas, Timeout(r)
      PROVE  FALSE
  <2>1. timeouts[r] \in 0 .. MaxTimeouts /\ timeouts[r] < MaxTimeouts
    BY <1>5 DEF IInv, TypeOK, Timeout
  <2> QED
    BY <2>1 DEF Steady
<1>6. ASSUME NEW r \in Replicas, BeTheLeader(r)
      PROVE  FALSE
  BY <1>6 DEF BeTheLeader, Steady
<1>7. CASE UNCHANGED vars
  BY <1>7, RefuseSteady DEF vars
<1> QED
  BY <1>1, <1>2, <1>3, <1>4, <1>5, <1>6, <1>7 DEF Next, Step

\* The inductive invariant of a group whose leader stays and whose executors
\* are patient, beside that of every group.
THEOREM SteadyInvariance == Spec => []FullInv
<1>1. Init => FullInv
  BY InitIInv, InitSteady DEF FullInv
<1>2. FullInv /\ [Next]_vars => FullInv'
  BY NextIInv, NextSteady DEF FullInv
<1> QED
  BY <1>1, <1>2, PTL DEF Spec

\* Under a leader that stays, no two replicas execute different batches in an
\* instance, though late promises set committed instances back
\* (handlePrepareReply()) and acceptances of one replica may count twice
\* (handleAcceptReply()).
THEOREM AgreementHolds == Spec => [](Steady => Agreement)
<1>1. FullInv => (Steady => Agreement)
  <2> SUFFICES ASSUME FullInv, Steady PROVE Agreement
    OBVIOUS
  <2>1. ExecutedProposed
    BY DEF FullInv, SteadyInv
  <2> SUFFICES ASSUME NEW r \in Replicas, NEW s \in Replicas,
                      NEW i \in 1 .. Len(executed[r]), i <= Len(executed[s])
               PROVE  executed[r][i] = executed[s][i]
    BY DEF Agreement
  <2>2. executed \in [Replicas -> Seq(Commands \cup {Noop})]
    BY DEF FullInv, IInv, TypeOK
  <2>3. i \in 1 .. Len(executed[s])
    BY <2>2
  <2> QED
    BY <2>1, <2>3 DEF ExecutedProposed
<1> QED
  BY <1>1, SteadyInvariance, PTL

\* Under a leader that stays, each client is answered for its own batch.
THEOREM ClientsGetTheirOwn == Spec => [](Steady => RepliesMatch)
<1>1. FullInv => (Steady => RepliesMatch)
  BY DEF FullInv, SteadyInv
<1> QED
  BY <1>1, SteadyInvariance, PTL

\* Under a leader that stays, and in a group of at most four, a batch that is
\* executed has been accepted by a write quorum: in a larger group the leader
\* takes two answers of one peer for those of two.
THEOREM QuorumBackedHolds == Spec => [](Steady /\ F <= 1 => QuorumBacked)
<1>1. FullInv => (Steady /\ F <= 1 => QuorumBacked)
  <2> SUFFICES ASSUME FullInv, Steady, F <= 1 PROVE QuorumBacked
    OBVIOUS
  <2> SUFFICES ASSUME NEW r \in Replicas, NEW i \in 1 .. Len(executed[r])
               PROVE  Cardinality(Accepted(r, i)) >= WriteQuorumSize
    BY DEF QuorumBacked
  <2>1. /\ i - 1 \in Instances /\ Known(InitialLeader, i - 1)
        /\ executed[r][i] = Proposed(i - 1) /\ executed[r][i] # None
        /\ SomePeerAccepted(i - 1)
    BY DEF FullInv, SteadyInv, ExecutedProposed
  <2>2. PICK q \in Peers : HasAccepted(q, i - 1)
    BY <2>1 DEF SomePeerAccepted
  <2>3. q \in Replicas /\ InitialLeader \in Replicas /\ q # InitialLeader
    BY PeerLinks
  <2>4. InitialLeader \in Accepted(r, i)
    <3>1. InstanceSteady(i - 1)
      BY <2>1 DEF FullInv, SteadyInv
    <3> QED
      BY <2>1, <2>3, <3>1 DEF Accepted, InstanceSteady, LeaderProposes, Proposed
  <2>5. q \in Accepted(r, i)
    BY <2>1, <2>2, <2>3 DEF Accepted, HasAccepted
  <2>6. IsFiniteSet(Accepted(r, i))
    <3>1. IsFiniteSet(Replicas)
      BY FS_Interval DEF Replicas
    <3> QED
      BY <3>1, FS_Subset DEF Accepted
  <2>7. Cardinality(Accepted(r, i)) >= 2
    <3>1. {InitialLeader, q} \subseteq Accepted(r, i)
      BY <2>4, <2>5
    <3>2. Cardinality({InitialLeader, q}) <= Cardinality(Accepted(r, i))
      BY <2>6, <3>1, FS_Subset
    <3>3. Cardinality({InitialLeader, q}) = 2
      <4>1. IsFiniteSet({q}) /\ Cardinality({q}) = 1
        BY FS_Singleton
      <4>2. Cardinality({q} \cup {InitialLeader}) = Cardinality({q}) + 1
        BY <2>3, <4>1, FS_AddElement
      <4>3. {q} \cup {InitialLeader} = {InitialLeader, q}
        OBVIOUS
      <4> QED
        BY <4>1, <4>2, <4>3, SMT
    <3>4. Cardinality(Accepted(r, i)) \in Nat
      BY <2>6, FS_CardinalityType
    <3> QED
      BY <3>2, <3>3, <3>4
  <2> QED
    BY <2>6, <2>7, FS_CardinalityType DEF WriteQuorumSize, F
<1> QED
  BY <1>1, SteadyInvariance, PTL
=============================================================================
