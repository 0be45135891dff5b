---------------------------- MODULE EPaxosProofs ----------------------------
(***************************************************************************)
(* Proofs about EPaxos, for every group, thrifty or not, whatever the      *)
(* delays, the order of the messages and the crashes, as long as no        *)
(* replica recovers the instances of another.  Two invariants, the second  *)
(* on top of the first:                                                    *)
(*                                                                         *)
(*   Sound      a replica's copy of an instance never claims more than its *)
(*              owner has decided, so that replicas agree on what they     *)
(*              have committed, never take it back and execute nothing     *)
(*              twice;                                                     *)
(*   Opinions   a replica that has given its opinion on two instances      *)
(*              whose commands conflict has said that one of them depends  *)
(*              on the other.  Where two fast quorums have a replica in    *)
(*              common, as they do in all groups but those of two, four    *)
(*              and six replicas, every two conflicting commands that are  *)
(*              committed are ordered.                                     *)
(***************************************************************************)
EXTENDS EPaxos, Induction, FiniteSetTheorems, SequenceTheorems


(***************************************************************************)
(* Numbers, sets and maps.                                                 *)
(***************************************************************************)
\* A finite set of integers has a greatest one.
LEMMA MaxOf ==
  ASSUME NEW S, S \subseteq Int, S # {}, IsFiniteSet(S)
  PROVE  Max(S) \in S /\ \A y \in S : y <= Max(S)
<1> DEFINE T == {k \in Nat : \A U \in SUBSET Int :
                   IsFiniteSet(U) /\ Cardinality(U) = k + 1 => \E x \in U : \A y \in U : x >= y}
<1>1. 0 \in T
  <2> SUFFICES ASSUME NEW U \in SUBSET Int, IsFiniteSet(U), Cardinality(U) = 1
               PROVE  \E x \in U : \A y \in U : x >= y
    OBVIOUS
  <2>1. PICK x : U = {x}
    BY FS_Singleton
  <2> QED
    BY <2>1
<1>2. ASSUME NEW k \in Nat, k \in T PROVE k + 1 \in T
  <2> SUFFICES ASSUME NEW U \in SUBSET Int, IsFiniteSet(U), Cardinality(U) = k + 2
               PROVE  \E x \in U : \A y \in U : x >= y
    OBVIOUS
  <2>1. U # {}
    BY FS_EmptySet
  <2>2. PICK u : u \in U
    BY <2>1
  <2>3. IsFiniteSet(U \ {u}) /\ Cardinality(U \ {u}) = k + 1
    BY <2>2, FS_RemoveElement
  <2>4. PICK x \in U \ {u} : \A y \in U \ {u} : x >= y
    BY <1>2, <2>3
  <2>5. CASE x >= u
    BY <2>4, <2>5
  <2>6. CASE ~ (x >= u)
    <3>1. \A y \in U : u >= y
      BY <2>2, <2>4, <2>6
    <3> QED
      BY <2>2, <3>1
  <2> QED
    BY <2>5, <2>6
<1> HIDE DEF T
<1>3. Nat \subseteq T
  BY <1>1, <1>2, Inductive
<1>4. Cardinality(S) \in Nat /\ Cardinality(S) # 0
  BY FS_CardinalityType, FS_EmptySet
<1>5. Cardinality(S) - 1 \in T
  BY <1>3, <1>4
<1>6. \E x \in S : \A y \in S : x >= y
  <2>1. (Cardinality(S) - 1) + 1 = Cardinality(S)
    BY <1>4
  <2> QED
    BY <1>5, <2>1 DEF T
<1>7. Max(S) \in S /\ \A y \in S : Max(S) >= y
  BY <1>6 DEF Max
<1> QED
  BY <1>7

\* The greater and the lesser of two.
LEMMA MaxOfTwo ==
  ASSUME NEW a \in Int, NEW b \in Int
  PROVE  /\ Max({a, b}) \in {a, b} /\ a <= Max({a, b}) /\ b <= Max({a, b})
<1>1. \E x \in {a, b} : \A y \in {a, b} : x >= y
  OBVIOUS
<1>2. Max({a, b}) \in {a, b} /\ \A y \in {a, b} : Max({a, b}) >= y
  BY <1>1 DEF Max
<1> QED
  BY <1>2

\* The lesser of two numbers.
LEMMA MinOfTwo ==
  ASSUME NEW a \in Int, NEW b \in Int
  PROVE  /\ Min({a, b}) \in {a, b} /\ Min({a, b}) <= a /\ Min({a, b}) <= b
<1>1. \E x \in {a, b} : \A y \in {a, b} : x <= y
  OBVIOUS
<1>2. Min({a, b}) \in {a, b} /\ \A y \in {a, b} : Min({a, b}) <= y
  BY <1>1 DEF Min
<1> QED
  BY <1>2

\* The numbers below another one.
LEMMA BelowIs ==
  ASSUME NEW k \in Nat
  PROVE  IsFiniteSet(0 .. (k - 1)) /\ Cardinality(0 .. (k - 1)) = k
BY FS_Interval

\* The image of a finite set.
LEMMA ImageIsFinite ==
  ASSUME NEW f, NEW E, IsFiniteSet(E)
  PROVE  IsFiniteSet({f[e] : e \in E})
<1> DEFINE g == [e \in E |-> f[e]]
           S == {f[e] : e \in E}
<1>1. g \in [E -> S] /\ S = {g[e] : e \in E}
  OBVIOUS
<1>2. g \in Surjection(E, S)
  BY <1>1 DEF Surjection
<1> QED
  BY <1>2, FS_Surjection

\* f maps some of A into B.
IsMap(f, A, B) == f \in [DOMAIN f -> B] /\ DOMAIN f \subseteq A

\* A function that is given a value at one more argument.
LEMMA WithIs ==
  ASSUME NEW f, NEW k, NEW v
  PROVE  /\ DOMAIN With(f, k, v) = DOMAIN f \cup {k}
         /\ With(f, k, v)[k] = v
         /\ \A e \in DOMAIN f : e # k => With(f, k, v)[e] = f[e]
BY DEF With

\* A map that is given one more entry is a map of the same kind.
LEMMA WithMaps ==
  ASSUME NEW f, NEW A, NEW B, IsMap(f, A, B), NEW k \in A, NEW v \in B
  PROVE  IsMap(With(f, k, v), A, B)
BY DEF With, IsMap

\* The empty function is a map of every kind.
LEMMA EmptyMaps ==
  ASSUME NEW A, NEW B
  PROVE  IsMap(<<>>, A, B) /\ DOMAIN <<>> = {}
<1>1. DOMAIN <<>> = {} /\ <<>> \in [{} -> B]
  OBVIOUS
<1> QED
  BY <1>1 DEF IsMap

(***************************************************************************)
(* The type of a replica's state.                                          *)
(***************************************************************************)
Fields == {"todo", "inst", "lb", "crtInstance", "last", "lastWrite", "maxSeqPerKey", "maxRecvBallot",
           "created", "executed", "recoveries", "asleep", "torn"}

\* The state t is n but for some fields.
Rest(n, t, fs) == DOMAIN t = Fields /\ \A f \in Fields \ fs : t[f] = n[f]

Ids == Replicas \X Nat
Dependencies == [Replicas -> {-1} \cup Nat]
Instances == [cmds : Commands \cup {Nil}, bal : {-1} \cup Nat, vbal : {-1} \cup Nat, status : NONE .. EXECUTED,
              seq : Int, deps : Dependencies]
Leaders == [clientProposals : Commands, ballot : {-1} \cup Nat, allEqual : BOOLEAN, preAcceptOKs : Nat,
            acceptOKs : Nat, prepareReplies : {<<>>}, preparing : {TRUE}, lastTriedBallot : Nat,
            cmds : Commands, status : PREACCEPTED .. COMMITTED, seq : Int, deps : Dependencies,
            leaderResponded : {FALSE}]

FieldsTyped(n) ==
  /\ DOMAIN n = Fields
  /\ n.todo \in Seq(Commands)
  /\ IsMap(n.inst, Ids, Instances)
  /\ IsMap(n.lb, Ids, Leaders)
  /\ n.crtInstance \in Dependencies
  /\ n.last \in [Keys -> Dependencies]
  /\ n.lastWrite \in [Keys -> Dependencies]
  /\ n.maxSeqPerKey \in [Keys -> Int]
  /\ n.maxRecvBallot \in Int
  /\ n.executed \in Seq(Ids)
  /\ n.recoveries = 0
  /\ n.asleep \in BOOLEAN
  /\ n.torn \in BOOLEAN

\* Every instance has its time, which no other of its row has.
Timed(n) ==
  /\ IsMap(n.created, Ids, Nat)
  /\ DOMAIN n.created = DOMAIN n.inst /\ IsFiniteSet(DOMAIN n.inst)
  /\ \A a, b \in DOMAIN n.created : Row(a) = Row(b) /\ n.created[a] = n.created[b] => a = b

\* What has been executed is in the list of that, once.
Listed(n) ==
  /\ IsInjective(n.executed)
  /\ ToSet(n.executed) = {id \in DOMAIN n.inst : n.inst[id].status = EXECUTED}

\* What is known of an instance, and what refers to it.
Linked(n) ==
  /\ \A id \in DOMAIN n.inst :
       /\ Number(id) <= n.crtInstance[Row(id)]
       /\ n.inst[id].status >= PREACCEPTED => n.inst[id].cmds # Nil
  /\ \A k \in Keys, q \in Replicas :
       /\ n.last[k][q] = -1 \/ <<q, n.last[k][q]>> \in DOMAIN n.inst
       /\ n.lastWrite[k][q] = -1 \/ <<q, n.lastWrite[k][q]>> \in DOMAIN n.inst
  /\ DOMAIN n.lb \subseteq DOMAIN n.inst

NodeTyped(n) == FieldsTyped(n) /\ Timed(n) /\ Listed(n) /\ Linked(n)

InGroup == group \in Groups

\* The replicas of a group are finitely many, from 0 up to its size.
LEMMA GroupIs ==
  ASSUME InGroup
  PROVE  /\ group.size \in Nat \ {0} /\ Replicas = 0 .. group.size - 1
         /\ Replicas \subseteq Nat /\ IsFiniteSet(Replicas) /\ Cardinality(Replicas) = group.size
<1>1. group.size \in Nat \ {0}
  BY GroupsAssumption DEF InGroup
<1>2. IsFiniteSet(0 .. (group.size - 1)) /\ Cardinality(0 .. (group.size - 1)) = group.size
  BY <1>1, BelowIs
<1> QED
  BY <1>1, <1>2 DEF Replicas

\* An instance's name is its row and its number.
LEMMA IdIs ==
  ASSUME NEW id \in Ids
  PROVE  Row(id) \in Replicas /\ Number(id) \in Nat /\ id = <<Row(id), Number(id)>>
BY DEF Ids, Row, Number

(***************************************************************************)
(* What the functions of the handlers do to a replica's state.             *)
(***************************************************************************)
\* A record's time comes after all others of its row.
LEMMA NextTimeIs ==
  ASSUME InGroup, NEW n, Timed(n), NEW row
  PROVE  /\ NextTime(n, row) \in Nat
         /\ \A e \in DOMAIN n.created : Row(e) = row => n.created[e] < NextTime(n, row)
<1> DEFINE E == {e \in DOMAIN n.created : Row(e) = row}
           S == {n.created[e] : e \in E}
           Z == {0} \cup S
<1>1. NextTime(n, row) = 1 + Max(Z)
  BY DEF NextTime
<1>2. IsFiniteSet(E) /\ \A e \in E : n.created[e] \in Nat
  BY FS_Subset DEF Timed, IsMap
<1> HIDE DEF E
<1>3. IsFiniteSet(S)
  BY <1>2, ImageIsFinite
<1>4. IsFiniteSet(Z)
  BY <1>3, FS_Singleton, FS_Union
<1>5. Z \subseteq Nat /\ Z # {} /\ \A e \in E : n.created[e] \in Z
  BY <1>2
<1> HIDE DEF Z
<1>6. Max(Z) \in Z /\ \A y \in Z : y <= Max(Z)
  <2>1. Z \subseteq Int
    BY <1>5
  <2> QED
    BY <1>4, <1>5, <2>1, MaxOf
<1> HIDE DEF S
<1>7. Max(Z) \in Nat
  BY <1>5, <1>6
<1>8. NextTime(n, row) \in Nat /\ \A e \in E : n.created[e] < NextTime(n, row)
  BY <1>1, <1>2, <1>5, <1>6, <1>7
<1> QED
  BY <1>8 DEF E

\* A record that is put where none was gets a time of its own.
LEMMA CreatedIs ==
  ASSUME InGroup, NEW n, FieldsTyped(n), Timed(n), NEW id \in Ids, NEW i, id \notin DOMAIN n.inst
  PROVE  LET t == [Created(n, id) EXCEPT !.inst = With(@, id, i)]
         IN  Rest(n, t, {"inst", "created"}) /\ t.inst = With(n.inst, id, i) /\ Timed(t)
<1> DEFINE t == [Created(n, id) EXCEPT !.inst = With(@, id, i)]
           c == With(n.created, id, NextTime(n, Row(id)))
<1>1. Rest(n, t, {"inst", "created"}) /\ t.inst = With(n.inst, id, i) /\ t.created = c
  BY DEF FieldsTyped, Fields, Rest, Created
<1>2. NextTime(n, Row(id)) \in Nat
  BY NextTimeIs
<1>3. IsMap(c, Ids, Nat)
  BY <1>2, WithMaps DEF Timed
<1> HIDE DEF t
<1>4. DOMAIN c = DOMAIN n.inst \cup {id} /\ DOMAIN t.inst = DOMAIN n.inst \cup {id}
  BY <1>1 DEF With, Timed
<1>5. IsFiniteSet(DOMAIN n.inst \cup {id})
  BY FS_Singleton, FS_Union DEF Timed
<1>6. c[id] = NextTime(n, Row(id)) /\ \A e \in DOMAIN n.created : e # id => c[e] = n.created[e]
  BY DEF With
<1>7. \A e \in DOMAIN n.created : e # id /\ (Row(e) = Row(id) => c[e] < c[id]) /\ c[e] \in Nat /\ c[id] \in Nat
  BY <1>2, <1>6, NextTimeIs DEF Timed, IsMap
<1>8. \A a, b \in DOMAIN c : Row(a) = Row(b) /\ c[a] = c[b] => a = b
  <2> SUFFICES ASSUME NEW a \in DOMAIN c, NEW b \in DOMAIN c, Row(a) = Row(b), c[a] = c[b] PROVE a = b
    OBVIOUS
  <2>1. DOMAIN c = DOMAIN n.created \cup {id}
    BY <1>4 DEF Timed
  <2>2. CASE a = id \/ b = id
    BY <1>7, <2>1, <2>2
  <2>3. CASE a # id /\ b # id
    BY <1>6, <2>1, <2>3 DEF Timed
  <2> QED
    BY <2>2, <2>3
<1> HIDE DEF c
<1> QED
  BY <1>1, <1>3, <1>4, <1>5, <1>8 DEF Timed, t

\* Of an instance, a record is written.
LEMMA PutIs ==
  ASSUME InGroup, NEW n, NodeTyped(n), NEW id \in Ids, NEW i \in Instances,
         Number(id) <= n.crtInstance[Row(id)], i.status >= PREACCEPTED => i.cmds # Nil,
         IF id \in DOMAIN n.inst THEN i.status = EXECUTED <=> n.inst[id].status = EXECUTED
         ELSE i.status # EXECUTED
  PROVE  LET t == Put(n, id, i)
         IN  NodeTyped(t) /\ Rest(n, t, {"inst", "created"}) /\ t.inst = With(n.inst, id, i)
<1> DEFINE t == Put(n, id, i)
           f == With(n.inst, id, i)
<1>1. Rest(n, t, {"inst", "created"}) /\ t.inst = f /\ Timed(t)
  <2>1. CASE id \notin DOMAIN n.inst
    BY <2>1, CreatedIs DEF Put, NodeTyped
  <2>2. CASE id \in DOMAIN n.inst
    <3>1. t = [n EXCEPT !.inst = f]
      BY <2>2 DEF Put, NodeTyped, FieldsTyped, Fields
    <3>2. Rest(n, t, {"inst"}) /\ t.inst = f
      BY <3>1 DEF NodeTyped, FieldsTyped, Fields, Rest
    <3>3. DOMAIN f = DOMAIN n.inst /\ t.created = n.created
      BY <2>2, <3>2 DEF Rest, Fields, With
    <3> HIDE DEF t, f
    <3>4. Timed(t)
      BY <3>2, <3>3 DEF NodeTyped, Timed
    <3> QED
      BY <3>2, <3>4 DEF Rest
  <2> QED
    BY <2>1, <2>2
<1>2. IsMap(f, Ids, Instances)
  BY WithMaps DEF NodeTyped, FieldsTyped
<1> HIDE DEF t
<1>3. DOMAIN f = DOMAIN n.inst \cup {id} /\ f[id] = i /\ \A e \in DOMAIN n.inst : e # id => f[e] = n.inst[e]
  BY DEF With
<1> HIDE DEF f
<1>4. FieldsTyped(t)
  BY <1>1, <1>2 DEF NodeTyped, FieldsTyped, Rest, Fields
<1>5. Listed(t)
  <2>1. t.executed = n.executed
    BY <1>1 DEF Rest, Fields
  <2>2. {e \in DOMAIN f : f[e].status = EXECUTED} = {e \in DOMAIN n.inst : n.inst[e].status = EXECUTED}
    BY <1>3
  <2> QED
    BY <1>1, <2>1, <2>2 DEF NodeTyped, Listed
<1>6. Linked(t)
  BY <1>1, <1>3 DEF NodeTyped, Linked, Rest, Fields
<1> QED
  BY <1>1, <1>4, <1>5, <1>6 DEF NodeTyped, t, f

\* The leader's bookkeeping is kept beside an instance that is there.
LEMMA PutLbIs ==
  ASSUME InGroup, NEW n, NodeTyped(n), NEW id \in DOMAIN n.inst, NEW lb \in Leaders
  PROVE  LET t == PutLb(n, id, lb)
         IN  NodeTyped(t) /\ Rest(n, t, {"lb"}) /\ t.lb = With(n.lb, id, lb)
<1> DEFINE t == PutLb(n, id, lb)
           f == With(n.lb, id, lb)
<1>1. Rest(n, t, {"lb"}) /\ t.lb = f
  BY DEF PutLb, NodeTyped, FieldsTyped, Rest, Fields
<1>2. IsMap(f, Ids, Leaders)
  <2>1. id \in Ids
    BY DEF NodeTyped, FieldsTyped, IsMap
  <2> QED
    BY <2>1, WithMaps DEF NodeTyped, FieldsTyped
<1>3. DOMAIN f = DOMAIN n.lb \cup {id}
  BY WithIs
<1> HIDE DEF t, f
<1>4. FieldsTyped(t) /\ Timed(t) /\ Listed(t) /\ Linked(t)
  BY <1>1, <1>2, <1>3 DEF NodeTyped, FieldsTyped, Timed, Listed, Linked, Rest, Fields
<1> QED
  BY <1>1, <1>4 DEF NodeTyped, t, f

\* A ballot that is received changes nothing but the highest one seen.
LEMMA SeenIs ==
  ASSUME InGroup, NEW n, NodeTyped(n), NEW b \in Int
  PROVE  NodeTyped(Seen(n, b)) /\ Rest(n, Seen(n, b), {"maxRecvBallot"})
<1> DEFINE t == Seen(n, b)
<1>1. Max({n.maxRecvBallot, b}) \in Int
  BY MaxOfTwo DEF NodeTyped, FieldsTyped
<1>2. Rest(n, t, {"maxRecvBallot"}) /\ t.maxRecvBallot = Max({n.maxRecvBallot, b})
  BY DEF Seen, NodeTyped, FieldsTyped, Rest, Fields
<1> HIDE DEF t
<1>3. NodeTyped(t)
  BY <1>1, <1>2 DEF NodeTyped, FieldsTyped, Timed, Listed, Linked, Rest, Fields
<1> QED
  BY <1>2, <1>3 DEF t

\* crtInstance grows at one row at most, up to the instance received.
LEMMA ReachedIs ==
  ASSUME InGroup, NEW n, NodeTyped(n), NEW id \in Ids
  PROVE  LET t == Reached(n, id)
         IN  /\ NodeTyped(t) /\ Rest(n, t, {"crtInstance"})
             /\ Number(id) <= t.crtInstance[Row(id)]
             /\ \A q \in Replicas : t.crtInstance[q] = n.crtInstance[q] \/ (q = Row(id) /\ t.crtInstance[q] = Number(id))
             /\ \A q \in Replicas : n.crtInstance[q] <= t.crtInstance[q]
<1> DEFINE t == Reached(n, id)
           m == Max({n.crtInstance[Row(id)], Number(id)})
           c == [n.crtInstance EXCEPT ![Row(id)] = m]
<1>1. Row(id) \in Replicas /\ Number(id) \in Nat
  BY IdIs
<1>2. n.crtInstance \in Dependencies
  BY DEF NodeTyped, FieldsTyped
<1>3. m \in {n.crtInstance[Row(id)], Number(id)} /\ n.crtInstance[Row(id)] <= m /\ Number(id) <= m
  <2>1. n.crtInstance[Row(id)] \in Int /\ Number(id) \in Int
    BY <1>1, <1>2 DEF Dependencies
  <2> QED
    BY <2>1, MaxOfTwo
<1>4. Rest(n, t, {"crtInstance"}) /\ t.crtInstance = c
  BY DEF Reached, NodeTyped, FieldsTyped, Rest, Fields
<1> HIDE DEF t, m
<1>5. c \in Dependencies /\ c[Row(id)] = m /\ \A q \in Replicas : q # Row(id) => c[q] = n.crtInstance[q]
  BY <1>1, <1>2, <1>3 DEF Dependencies
<1>6. \A q \in Replicas : n.crtInstance[q] \in Int /\ n.crtInstance[q] <= c[q]
  BY <1>2, <1>3, <1>5 DEF Dependencies
<1> HIDE DEF c
<1>7. Linked(t)
  <2>1. ASSUME NEW e \in DOMAIN n.inst PROVE Number(e) <= c[Row(e)]
    <3>1. e \in Ids /\ Number(e) <= n.crtInstance[Row(e)]
      BY DEF NodeTyped, FieldsTyped, IsMap, Linked
    <3> QED
      BY <1>5, <1>6, <3>1, IdIs DEF Dependencies
  <2> QED
    BY <1>4, <2>1 DEF NodeTyped, Linked, Rest, Fields
<1>8. FieldsTyped(t) /\ Timed(t) /\ Listed(t)
  BY <1>4, <1>5 DEF NodeTyped, FieldsTyped, Timed, Listed, Rest, Fields
<1> QED
  BY <1>3, <1>4, <1>5, <1>6, <1>7, <1>8 DEF NodeTyped, t

\* The maps of conflicts of t are at least those of n.
More(n, t) ==
  \A k \in Keys, q \in Replicas : n.last[k][q] <= t.last[k][q] /\ n.lastWrite[k][q] <= t.lastWrite[k][q]

\* The maps of n have the command of an instance.
Knows(n, id, cmd) ==
  /\ n.last["key"][Row(id)] >= Number(id)
  /\ ~IsRead(cmd) => n.lastWrite["key"][Row(id)] >= Number(id)

\* A client's command is none of the special ones.
LEMMA CommandIs ==
  ASSUME NEW cmd \in Commands
  PROVE  cmd # Nil /\ cmd # Noop /\ cmd # Empty /\ Key(cmd) = "key" /\ "key" \in Keys
BY CommandsAssumption DEF Key, Keys

\* updateConflicts() lets a replica know an instance, and forget none.
LEMMA UpdateConflictsIs ==
  ASSUME InGroup, NEW n, NodeTyped(n), NEW id \in DOMAIN n.inst, NEW cmd \in Commands, NEW seq \in Int
  PROVE  LET t == UpdateConflicts(n, cmd, id, seq)
         IN  /\ NodeTyped(t) /\ Rest(n, t, {"last", "lastWrite", "maxSeqPerKey"})
             /\ More(n, t) /\ Knows(t, id, cmd)
<1> DEFINE t == UpdateConflicts(n, cmd, id, seq)
           l == Max({n.last["key"][Row(id)], Number(id)})
           w == IF IsRead(cmd) THEN n.lastWrite["key"][Row(id)] ELSE Max({n.lastWrite["key"][Row(id)], Number(id)})
           m == Max({n.maxSeqPerKey["key"], seq})
           last == [n.last EXCEPT !["key"][Row(id)] = l]
           lastWrite == [n.lastWrite EXCEPT !["key"][Row(id)] = w]
           maxSeq == [n.maxSeqPerKey EXCEPT !["key"] = m]
<1>1. cmd # Empty /\ Key(cmd) = "key" /\ "key" \in Keys
  BY CommandIs
<1>2. id \in Ids /\ id = <<Row(id), Number(id)>> /\ Row(id) \in Replicas /\ Number(id) \in Nat
  <2>1. id \in Ids
    BY DEF NodeTyped, FieldsTyped, IsMap
  <2> QED
    BY <2>1, IdIs
<1>3. /\ n.last \in [Keys -> Dependencies] /\ n.lastWrite \in [Keys -> Dependencies]
      /\ n.maxSeqPerKey \in [Keys -> Int] /\ DOMAIN n = Fields
  BY DEF NodeTyped, FieldsTyped
<1>4. /\ t.last = last /\ t.lastWrite = lastWrite /\ t.maxSeqPerKey = maxSeq
      /\ Rest(n, t, {"last", "lastWrite", "maxSeqPerKey"})
  BY <1>1, <1>3 DEF UpdateConflicts, Rest, Fields
<1> HIDE DEF t
<1>5. /\ n.last["key"] \in Dependencies /\ n.lastWrite["key"] \in Dependencies
      /\ n.last["key"][Row(id)] \in Int /\ n.lastWrite["key"][Row(id)] \in Int /\ n.maxSeqPerKey["key"] \in Int
  BY <1>1, <1>2, <1>3 DEF Dependencies
<1>6. l \in {n.last["key"][Row(id)], Number(id)} /\ n.last["key"][Row(id)] <= l /\ Number(id) <= l
  BY <1>2, <1>5, MaxOfTwo
<1>7. /\ w \in {n.lastWrite["key"][Row(id)], Number(id)} /\ n.lastWrite["key"][Row(id)] <= w
      /\ ~IsRead(cmd) => Number(id) <= w
  <2>1. CASE IsRead(cmd)
    BY <1>5, <2>1
  <2>2. CASE ~IsRead(cmd)
    <3> DEFINE y == n.lastWrite["key"][Row(id)]
               z == Number(id)
    <3>1. w = Max({y, z})
      BY <2>2
    <3>2. y \in Int /\ z \in Int
      BY <1>2, <1>5
    <3> HIDE DEF y, z
    <3>3. Max({y, z}) \in {y, z} /\ y <= Max({y, z}) /\ z <= Max({y, z})
      BY <3>2, MaxOfTwo
    <3> HIDE DEF w
    <3>4. w \in {y, z} /\ y <= w /\ z <= w
      BY <3>1, <3>3
    <3> QED
      BY <3>4 DEF y, z
  <2> QED
    BY <2>1, <2>2
<1>8. m \in Int
  BY <1>5, MaxOfTwo
<1> HIDE DEF l, w, m
<1>9. /\ last \in [Keys -> Dependencies] /\ last["key"][Row(id)] = l
      /\ \A k \in Keys, q \in Replicas : k # "key" \/ q # Row(id) => last[k][q] = n.last[k][q]
  BY <1>1, <1>2, <1>3, <1>5, <1>6 DEF Dependencies
<1>10. /\ lastWrite \in [Keys -> Dependencies] /\ lastWrite["key"][Row(id)] = w
       /\ \A k \in Keys, q \in Replicas : k # "key" \/ q # Row(id) => lastWrite[k][q] = n.lastWrite[k][q]
  BY <1>1, <1>2, <1>3, <1>5, <1>7 DEF Dependencies
<1>11. maxSeq \in [Keys -> Int]
  BY <1>3, <1>8
<1> HIDE DEF last, lastWrite, maxSeq
<1>12. FieldsTyped(t)
  BY <1>4, <1>9, <1>10, <1>11 DEF NodeTyped, FieldsTyped, Rest, Fields
<1>13. Linked(t)
  <2>1. ASSUME NEW k \in Keys, NEW q \in Replicas
        PROVE  /\ last[k][q] = -1 \/ <<q, last[k][q]>> \in DOMAIN n.inst
               /\ lastWrite[k][q] = -1 \/ <<q, lastWrite[k][q]>> \in DOMAIN n.inst
    <3>1. /\ n.last[k][q] = -1 \/ <<q, n.last[k][q]>> \in DOMAIN n.inst
          /\ n.lastWrite[k][q] = -1 \/ <<q, n.lastWrite[k][q]>> \in DOMAIN n.inst
      BY DEF NodeTyped, Linked
    <3> QED
      BY <1>2, <1>6, <1>7, <1>9, <1>10, <3>1
  <2> QED
    BY <1>4, <2>1 DEF NodeTyped, Linked, Rest, Fields
<1>14. Timed(t) /\ Listed(t)
  BY <1>4 DEF NodeTyped, Timed, Listed, Rest, Fields
<1>15. More(n, t)
  <2>1. ASSUME NEW k \in Keys, NEW q \in Replicas
        PROVE  n.last[k][q] <= last[k][q] /\ n.lastWrite[k][q] <= lastWrite[k][q]
    <3>1. n.last[k][q] \in Int /\ n.lastWrite[k][q] \in Int
      BY <1>3 DEF Dependencies
    <3> QED
      BY <1>6, <1>7, <1>9, <1>10, <3>1
  <2> QED
    BY <1>4, <2>1 DEF More
<1>16. Knows(t, id, cmd)
  BY <1>2, <1>4, <1>5, <1>6, <1>7, <1>9, <1>10 DEF Knows
<1> QED
  BY <1>4, <1>12, <1>13, <1>14, <1>15, <1>16 DEF NodeTyped, t

\* The conflicts of a command are instances of the replica's own log.
LEMMA ConflictsIs ==
  ASSUME InGroup, NEW n, NodeTyped(n), NEW cmd \in Commands
  PROVE  /\ Conflicts(n, cmd) \in Dependencies
         /\ \A q \in Replicas : Conflicts(n, cmd)[q] = -1 \/ <<q, Conflicts(n, cmd)[q]>> \in DOMAIN n.inst
         /\ MaxSeq(n, cmd) \in Int
<1>1. cmd # Empty /\ Key(cmd) = "key" /\ "key" \in Keys
  BY CommandIs
<1> QED
  BY <1>1 DEF NodeTyped, FieldsTyped, Linked, Conflicts, MaxSeq

\* The sequence number updateAttributes() computes is a number.
LEMMA RaisedSeqIs ==
  ASSUME InGroup, NEW n, NodeTyped(n), NEW r \in Replicas, NEW cmd \in Commands, NEW seq \in Int,
         NEW deps \in Dependencies, NEW id \in Ids
  PROVE  RaisedSeq(n, r, cmd, seq, deps, id) \in Int
<1> DEFINE E == Raised(n, r, cmd, deps, id)
           f == [q \in E |-> n.inst[<<q, Conflicts(n, cmd)[q]>>].seq + 1]
           S == {f[q] : q \in E}
           Z == {seq} \cup S
<1>1. \A q \in E : f[q] \in Int
  <2> SUFFICES ASSUME NEW q \in E PROVE n.inst[<<q, Conflicts(n, cmd)[q]>>].seq \in Int
    OBVIOUS
  <2>1. q \in Replicas /\ Conflicts(n, cmd)[q] > deps[q] /\ deps[q] >= -1
    BY DEF Raised, Dependencies
  <2>2. Conflicts(n, cmd)[q] \in Int
    BY <2>1, ConflictsIs DEF Dependencies
  <2>3. deps[q] \in Int
    BY <2>1 DEF Dependencies
  <2>4. <<q, Conflicts(n, cmd)[q]>> \in DOMAIN n.inst
    BY <2>1, <2>2, <2>3, ConflictsIs
  <2> QED
    BY <2>4 DEF NodeTyped, FieldsTyped, IsMap, Instances
<1>2. RaisedSeq(n, r, cmd, seq, deps, id) = Max(Z)
  <2>1. S = {n.inst[<<q, Conflicts(n, cmd)[q]>>].seq + 1 : q \in E}
    OBVIOUS
  <2> QED
    BY <2>1 DEF RaisedSeq
<1>3. IsFiniteSet(E)
  BY GroupIs, FS_Subset DEF Raised
<1> HIDE DEF f, E
<1>4. IsFiniteSet(S)
  BY <1>3, ImageIsFinite
<1>5. IsFiniteSet(Z) /\ Z \subseteq Int /\ Z # {}
  BY <1>1, <1>4, FS_Singleton, FS_Union
<1> HIDE DEF Z
<1> QED
  BY <1>2, <1>5, MaxOf

\* updateAttributes() only raises dependencies, to instances that the replica
\* has, and at least to its own conflicts where it looks at a row.
LEMMA UpdateAttributesIs ==
  ASSUME InGroup, NEW n, NodeTyped(n), NEW r \in Replicas, NEW cmd \in Commands, NEW seq \in Int,
         NEW deps \in Dependencies, NEW id \in Ids
  PROVE  LET a == UpdateAttributes(n, r, cmd, seq, deps, id)
         IN  /\ a.seq \in Int /\ a.deps \in Dependencies /\ a.changed \in BOOLEAN
             /\ \A q \in Replicas :
                  /\ deps[q] <= a.deps[q]
                  /\ a.deps[q] = deps[q] \/ <<q, a.deps[q]>> \in DOMAIN n.inst
                  /\ r = Row(id) \/ q # Row(id) => Conflicts(n, cmd)[q] <= a.deps[q]
<1> DEFINE E == Raised(n, r, cmd, deps, id)
           S == RaisedSeq(n, r, cmd, seq, deps, id)
           C == Conflicts(n, cmd)
           d == [q \in Replicas |-> IF q \in E THEN C[q] ELSE deps[q]]
           a == UpdateAttributes(n, r, cmd, seq, deps, id)
<1>1. a.seq = Max({S, MaxSeq(n, cmd) + 1}) /\ a.deps = d /\ a.changed \in BOOLEAN
  BY DEF UpdateAttributes
<1>2. a.seq \in Int
  <2>1. S \in Int /\ MaxSeq(n, cmd) + 1 \in Int
    BY RaisedSeqIs, ConflictsIs
  <2> HIDE DEF S, a
  <2> QED
    BY <1>1, <2>1, MaxOfTwo
<1>3. C \in Dependencies /\ \A q \in Replicas : C[q] = -1 \/ <<q, C[q]>> \in DOMAIN n.inst
  BY ConflictsIs
<1>4. \A q \in Replicas : C[q] \in Int /\ deps[q] \in Int /\ deps[q] >= -1
  BY <1>3 DEF Dependencies
<1>5. \A q \in Replicas : q \in E <=> (r = Row(id) \/ q # Row(id)) /\ C[q] > deps[q]
  BY DEF Raised
<1> HIDE DEF C, E, a
<1>6. d \in Dependencies
  BY <1>3 DEF Dependencies
<1>7. ASSUME NEW q \in Replicas
      PROVE  /\ deps[q] <= d[q]
             /\ d[q] = deps[q] \/ <<q, d[q]>> \in DOMAIN n.inst
             /\ r = Row(id) \/ q # Row(id) => C[q] <= d[q]
  BY <1>3, <1>4, <1>5
<1> HIDE DEF d
<1> QED
  BY <1>1, <1>2, <1>6, <1>7 DEF a, C

(***************************************************************************)
(* What the handlers do to a replica's state.                              *)
(***************************************************************************)
\* A conflict that the maps know of is among the dependencies.
LEMMA KnownConflicts ==
  ASSUME InGroup, NEW n, NodeTyped(n), NEW id \in Ids, NEW c \in Commands, NEW d \in Commands,
         Knows(n, id, d), Interfere(c, d)
  PROVE  Number(id) <= Conflicts(n, c)[Row(id)]
<1>1. c # Empty /\ Key(c) = "key" /\ "key" \in Keys
  BY CommandIs
<1>2. Row(id) \in Replicas /\ Number(id) \in Nat
  BY IdIs
<1>3. n.last["key"][Row(id)] \in Int /\ n.lastWrite["key"][Row(id)] \in Int
  BY <1>1, <1>2 DEF NodeTyped, FieldsTyped, Dependencies
<1> QED
  BY <1>1, <1>2, <1>3 DEF Knows, Interfere, Conflicts

\* The record and the bookkeeping that a proposal makes.
FirstInstance(r, id, cmd, attr) == NewInstance(cmd, r, PREACCEPTED, attr.seq, attr.deps)
FirstLb(r, cmd, attr) == NewLeaderBookkeeping(cmd, r, cmd, PREACCEPTED, attr.deps)

\* What handlePropose() writes for a proposal is an instance and a leader.
LEMMA FirstIs ==
  ASSUME InGroup, NEW r \in Replicas, NEW id \in Ids, NEW cmd \in Commands, NEW attr,
         attr.seq \in Int, attr.deps \in Dependencies
  PROVE  /\ FirstInstance(r, id, cmd, attr) \in Instances
         /\ FirstLb(r, cmd, attr) \in Leaders
BY GroupIs, CommandIs DEF FirstInstance, FirstLb, NewInstance, NewLeaderBookkeeping, Instances, Leaders,
   NONE, PREACCEPTED, COMMITTED, EXECUTED

\* A proposal takes the next instance of the replica's row.
LEMMA ProposedIs ==
  ASSUME InGroup, NEW n, NodeTyped(n), NEW r \in Replicas, n.todo # <<>>,
         NextId(n, r) \notin DOMAIN n.inst
  PROVE  LET t == Proposed(n, r)
             id == NextId(n, r)
             cmd == Head(n.todo)
         IN  /\ id \in Ids /\ cmd \in Commands /\ NodeTyped(t)
             /\ Rest(n, t, {"todo", "inst", "lb", "created", "crtInstance", "last", "lastWrite", "maxSeqPerKey"})
             /\ t.todo = Tail(n.todo)
             /\ t.crtInstance = [n.crtInstance EXCEPT ![r] = @ + 1]
             /\ More(n, t) /\ Knows(t, id, cmd)
             /\ \E attr : /\ t.inst = With(n.inst, id, FirstInstance(r, id, cmd, attr))
                          /\ t.lb = With(n.lb, id, FirstLb(r, cmd, attr))
                          /\ attr.seq \in Int /\ attr.deps \in Dependencies
                          /\ \A q \in Replicas :
                               /\ attr.deps[q] = -1 \/ <<q, attr.deps[q]>> \in DOMAIN n.inst
                               /\ Conflicts(n, cmd)[q] <= attr.deps[q]
<1> DEFINE id == NextId(n, r)
           cmd == Head(n.todo)
           u == [n EXCEPT !.todo = Tail(@), !.crtInstance[r] = @ + 1]
           a == UpdateAttributes(u, r, cmd, 0, NilDeps, id)
           i == FirstInstance(r, id, cmd, a)
           lb == FirstLb(r, cmd, a)
           v == [Created(u, id) EXCEPT !.inst = With(@, id, i)]
           w == PutLb(v, id, lb)
           t == UpdateConflicts(w, cmd, id, a.seq)
<1>1. t = Proposed(n, r)
  BY DEF Proposed, StartPhase1, InPhase1, FirstInstance, FirstLb
<1>2. cmd \in Commands /\ Tail(n.todo) \in Seq(Commands)
  BY HeadTailProperties DEF NodeTyped, FieldsTyped
<1>3. /\ n.crtInstance \in Dependencies /\ n.crtInstance[r] + 1 \in Nat
      /\ \A q \in Replicas : n.crtInstance[q] \in Int
  <2>1. n.crtInstance \in Dependencies
    BY DEF NodeTyped, FieldsTyped
  <2>2. n.crtInstance[r] \in {-1} \cup Nat
    BY <2>1 DEF Dependencies
  <2>3. n.crtInstance[r] + 1 \in Nat
    BY <2>2
  <2>4. \A q \in Replicas : n.crtInstance[q] \in {-1} \cup Nat
    BY <2>1 DEF Dependencies
  <2> QED
    BY <2>1, <2>3, <2>4
<1>4. id \in Ids /\ Row(id) = r /\ Number(id) = n.crtInstance[r] + 1
  BY <1>3 DEF NextId, Ids, Row, Number
<1>5. NilDeps \in Dependencies
  BY DEF NilDeps, Dependencies
<1> DEFINE c == [n.crtInstance EXCEPT ![r] = @ + 1]
<1>6. c \in Dependencies /\ c[r] = n.crtInstance[r] + 1 /\ \A q \in Replicas : q # r => c[q] = n.crtInstance[q]
  BY <1>3 DEF Dependencies
<1>7. Rest(n, u, {"todo", "crtInstance"}) /\ u.todo = Tail(n.todo) /\ u.crtInstance = c
  BY DEF NodeTyped, FieldsTyped, Rest, Fields
<1> HIDE DEF u, c
<1>8. NodeTyped(u)
  <2>1. ASSUME NEW e \in DOMAIN n.inst PROVE Number(e) <= c[Row(e)]
    <3>1. e \in Ids /\ Number(e) <= n.crtInstance[Row(e)]
      BY DEF NodeTyped, FieldsTyped, IsMap, Linked
    <3> QED
      BY <1>3, <1>6, <3>1, IdIs
  <2>2. Linked(u)
    BY <1>7, <2>1 DEF NodeTyped, Linked, Rest, Fields
  <2> QED
    BY <1>2, <1>6, <1>7, <2>2 DEF NodeTyped, FieldsTyped, Timed, Listed, Rest, Fields
<1>9. u.inst = n.inst /\ u.lb = n.lb /\ Conflicts(u, cmd) = Conflicts(n, cmd)
  BY <1>7 DEF Rest, Fields, Conflicts
<1>10. /\ a.seq \in Int /\ a.deps \in Dependencies
       /\ \A q \in Replicas :
            /\ a.deps[q] = NilDeps[q] \/ <<q, a.deps[q]>> \in DOMAIN n.inst
            /\ Conflicts(n, cmd)[q] <= a.deps[q]
  <2>1. 0 \in Int
    OBVIOUS
  <2> HIDE DEF id, cmd
  <2> QED
    BY <1>2, <1>4, <1>5, <1>8, <1>9, <2>1, UpdateAttributesIs
<1>11. \A q \in Replicas : a.deps[q] = -1 \/ <<q, a.deps[q]>> \in DOMAIN n.inst
  BY <1>10 DEF NilDeps
<1> HIDE DEF id, cmd, a
<1>12. i \in Instances /\ lb \in Leaders
  BY <1>2, <1>4, <1>10, FirstIs
<1>13. i.status = PREACCEPTED /\ i.cmds # Nil
  BY <1>2, CommandIs DEF FirstInstance, NewInstance
<1> HIDE DEF i, lb
<1>14. v = Put(u, id, i)
  BY <1>9 DEF Put, id
<1> HIDE DEF v
<1>15. NodeTyped(v) /\ Rest(u, v, {"inst", "created"}) /\ v.inst = With(u.inst, id, i)
  <2>1. Number(id) <= u.crtInstance[Row(id)]
    BY <1>3, <1>4, <1>6, <1>7
  <2>2. i.status # EXECUTED
    BY <1>13 DEF PREACCEPTED, EXECUTED
  <2>3. id \notin DOMAIN u.inst
    BY <1>9 DEF id
  <2> QED
    BY <1>4, <1>8, <1>12, <1>13, <1>14, <2>1, <2>2, <2>3, PutIs
<1>16. id \in DOMAIN v.inst
  BY <1>15 DEF With
<1>17. NodeTyped(w) /\ Rest(v, w, {"lb"}) /\ w.lb = With(v.lb, id, lb)
  BY <1>12, <1>15, <1>16, PutLbIs
<1> HIDE DEF w
<1>18. id \in DOMAIN w.inst
  BY <1>16, <1>17 DEF Rest, Fields
<1>19. /\ NodeTyped(t) /\ Rest(w, t, {"last", "lastWrite", "maxSeqPerKey"})
       /\ More(w, t) /\ Knows(t, id, cmd)
  BY <1>2, <1>10, <1>17, <1>18, UpdateConflictsIs
<1> HIDE DEF t
<1>20. /\ Rest(n, t, {"todo", "inst", "lb", "created", "crtInstance", "last", "lastWrite", "maxSeqPerKey"})
       /\ t.todo = Tail(n.todo) /\ t.crtInstance = c
       /\ t.inst = With(n.inst, id, i) /\ t.lb = With(n.lb, id, lb)
       /\ w.last = n.last /\ w.lastWrite = n.lastWrite
  BY <1>7, <1>15, <1>17, <1>19 DEF Rest, Fields
<1>21. More(n, t)
  BY <1>19, <1>20 DEF More
<1>22. \E attr : /\ t.inst = With(n.inst, id, FirstInstance(r, id, cmd, attr))
                 /\ t.lb = With(n.lb, id, FirstLb(r, cmd, attr))
                 /\ attr.seq \in Int /\ attr.deps \in Dependencies
                 /\ \A q \in Replicas :
                      /\ attr.deps[q] = -1 \/ <<q, attr.deps[q]>> \in DOMAIN n.inst
                      /\ Conflicts(n, cmd)[q] <= attr.deps[q]
  BY <1>10, <1>11, <1>20 DEF i, lb
<1> QED
  BY <1>1, <1>2, <1>4, <1>19, <1>20, <1>21, <1>22 DEF id, cmd, c

\* The attributes that replica r gives to those of a message.
Extends(n, r, cmd, deps, id, attr) ==
  /\ attr.seq \in Int /\ attr.deps \in Dependencies
  /\ \A q \in Replicas :
       /\ deps[q] <= attr.deps[q]
       /\ attr.deps[q] = deps[q] \/ <<q, attr.deps[q]>> \in DOMAIN n.inst
       /\ r = Row(id) \/ q # Row(id) => Conflicts(n, cmd)[q] <= attr.deps[q]

\* t is n after a record of an instance has been written.
Writes(n, t, id, i) ==
  /\ NodeTyped(t) /\ Rest(n, t, {"inst", "created", "last", "lastWrite", "maxSeqPerKey"})
  /\ t.inst = With(n.inst, id, i) /\ More(n, t)

\* What is put may be there already.
LEMMA SelfMore ==
  ASSUME InGroup, NEW n, NodeTyped(n), NEW t, t.last = n.last, t.lastWrite = n.lastWrite
  PROVE  More(n, t)
<1> SUFFICES ASSUME NEW k \in Keys, NEW q \in Replicas
             PROVE  n.last[k][q] <= n.last[k][q] /\ n.lastWrite[k][q] <= n.lastWrite[k][q]
  BY DEF More
<1>1. n.last[k] \in Dependencies /\ n.lastWrite[k] \in Dependencies
  BY DEF NodeTyped, FieldsTyped
<1>2. n.last[k][q] \in {-1} \cup Nat /\ n.lastWrite[k][q] \in {-1} \cup Nat
  BY <1>1 DEF Dependencies
<1> QED
  BY <1>2

\* An instance that is put in the log is written.
LEMMA PutWrites ==
  ASSUME InGroup, NEW n, NodeTyped(n), NEW id \in Ids, NEW i \in Instances,
         Number(id) <= n.crtInstance[Row(id)], i.status >= PREACCEPTED => i.cmds # Nil,
         IF id \in DOMAIN n.inst THEN i.status = EXECUTED <=> n.inst[id].status = EXECUTED
         ELSE i.status # EXECUTED
  PROVE  Writes(n, Put(n, id, i), id, i)
<1> DEFINE t == Put(n, id, i)
<1>1. NodeTyped(t) /\ Rest(n, t, {"inst", "created"}) /\ t.inst = With(n.inst, id, i)
  BY PutIs
<1> HIDE DEF t
<1>2. t.last = n.last /\ t.lastWrite = n.lastWrite
  BY <1>1 DEF Rest, Fields
<1>3. More(n, t)
  BY <1>2, SelfMore
<1>4. Rest(n, t, {"inst", "created", "last", "lastWrite", "maxSeqPerKey"})
  BY <1>1 DEF Rest
<1> QED
  BY <1>1, <1>3, <1>4 DEF Writes, t

\* And is known once updateConflicts() has been called for it.
LEMMA PutConflicting ==
  ASSUME InGroup, NEW n, NodeTyped(n), NEW id \in Ids, NEW i \in Instances,
         Number(id) <= n.crtInstance[Row(id)], i.cmds # Nil,
         IF id \in DOMAIN n.inst THEN i.status = EXECUTED <=> n.inst[id].status = EXECUTED
         ELSE i.status # EXECUTED,
         NEW cmd \in Commands, NEW seq \in Int
  PROVE  LET t == UpdateConflicts(Put(n, id, i), cmd, id, seq)
         IN  Writes(n, t, id, i) /\ Knows(t, id, cmd)
<1> DEFINE u == Put(n, id, i)
           t == UpdateConflicts(u, cmd, id, seq)
<1>1. NodeTyped(u) /\ Rest(n, u, {"inst", "created"}) /\ u.inst = With(n.inst, id, i)
  BY PutIs
<1> HIDE DEF u
<1>2. id \in DOMAIN u.inst
  BY <1>1 DEF With
<1>3. /\ NodeTyped(t) /\ Rest(u, t, {"last", "lastWrite", "maxSeqPerKey"})
      /\ More(u, t) /\ Knows(t, id, cmd)
  BY <1>1, <1>2, UpdateConflictsIs
<1> HIDE DEF t
<1>4. /\ u.last = n.last /\ u.lastWrite = n.lastWrite /\ t.inst = With(n.inst, id, i)
      /\ Rest(n, t, {"inst", "created", "last", "lastWrite", "maxSeqPerKey"})
  BY <1>1, <1>3 DEF Rest, Fields
<1>5. More(n, t)
  BY <1>3, <1>4 DEF More
<1> QED
  BY <1>3, <1>4, <1>5 DEF Writes, t, u

\* Records are those of the ballot of their row.
Ballots(n) == \A id \in DOMAIN n.inst : n.inst[id].bal = Row(id) /\ n.inst[id].vbal = Row(id)

\* The records with the default one, which has no dependencies.
Anything == [cmds : Commands \cup {Nil}, bal : {-1} \cup Nat, vbal : {-1} \cup Nat, status : NONE .. EXECUTED,
             seq : Int, deps : Dependencies \cup {Nil}]

\* handleAccept() writes, of a record, all but the commands and the status.
LEMMA AcceptedRecord ==
  ASSUME NEW i \in Anything, NEW d, NEW s, NEW b
  PROVE  [i EXCEPT !.deps = d, !.seq = s, !.bal = b, !.vbal = b] = NewInstance(i.cmds, b, i.status, s, d)
<1> DEFINE N == {"cmds", "bal", "vbal", "status", "seq", "deps"}
           V == {i.cmds, b, i.status, s, d}
           e == [i EXCEPT !.deps = d, !.seq = s, !.bal = b, !.vbal = b]
           j == NewInstance(i.cmds, b, i.status, s, d)
<1>1. e \in [N -> V]
  BY DEF Anything
<1>5. j \in [N -> V]
  BY DEF NewInstance
<1>2. /\ e.cmds = j.cmds /\ e.bal = j.bal /\ e.vbal = j.vbal
      /\ e.status = j.status /\ e.seq = j.seq /\ e.deps = j.deps
  BY DEF Anything, NewInstance
<1>3. \A x \in N : e[x] = j[x]
  BY <1>2
<1> HIDE DEF e, j, N, V
<1>4. e = j
  BY <1>1, <1>3, <1>5
<1> QED
  BY <1>4 DEF e, j

\* An instance as it is read: the record, or nothing.
LEMMA InstIs ==
  ASSUME InGroup, NEW n, NodeTyped(n), NEW id \in Ids
  PROVE  /\ Inst(n, id).status \in NONE .. EXECUTED /\ Inst(n, id).cmds \in Commands \cup {Nil}
         /\ Inst(n, id).status >= PREACCEPTED => id \in DOMAIN n.inst /\ Inst(n, id).cmds # Nil
         /\ id \in DOMAIN n.inst => Inst(n, id) = n.inst[id] /\ Inst(n, id) \in Instances
         /\ id \notin DOMAIN n.inst => Inst(n, id) = NewInstanceDefault /\ Inst(n, id).status = NONE
<1>1. CASE id \notin DOMAIN n.inst
  BY <1>1 DEF Inst, NewInstanceDefault, NewInstance, NONE, PREACCEPTED, EXECUTED
<1>2. CASE id \in DOMAIN n.inst
  <2>1. Inst(n, id) = n.inst[id] /\ n.inst[id] \in Instances
    BY <1>2 DEF Inst, NodeTyped, FieldsTyped, IsMap
  <2>2. n.inst[id].status >= PREACCEPTED => n.inst[id].cmds # Nil
    BY <1>2 DEF NodeTyped, Linked
  <2>3. n.inst[id].status \in NONE .. EXECUTED /\ n.inst[id].cmds \in Commands \cup {Nil}
    BY <2>1 DEF Instances
  <2> QED
    BY <1>2, <2>1, <2>2, <2>3
<1> QED
  BY <1>1, <1>2

\* handlePreAccept
LEMMA PreAcceptedIs ==
  ASSUME InGroup, NEW n, NodeTyped(n), Ballots(n), NEW r \in Replicas, NEW m,
         m.id \in Ids, m.cmds \in Commands, m.seq \in Int, m.deps \in Dependencies, m.ballot = Row(m.id),
         Number(m.id) <= n.crtInstance[Row(m.id)]
  PROVE  LET t == PreAccepted(n, r, m)
             i == Inst(n, m.id)
         IN  IF i.status >= ACCEPTED THEN Writes(n, t, m.id, i)
             ELSE \E attr, status :
                    /\ Extends(n, r, m.cmds, m.deps, m.id, attr)
                    /\ status \in {PREACCEPTED, PREACCEPTED_EQ}
                    /\ Writes(n, t, m.id, NewInstance(m.cmds, m.ballot, status, attr.seq, attr.deps))
                    /\ Knows(t, m.id, m.cmds)
<1> DEFINE id == m.id
           t == PreAccepted(n, r, m)
           i == Inst(n, id)
<1>1. CASE i.status >= ACCEPTED
  <2>1. id \in DOMAIN n.inst /\ i = n.inst[id] /\ i \in Instances /\ i.cmds # Nil
    <3>1. i.status \in NONE .. EXECUTED
      BY InstIs
    <3>2. i.status >= PREACCEPTED
      BY <1>1, <3>1 DEF ACCEPTED, PREACCEPTED, NONE, EXECUTED
    <3> QED
      BY <3>2, InstIs
  <2>2. [i EXCEPT !.bal = m.ballot] = i
    <3>1. i.bal = m.ballot
      BY <2>1 DEF Ballots
    <3> HIDE DEF i
    <3> QED
      BY <2>1, <3>1 DEF Instances
  <2>3. n.inst \in [DOMAIN n.inst -> Instances] /\ DOMAIN n = Fields
    BY DEF NodeTyped, FieldsTyped, IsMap
  <2>4. t = [n EXCEPT !.inst[id] = [i EXCEPT !.bal = m.ballot]]
    BY <1>1, <2>1 DEF PreAccepted
  <2>5. t = [n EXCEPT !.inst[id] = i]
    BY <2>2, <2>4
  <2>6. [n.inst EXCEPT ![id] = i] = With(n.inst, id, i)
    BY <2>1, <2>3 DEF With
  <2>7. t = Put(n, id, i)
    BY <2>1, <2>3, <2>5, <2>6 DEF Put
  <2>8. i.status = EXECUTED <=> n.inst[id].status = EXECUTED
    BY <2>1
  <2> HIDE DEF t, i
  <2> QED
    BY <1>1, <2>1, <2>7, <2>8, PutWrites DEF t, i
<1>2. CASE ~ (i.status >= ACCEPTED)
  <2> DEFINE a == UpdateAttributes(n, r, m.cmds, m.seq, m.deps, id)
             s == IF a.changed THEN PREACCEPTED ELSE PREACCEPTED_EQ
             j == NewInstance(m.cmds, m.ballot, s, a.seq, a.deps)
  <2>1. t = UpdateConflicts(Put(n, id, j), m.cmds, id, m.seq)
    BY <1>2 DEF PreAccepted, PreAcceptedAs
  <2>2. Extends(n, r, m.cmds, m.deps, id, a)
    <3> HIDE DEF id
    <3>1. id \in Ids
      BY DEF id
    <3> QED
      BY <3>1, UpdateAttributesIs DEF Extends
  <2> HIDE DEF a
  <2>3. s \in {PREACCEPTED, PREACCEPTED_EQ}
    OBVIOUS
  <2>4. s # EXECUTED
    BY DEF PREACCEPTED, PREACCEPTED_EQ, EXECUTED
  <2> HIDE DEF s
  <2>5. j \in Instances /\ j.cmds # Nil /\ j.status = s
    <3>1. m.ballot \in {-1} \cup Nat /\ m.cmds # Nil
      BY GroupIs, IdIs, CommandIs
    <3>2. s \in NONE .. EXECUTED
      BY <2>3 DEF NONE, PREACCEPTED, PREACCEPTED_EQ, EXECUTED
    <3> QED
      BY <2>2, <3>1, <3>2 DEF NewInstance, Instances, Extends
  <2>6. id \in DOMAIN n.inst => n.inst[id].status # EXECUTED
    BY <1>2, InstIs DEF ACCEPTED, EXECUTED
  <2> HIDE DEF j, t, i
  <2>7. Writes(n, t, id, j) /\ Knows(t, id, m.cmds)
    BY <2>1, <2>4, <2>5, <2>6, PutConflicting
  <2> QED
    BY <1>2, <2>2, <2>3, <2>7 DEF j, t, i
<1> QED
  BY <1>1, <1>2

\* handleAccept
LEMMA AcceptedIs ==
  ASSUME InGroup, NEW n, NodeTyped(n), Ballots(n), NEW m,
         m.id \in Ids, m.seq \in Int, m.deps \in Dependencies, m.ballot = Row(m.id),
         Number(m.id) <= n.crtInstance[Row(m.id)]
  PROVE  LET i == Inst(n, m.id)
         IN  Writes(n, Accepted(n, m), m.id,
                    IF i.status >= COMMITTED THEN i
                    ELSE NewInstance(i.cmds, m.ballot, i.status, m.seq, m.deps))
<1> DEFINE id == m.id
           i == Inst(n, id)
           j == NewInstance(i.cmds, m.ballot, i.status, m.seq, m.deps)
<1>1. /\ i.status \in NONE .. EXECUTED /\ i.cmds \in Commands \cup {Nil}
      /\ i.bal \in {-1, m.ballot} /\ m.ballot \in Nat
      /\ i.status >= PREACCEPTED => i \in Instances /\ i.cmds # Nil
      /\ i \in Anything
  <2>1. m.ballot \in Nat
    BY GroupIs, IdIs
  <2>2. CASE id \in DOMAIN n.inst
    <3>1. i = n.inst[id] /\ i \in Instances
      BY <2>2, InstIs
    <3>2. i \in Anything
      BY <3>1 DEF Instances, Anything
    <3> QED
      BY <2>1, <2>2, <3>1, <3>2, InstIs DEF Ballots
  <2>3. CASE id \notin DOMAIN n.inst
    BY <2>1, <2>3, InstIs DEF NewInstanceDefault, NewInstance, NONE, PREACCEPTED, EXECUTED, Anything
  <2> QED
    BY <2>1, <2>2, <2>3
<1>2. ~ (m.ballot < i.bal)
  BY <1>1
<1>3. i.status >= PREACCEPTED => i.cmds # Nil
  BY InstIs
<1>4. IF id \in DOMAIN n.inst THEN i.status = EXECUTED <=> n.inst[id].status = EXECUTED
      ELSE i.status # EXECUTED
  BY InstIs DEF NewInstanceDefault, NewInstance, NONE, EXECUTED
<1>5. CASE i.status >= COMMITTED
  <2>1. Accepted(n, m) = Put(n, id, i)
    BY <1>5 DEF Accepted
  <2>2. i \in Instances /\ i.cmds # Nil
    BY <1>1, <1>5 DEF NONE, EXECUTED, COMMITTED, PREACCEPTED
  <2> HIDE DEF i
  <2>3. Writes(n, Put(n, id, i), id, i)
    BY <1>4, <2>2, PutWrites
  <2> QED
    BY <1>5, <2>1, <2>3 DEF i
<1>6. CASE ~ (i.status >= COMMITTED)
  <2>1. Accepted(n, m) = Put(n, id, j)
    <3>1. [i EXCEPT !.deps = m.deps, !.seq = m.seq, !.bal = m.ballot, !.vbal = m.ballot] = j
      <4>1. i \in Anything
        BY <1>1
      <4> HIDE DEF i
      <4> DEFINE d == m.deps
                 s == m.seq
                 b == m.ballot
      <4> HIDE DEF d, s, b
      <4>2. [i EXCEPT !.deps = d, !.seq = s, !.bal = b, !.vbal = b] = NewInstance(i.cmds, b, i.status, s, d)
        BY <4>1, AcceptedRecord
      <4> QED
        BY <4>2 DEF d, s, b
    <3> QED
      BY <1>2, <1>6, <3>1 DEF Accepted
  <2>2. j \in Instances /\ j.status = i.status /\ j.cmds = i.cmds
    <3> HIDE DEF i
    <3> QED
      BY <1>1 DEF NewInstance, Instances
  <2> HIDE DEF i, j
  <2>3. Writes(n, Put(n, id, j), id, j)
    BY <1>3, <1>4, <2>2, PutWrites
  <2> QED
    BY <1>6, <2>1, <2>3 DEF i, j
<1> QED
  BY <1>5, <1>6

\* handleCommit
LEMMA CommittedIs ==
  ASSUME InGroup, NEW n, NodeTyped(n), Ballots(n), NEW r, NEW m,
         m.id \in Ids, m.cmds \in Commands, m.seq \in Int, m.deps \in Dependencies, m.ballot = Row(m.id),
         Number(m.id) <= n.crtInstance[Row(m.id)]
  PROVE  LET t == Committed(n, r, m)
             i == Inst(n, m.id)
         IN  IF i.status >= COMMITTED THEN Writes(n, t, m.id, i)
             ELSE /\ Writes(n, t, m.id, NewInstance(m.cmds, m.ballot, COMMITTED, m.seq, m.deps))
                  /\ Knows(t, m.id, m.cmds)
<1> DEFINE id == m.id
           t == Committed(n, r, m)
           i == Inst(n, id)
           j == NewInstance(m.cmds, m.ballot, COMMITTED, m.seq, m.deps)
<1>1. /\ i.status \in NONE .. EXECUTED /\ i.cmds \in Commands \cup {Nil}
      /\ i.bal \in {-1, m.ballot} /\ m.ballot \in Nat
      /\ i.status >= PREACCEPTED => i \in Instances /\ i.cmds # Nil
      /\ i \in Anything
  <2>1. m.ballot \in Nat
    BY GroupIs, IdIs
  <2>2. CASE id \in DOMAIN n.inst
    <3>1. i = n.inst[id] /\ i \in Instances
      BY <2>2, InstIs
    <3>2. i \in Anything
      BY <3>1 DEF Instances, Anything
    <3> QED
      BY <2>1, <2>2, <3>1, <3>2, InstIs DEF Ballots
  <2>3. CASE id \notin DOMAIN n.inst
    BY <2>1, <2>3, InstIs DEF NewInstanceDefault, NewInstance, NONE, PREACCEPTED, EXECUTED, Anything
  <2> QED
    BY <2>1, <2>2, <2>3
<1>2. ~ (m.ballot < i.bal)
  BY <1>1
<1>3. i.status >= PREACCEPTED => i.cmds # Nil
  BY InstIs
<1>4. IF id \in DOMAIN n.inst THEN i.status = EXECUTED <=> n.inst[id].status = EXECUTED
      ELSE i.status # EXECUTED
  BY InstIs DEF NewInstanceDefault, NewInstance, NONE, EXECUTED
<1>5. CASE i.status >= COMMITTED
  <2>1. t = Put(n, id, i)
    BY <1>5 DEF Committed
  <2>2. i \in Instances /\ i.cmds # Nil
    BY <1>1, <1>5 DEF NONE, EXECUTED, COMMITTED, PREACCEPTED
  <2> HIDE DEF i, t
  <2>3. Writes(n, Put(n, id, i), id, i)
    BY <1>4, <2>2, PutWrites
  <2> QED
    BY <1>5, <2>1, <2>3 DEF i, t
<1>6. CASE ~ (i.status >= COMMITTED)
  <2>1. Reproposed(n, r, m) = n
    BY CommandIs DEF Reproposed
  <2>2. t = UpdateConflicts(Put(n, id, j), m.cmds, id, m.seq)
    BY <1>2, <1>6, <2>1 DEF Committed
  <2>3. j \in Instances /\ j.cmds # Nil /\ j.status # EXECUTED
    BY <1>1, CommandIs DEF NewInstance, Instances, NONE, COMMITTED, EXECUTED
  <2>4. id \in DOMAIN n.inst => n.inst[id].status # EXECUTED
    BY <1>4, <1>6 DEF COMMITTED, EXECUTED
  <2> HIDE DEF i, j, t
  <2>5. Writes(n, t, id, j) /\ Knows(t, id, m.cmds)
    BY <2>2, <2>3, <2>4, PutConflicting
  <2> QED
    BY <1>6, <2>5 DEF i, j, t
<1> QED
  BY <1>5, <1>6

(***************************************************************************)
(* The leader's bookkeeping.                                               *)
(***************************************************************************)
LEMMA MergedDepsIs ==
  ASSUME InGroup, NEW r \in Replicas, NEW a \in Dependencies, NEW b \in Dependencies
  PROVE  /\ MergedDeps(r, a, b) \in Dependencies
         /\ \A q \in Replicas :
              /\ MergedDeps(r, a, b)[q] \in {a[q], b[q]} /\ a[q] <= MergedDeps(r, a, b)[q]
              /\ q # r => b[q] <= MergedDeps(r, a, b)[q]
<1>1. ASSUME NEW q \in Replicas
      PROVE  /\ MergedDeps(r, a, b)[q] \in {a[q], b[q]} /\ a[q] <= MergedDeps(r, a, b)[q]
             /\ q # r => b[q] <= MergedDeps(r, a, b)[q]
  <2> DEFINE x == a[q]
             y == b[q]
  <2>1. x \in Int /\ y \in Int
    BY DEF Dependencies
  <2>2. MergedDeps(r, a, b)[q] = IF q = r THEN x ELSE Max({x, y})
    BY DEF MergedDeps
  <2> HIDE DEF x, y
  <2>3. Max({x, y}) \in {x, y} /\ x <= Max({x, y}) /\ y <= Max({x, y})
    BY <2>1, MaxOfTwo
  <2>4. x <= x
    BY <2>1
  <2>5. MergedDeps(r, a, b)[q] \in {x, y} /\ x <= MergedDeps(r, a, b)[q] /\ (q # r => y <= MergedDeps(r, a, b)[q])
    BY <2>2, <2>3, <2>4
  <2> QED
    BY <2>5 DEF x, y
<1>2. MergedDeps(r, a, b) = [q \in Replicas |-> MergedDeps(r, a, b)[q]]
  BY DEF MergedDeps
<1>3. \A q \in Replicas : MergedDeps(r, a, b)[q] \in {-1} \cup Nat
  BY <1>1 DEF Dependencies
<1> HIDE DEF MergedDeps
<1> QED
  BY <1>1, <1>2, <1>3 DEF Dependencies

\* What a reply to a PreAccept is, while its instance is pre-accepted.
IsReply(m, r) ==
  m.vballot = r /\ m.seq \in Int /\ m.deps \in Dependencies /\ m.status \in {PREACCEPTED, PREACCEPTED_EQ}

\* What handlePreAcceptReply() does to the leader when it counts an answer.
LEMMA CountedIs ==
  ASSUME InGroup, NEW r \in Replicas, NEW lb \in Leaders, IsPreAccepting(lb), lb.ballot \in {-1, r},
         NEW m, IsReply(m, r)
  PROVE  LET l == Counted(lb, m)
         IN  /\ l \in Leaders /\ IsPreAccepting(l) /\ l.ballot = r
             /\ l.cmds = lb.cmds /\ l.lastTriedBallot = lb.lastTriedBallot /\ l.acceptOKs = lb.acceptOKs
             /\ l.preAcceptOKs = lb.preAcceptOKs + 1
             /\ l.deps = IF lb.ballot = -1 THEN m.deps ELSE lb.deps
<1> DEFINE l == Counted(lb, m)
           k == lb.preAcceptOKs + 1
<1>1. r \in Nat /\ k \in Nat
  BY GroupIs DEF Leaders
<1>2. CASE lb.ballot = -1
  <2>1. l = [lb EXCEPT !.preAcceptOKs = k, !.ballot = r, !.seq = m.seq, !.deps = m.deps, !.status = m.status]
    BY <1>1, <1>2 DEF Counted, IsReply
  <2>2. /\ m.status \in PREACCEPTED .. COMMITTED /\ m.status \in {PREACCEPTED, PREACCEPTED_EQ}
        /\ m.seq \in Int /\ m.deps \in Dependencies
    BY DEF IsReply, PREACCEPTED, PREACCEPTED_EQ, COMMITTED
  <2> HIDE DEF l, k
  <2>3. l \in Leaders
    BY <1>1, <2>1, <2>2 DEF Leaders
  <2>4. /\ l.status = m.status /\ l.ballot = r /\ l.cmds = lb.cmds /\ l.lastTriedBallot = lb.lastTriedBallot
        /\ l.acceptOKs = lb.acceptOKs /\ l.preAcceptOKs = k /\ l.deps = m.deps
    BY <2>1 DEF Leaders
  <2> QED
    BY <1>2, <2>2, <2>3, <2>4 DEF IsPreAccepting, k, l
<1>3. CASE lb.ballot = r
  <2>1. l = [lb EXCEPT !.preAcceptOKs = k]
    BY <1>1, <1>3 DEF Counted, IsReply
  <2> HIDE DEF l, k
  <2>2. l \in Leaders
    BY <1>1, <2>1 DEF Leaders
  <2>3. /\ l.status = lb.status /\ l.ballot = lb.ballot /\ l.cmds = lb.cmds /\ l.lastTriedBallot = lb.lastTriedBallot
        /\ l.acceptOKs = lb.acceptOKs /\ l.preAcceptOKs = k /\ l.deps = lb.deps
    BY <2>1 DEF Leaders
  <2>4. lb.ballot # -1
    BY <1>1, <1>3
  <2> QED
    BY <1>3, <2>2, <2>3, <2>4 DEF IsPreAccepting, k, l
<1> QED
  BY <1>2, <1>3

\* What it does when it merges the attributes of an answer.
LEMMA MergedIs ==
  ASSUME InGroup, NEW r \in Replicas, NEW lb \in Leaders, IsPreAccepting(lb), NEW m, IsReply(m, r)
  PROVE  LET l == Merged(r, lb, m)
         IN  /\ l \in Leaders /\ IsPreAccepting(l) /\ l.ballot = lb.ballot
             /\ l.cmds = lb.cmds /\ l.lastTriedBallot = lb.lastTriedBallot /\ l.acceptOKs = lb.acceptOKs
             /\ l.preAcceptOKs = lb.preAcceptOKs
             /\ l.deps = MergedDeps(r, lb.deps, m.deps)
<1> DEFINE e == lb.allEqual /\ ((group.size <= 3 /\ group.thrifty) \/ EqualAttributes(r, lb, m))
           s == Max({lb.seq, m.seq})
           d == MergedDeps(r, lb.deps, m.deps)
           l == Merged(r, lb, m)
<1>1. l = [lb EXCEPT !.allEqual = e, !.seq = s, !.deps = d]
  BY DEF Merged
<1>2. e \in BOOLEAN
  OBVIOUS
<1>3. lb.seq \in Int /\ m.seq \in Int /\ lb.deps \in Dependencies /\ m.deps \in Dependencies
  BY DEF Leaders, IsReply
<1>4. s \in Int
  BY <1>3, MaxOfTwo
<1>5. d \in Dependencies
  BY <1>3, MergedDepsIs
<1> HIDE DEF e, s, d, l
<1> QED
  BY <1>1, <1>2, <1>4, <1>5 DEF d, l, Leaders, IsPreAccepting

\* handlePreAcceptReply
LEMMA DecidedIs ==
  ASSUME InGroup, NEW r \in Replicas, NEW lb \in Leaders, IsPreAccepting(lb), lb.ballot \in {-1, r},
         NEW m, IsReply(m, r), NEW id
  PROVE  LET l == Decided(Merged(r, Counted(lb, m), m), id)
         IN  /\ l \in Leaders /\ l.ballot = r
             /\ l.cmds = lb.cmds /\ l.lastTriedBallot = lb.lastTriedBallot /\ l.acceptOKs = lb.acceptOKs
             /\ l.preAcceptOKs = lb.preAcceptOKs + 1
             /\ IF IsDecided(l) THEN l.status \in {ACCEPTED, COMMITTED} ELSE IsPreAccepting(l)
             /\ \A q \in Replicas :
                  /\ l.deps[q] \in {lb.deps[q], m.deps[q]}
                  /\ q # r => m.deps[q] <= l.deps[q]
                  /\ lb.ballot # -1 => lb.deps[q] <= l.deps[q]
<1> DEFINE c == Counted(lb, m)
           g == Merged(r, c, m)
           l == Decided(g, id)
<1>1. /\ c \in Leaders /\ IsPreAccepting(c) /\ c.ballot = r
      /\ c.cmds = lb.cmds /\ c.lastTriedBallot = lb.lastTriedBallot /\ c.acceptOKs = lb.acceptOKs
      /\ c.preAcceptOKs = lb.preAcceptOKs + 1
      /\ c.deps = IF lb.ballot = -1 THEN m.deps ELSE lb.deps
  BY CountedIs
<1> HIDE DEF c
<1>2. /\ g \in Leaders /\ IsPreAccepting(g) /\ g.ballot = c.ballot
      /\ g.cmds = c.cmds /\ g.lastTriedBallot = c.lastTriedBallot /\ g.acceptOKs = c.acceptOKs
      /\ g.preAcceptOKs = c.preAcceptOKs
      /\ g.deps = MergedDeps(r, c.deps, m.deps)
  BY <1>1, MergedIs
<1> HIDE DEF g
<1>3. c.deps \in Dependencies /\ m.deps \in Dependencies
  BY <1>1 DEF Leaders, IsReply
<1>4. \A q \in Replicas :
        /\ g.deps[q] \in {c.deps[q], m.deps[q]} /\ c.deps[q] <= g.deps[q]
        /\ q # r => m.deps[q] <= g.deps[q]
  BY <1>2, <1>3, MergedDepsIs
<1>5. \E s \in {ACCEPTED, COMMITTED} :
        l = IF g.preAcceptOKs < FastQuorumSize - 1 THEN g ELSE [g EXCEPT !.status = s]
  BY DEF Decided
<1>6. g.preAcceptOKs \in Int /\ FastQuorumSize - 1 \in Int
  <2>1. group.size \in Int
    BY GroupIs
  <2>2. F \in Int
    BY <2>1 DEF F
  <2>3. (F + 1) \div 2 \in Int
    BY <2>2
  <2> QED
    BY <1>2, <2>2, <2>3 DEF FastQuorumSize, Leaders
<1> HIDE DEF l
<1>7. /\ l \in Leaders /\ l.ballot = g.ballot
      /\ l.cmds = g.cmds /\ l.lastTriedBallot = g.lastTriedBallot /\ l.acceptOKs = g.acceptOKs
      /\ l.preAcceptOKs = g.preAcceptOKs /\ l.deps = g.deps
      /\ IF l.preAcceptOKs >= FastQuorumSize - 1 THEN l.status \in {ACCEPTED, COMMITTED} ELSE IsPreAccepting(l)
  <2>1. PICK s \in {ACCEPTED, COMMITTED} :
          l = IF g.preAcceptOKs < FastQuorumSize - 1 THEN g ELSE [g EXCEPT !.status = s]
    BY <1>5
  <2>2. s \in PREACCEPTED .. COMMITTED
    BY DEF PREACCEPTED, ACCEPTED, COMMITTED
  <2>3. CASE g.preAcceptOKs < FastQuorumSize - 1
    BY <1>2, <1>6, <2>1, <2>3
  <2>4. CASE ~ (g.preAcceptOKs < FastQuorumSize - 1)
    <3>1. l = [g EXCEPT !.status = s] /\ g.preAcceptOKs >= FastQuorumSize - 1
      BY <1>6, <2>1, <2>4
    <3> QED
      BY <1>2, <2>2, <3>1 DEF Leaders
  <2> QED
    BY <2>3, <2>4
<1>8. ASSUME NEW q \in Replicas
      PROVE  /\ l.deps[q] \in {lb.deps[q], m.deps[q]}
             /\ q # r => m.deps[q] <= l.deps[q]
             /\ lb.ballot # -1 => lb.deps[q] <= l.deps[q]
  BY <1>1, <1>4, <1>7
<1> QED
  BY <1>1, <1>2, <1>7, <1>8 DEF IsDecided, l, g, c

(***************************************************************************)
(* The instance takes a decision over; the executor may run meanwhile.     *)
(***************************************************************************)
\* t is n after instances that were committed have been executed.
Runs(n, t) ==
  /\ NodeTyped(t) /\ Rest(n, t, {"inst", "executed", "torn"})
  /\ DOMAIN t.inst = DOMAIN n.inst
  /\ \A e \in DOMAIN n.inst :
       /\ SameInstance(n.inst[e], t.inst[e])
       /\ t.inst[e].bal = n.inst[e].bal /\ t.inst[e].vbal = n.inst[e].vbal
       /\ t.inst[e].status = n.inst[e].status \/ (n.inst[e].status = COMMITTED /\ t.inst[e].status = EXECUTED)
  /\ IsPrefix(n.executed, t.executed)

\* t is n after the instance and its leader's bookkeeping have become those of lb.
Takeover(n, t, id, lb) ==
  /\ NodeTyped(t) /\ Rest(n, t, {"inst", "lb", "executed", "torn"})
  /\ DOMAIN t.inst = DOMAIN n.inst /\ t.lb = With(n.lb, id, lb)
  /\ \A e \in DOMAIN n.inst \ {id} :
       /\ SameInstance(n.inst[e], t.inst[e])
       /\ t.inst[e].bal = n.inst[e].bal /\ t.inst[e].vbal = n.inst[e].vbal
       /\ t.inst[e].status = n.inst[e].status \/ (n.inst[e].status = COMMITTED /\ t.inst[e].status = EXECUTED)
  /\ SameInstance(lb, t.inst[id])
  /\ t.inst[id].bal = lb.ballot /\ t.inst[id].vbal = n.inst[id].vbal
  /\ t.inst[id].status = lb.status \/ (lb.status = COMMITTED /\ t.inst[id].status = EXECUTED)
  /\ IsPrefix(n.executed, t.executed)

\* What the leader decides is copied to the log: first the status,
LEMMA StatusTakenIs ==
  ASSUME InGroup, NEW n, NodeTyped(n), NEW id \in DOMAIN n.inst, n.inst[id].status \in PREACCEPTED .. ACCEPTED,
         NEW lb \in Leaders, lb.status \in {ACCEPTED, COMMITTED}
  PROVE  LET t == StatusTaken(n, id, lb)
         IN  /\ NodeTyped(t) /\ Rest(n, t, {"inst", "lb"}) /\ t.lb = With(n.lb, id, lb)
             /\ t.inst = With(n.inst, id, [n.inst[id] EXCEPT !.status = lb.status])
<1> DEFINE i == [n.inst[id] EXCEPT !.status = lb.status]
           u == [n EXCEPT !.inst[id].status = lb.status]
           t == PutLb(u, id, lb)
<1>1. t = StatusTaken(n, id, lb)
  BY DEF StatusTaken
<1>2. n.inst \in [DOMAIN n.inst -> Instances] /\ DOMAIN n = Fields /\ id \in Ids /\ n.inst[id].cmds # Nil
      /\ Number(id) <= n.crtInstance[Row(id)]
  BY DEF NodeTyped, FieldsTyped, IsMap, Linked, PREACCEPTED
<1>3. n.inst[id] \in Instances
  BY <1>2
<1>4. i \in Instances /\ i.cmds # Nil /\ i.status = lb.status
  BY <1>2, <1>3 DEF Instances, NONE, ACCEPTED, COMMITTED, EXECUTED
<1>5. u = Put(n, id, i)
  <2>1. [n.inst EXCEPT ![id] = i] = With(n.inst, id, i)
    BY <1>2 DEF With
  <2>2. u = [n EXCEPT !.inst = [n.inst EXCEPT ![id] = i]]
    BY <1>2
  <2> HIDE DEF i, u
  <2> QED
    BY <2>1, <2>2 DEF Put
<1>6. n.inst[id].status # EXECUTED /\ i.status # EXECUTED
  BY <1>4 DEF PREACCEPTED, ACCEPTED, COMMITTED, EXECUTED
<1> HIDE DEF i, u
<1>7. NodeTyped(u) /\ Rest(n, u, {"inst", "created"}) /\ u.inst = With(n.inst, id, i)
  BY <1>2, <1>4, <1>5, <1>6, PutIs
<1>8. u.created = n.created
  BY <1>2 DEF Fields, u
<1>9. id \in DOMAIN u.inst
  BY <1>7 DEF With
<1>10. NodeTyped(t) /\ Rest(u, t, {"lb"}) /\ t.lb = With(u.lb, id, lb)
  BY <1>7, <1>9, PutLbIs
<1> HIDE DEF t
<1> QED
  BY <1>1, <1>7, <1>8, <1>10 DEF Rest, Fields, i

\* then the attributes.
LEMMA AttributesTakenIs ==
  ASSUME InGroup, NEW n, NodeTyped(n), NEW id \in DOMAIN n.inst, NEW lb \in Leaders, lb.ballot # -1
  PROVE  LET t == AttributesTaken(n, id, lb)
         IN  /\ NodeTyped(t) /\ Rest(n, t, {"inst"}) /\ DOMAIN t.inst = DOMAIN n.inst
             /\ SameInstance(lb, t.inst[id]) /\ t.inst[id].bal = lb.ballot
             /\ t.inst[id].vbal = n.inst[id].vbal /\ t.inst[id].status = n.inst[id].status
             /\ \A e \in DOMAIN n.inst \ {id} : t.inst[e] = n.inst[e]
<1> DEFINE i == [n.inst[id] EXCEPT !.bal = lb.ballot, !.cmds = lb.cmds, !.deps = lb.deps, !.seq = lb.seq]
           t == AttributesTaken(n, id, lb)
<1>1. n.inst \in [DOMAIN n.inst -> Instances] /\ DOMAIN n = Fields /\ id \in Ids
      /\ Number(id) <= n.crtInstance[Row(id)]
  BY DEF NodeTyped, FieldsTyped, IsMap, Linked
<1>2. n.inst[id] \in Instances
  BY <1>1
<1>3. i \in Instances /\ i.cmds # Nil /\ i.status = n.inst[id].status /\ i.vbal = n.inst[id].vbal
      /\ SameInstance(lb, i) /\ i.bal = lb.ballot
  BY <1>2, CommandIs DEF Instances, Leaders, SameInstance
<1>4. t = Put(n, id, i)
  <2>1. [n.inst EXCEPT ![id] = i] = With(n.inst, id, i)
    BY <1>1 DEF With
  <2>2. t = [n EXCEPT !.inst = [n.inst EXCEPT ![id] = i]]
    BY <1>1 DEF AttributesTaken
  <2> HIDE DEF i, t
  <2> QED
    BY <2>1, <2>2 DEF Put
<1>5. t.created = n.created
  BY <1>1 DEF Fields, AttributesTaken
<1> HIDE DEF i, t
<1>6. NodeTyped(t) /\ Rest(n, t, {"inst", "created"}) /\ t.inst = With(n.inst, id, i)
  BY <1>1, <1>3, <1>4, PutIs
<1>7. Rest(n, t, {"inst"})
  BY <1>5, <1>6 DEF Rest, Fields
<1>8. DOMAIN t.inst = DOMAIN n.inst /\ t.inst[id] = i /\ \A e \in DOMAIN n.inst \ {id} : t.inst[e] = n.inst[e]
  BY <1>6 DEF With
<1> QED
  BY <1>3, <1>6, <1>7, <1>8 DEF t

(***************************************************************************)
(* Sequences.                                                              *)
(***************************************************************************)
LEMMA Appended ==
  ASSUME NEW S, NEW s \in Seq(S), NEW e \in S
  PROVE  /\ Append(s, e) \in Seq(S) /\ Len(Append(s, e)) = Len(s) + 1
         /\ \A i \in 1 .. Len(s) : Append(s, e)[i] = s[i]
         /\ Append(s, e)[Len(s) + 1] = e
         /\ ToSet(Append(s, e)) = ToSet(s) \cup {e}
         /\ e \notin ToSet(s) /\ IsInjective(s) => IsInjective(Append(s, e))
<1> DEFINE x == Append(s, e)
<1>1. /\ x \in Seq(S) /\ Len(x) = Len(s) + 1
      /\ \A i \in 1 .. Len(s) : x[i] = s[i]
      /\ x[Len(s) + 1] = e
      /\ Len(s) \in Nat /\ DOMAIN s = 1 .. Len(s) /\ DOMAIN x = 1 .. Len(x)
  BY AppendProperties, LenProperties
<1> HIDE DEF x
<1>2. \A i \in DOMAIN x : i \in DOMAIN s \/ i = Len(s) + 1
  BY <1>1
<1>3. ToSet(x) = ToSet(s) \cup {e}
  BY <1>1, <1>2 DEF ToSet
<1>4. e \notin ToSet(s) /\ IsInjective(s) => IsInjective(x)
  BY <1>1, <1>2 DEF ToSet, IsInjective
<1> QED
  BY <1>1, <1>3, <1>4 DEF x

\* The first entries of a sequence.
LEMMA Cut ==
  ASSUME NEW S, NEW s \in Seq(S), NEW k \in 0 .. Len(s)
  PROVE  /\ SubSeq(s, 1, k) \in Seq(S) /\ Len(SubSeq(s, 1, k)) = k
         /\ \A i \in 1 .. k : SubSeq(s, 1, k)[i] = s[i]
         /\ ToSet(SubSeq(s, 1, k)) = {s[i] : i \in 1 .. k}
         /\ IsInjective(s) => IsInjective(SubSeq(s, 1, k))
<1> DEFINE x == SubSeq(s, 1, k)
<1>1. Len(s) \in Nat /\ DOMAIN s = 1 .. Len(s) /\ \A i \in 1 .. Len(s) : s[i] \in S
  BY LenProperties, ElementOfSeq
<1>2. k \in Nat /\ k <= Len(s) /\ \A i \in 1 .. k : s[i] \in S
  BY <1>1
<1>3. /\ x \in Seq(S)
      /\ Len(x) = IF 1 <= k THEN k - 1 + 1 ELSE 0
      /\ \A i \in 1 .. k - 1 + 1 : x[i] = s[1 + i - 1]
  BY <1>2, SubSeqProperties
<1> HIDE DEF x
<1>4. Len(x) = k /\ \A i \in 1 .. k : x[i] = s[i]
  BY <1>2, <1>3
<1>5. DOMAIN x = 1 .. k
  BY <1>3, <1>4, LenProperties
<1>6. ToSet(x) = {s[i] : i \in 1 .. k}
  BY <1>4, <1>5 DEF ToSet
<1>7. IsInjective(s) => IsInjective(x)
  <2>1. \A i \in 1 .. k : i \in DOMAIN s
    BY <1>1, <1>2
  <2> QED
    BY <1>4, <1>5, <2>1 DEF IsInjective
<1> QED
  BY <1>3, <1>4, <1>6, <1>7 DEF x

\* Two sequences, one after the other.
LEMMA Joined ==
  ASSUME NEW S, NEW s \in Seq(S), NEW t \in Seq(S)
  PROVE  /\ s \o t \in Seq(S) /\ ToSet(s \o t) = ToSet(s) \cup ToSet(t)
         /\ IsPrefix(s, s \o t)
         /\ IsInjective(s) /\ IsInjective(t) /\ ToSet(s) \cap ToSet(t) = {} => IsInjective(s \o t)
<1> DEFINE x == s \o t
<1>1. /\ x \in Seq(S) /\ Len(x) = Len(s) + Len(t) /\ Len(s) \in Nat /\ Len(t) \in Nat
      /\ \A i \in 1 .. Len(s) + Len(t) : x[i] = IF i <= Len(s) THEN s[i] ELSE t[i - Len(s)]
      /\ DOMAIN s = 1 .. Len(s) /\ DOMAIN t = 1 .. Len(t) /\ DOMAIN x = 1 .. Len(x)
  BY ConcatProperties, LenProperties
<1> HIDE DEF x
<1>2. \A i \in DOMAIN s : i \in DOMAIN x /\ x[i] = s[i]
  BY <1>1
<1>3. \A i \in DOMAIN t : i + Len(s) \in DOMAIN x /\ x[i + Len(s)] = t[i]
  BY <1>1
<1>4. \A i \in DOMAIN x : (i \in DOMAIN s /\ x[i] = s[i]) \/ (i - Len(s) \in DOMAIN t /\ x[i] = t[i - Len(s)] /\ i > Len(s))
  BY <1>1
<1>5. ToSet(x) = ToSet(s) \cup ToSet(t)
  BY <1>2, <1>3, <1>4 DEF ToSet
<1>6. SubSeq(x, 1, Len(s)) = SubSeq(s, 1, Len(s))
  <2>1. Len(s) \in 0 .. Len(s) /\ Len(s) \in 0 .. Len(x)
    BY <1>1
  <2>2. /\ SubSeq(x, 1, Len(s)) \in Seq(S) /\ Len(SubSeq(x, 1, Len(s))) = Len(s)
        /\ \A i \in 1 .. Len(s) : SubSeq(x, 1, Len(s))[i] = x[i]
    BY <1>1, <2>1, Cut
  <2>3. /\ SubSeq(s, 1, Len(s)) \in Seq(S) /\ Len(SubSeq(s, 1, Len(s))) = Len(s)
        /\ \A i \in 1 .. Len(s) : SubSeq(s, 1, Len(s))[i] = s[i]
    BY <1>1, <2>1, Cut
  <2>4. \A i \in 1 .. Len(s) : x[i] = s[i]
    BY <1>1, <1>2
  <2> QED
    BY <2>2, <2>3, <2>4, SeqEqual
<1>7. IsPrefix(s, x)
  BY <1>1, <1>6 DEF IsPrefix
<1>8. ASSUME IsInjective(s), IsInjective(t), ToSet(s) \cap ToSet(t) = {} PROVE IsInjective(x)
  <2> SUFFICES ASSUME NEW i \in DOMAIN x, NEW j \in DOMAIN x, x[i] = x[j] PROVE i = j
    BY DEF IsInjective
  <2>1. CASE i \in DOMAIN s /\ x[i] = s[i] /\ j \in DOMAIN s /\ x[j] = s[j]
    BY <1>8, <2>1 DEF IsInjective
  <2>2. CASE /\ i - Len(s) \in DOMAIN t /\ x[i] = t[i - Len(s)]
             /\ j - Len(s) \in DOMAIN t /\ x[j] = t[j - Len(s)]
    <3>1. i - Len(s) = j - Len(s)
      BY <1>8, <2>2 DEF IsInjective
    <3> QED
      BY <1>1, <3>1
  <2>3. CASE i \in DOMAIN s /\ x[i] = s[i] /\ j - Len(s) \in DOMAIN t /\ x[j] = t[j - Len(s)]
    BY <1>8, <2>3 DEF ToSet
  <2>4. CASE j \in DOMAIN s /\ x[j] = s[j] /\ i - Len(s) \in DOMAIN t /\ x[i] = t[i - Len(s)]
    BY <1>8, <2>4 DEF ToSet
  <2> QED
    BY <1>4, <2>1, <2>2, <2>3, <2>4
<1> QED
  BY <1>1, <1>5, <1>7, <1>8 DEF x

\* Where a value is in a sequence that has it once.
LEMMA IndexInIs ==
  ASSUME NEW S, NEW s \in Seq(S), IsInjective(s), NEW v \in ToSet(s)
  PROVE  /\ IndexIn(s, v) \in 1 .. Len(s) /\ s[IndexIn(s, v)] = v
         /\ \A i \in 1 .. Len(s) : s[i] = v => i = IndexIn(s, v)
<1> DEFINE I == {i \in 1 .. Len(s) : s[i] = v}
<1>1. Len(s) \in Nat /\ DOMAIN s = 1 .. Len(s)
  BY LenProperties
<1>2. PICK p \in 1 .. Len(s) : s[p] = v
  BY <1>1 DEF ToSet
<1>3. I = {p}
  BY <1>1, <1>2 DEF IsInjective
<1>4. IndexIn(s, v) = IF I # {} THEN Min(I) ELSE 0
  BY DEF IndexIn, SelectInSeq
<1>5. Min({p}) = p
  <2>1. p \in Int /\ {p} = {p, p}
    BY <1>1
  <2> QED
    BY <2>1, MinOfTwo
<1> HIDE DEF I
<1>6. IndexIn(s, v) = p
  BY <1>3, <1>4, <1>5
<1> QED
  BY <1>1, <1>2, <1>6 DEF IsInjective

\* What a sequence contains is what is in its range.
LEMMA ContainsIs ==
  ASSUME NEW S, NEW s \in Seq(S), NEW e
  PROVE  Contains(s, e) <=> e \in ToSet(s)
<1>1. DOMAIN s = 1 .. Len(s)
  BY LenProperties
<1> QED
  BY <1>1 DEF Contains, ToSet

(***************************************************************************)
(* A component in its order.                                               *)
(***************************************************************************)
\* The instances of a replica are in a strict total order.
LEMMA LessIs ==
  ASSUME InGroup, NEW n, NodeTyped(n)
  PROVE  \A a, b, c \in DOMAIN n.inst :
           /\ a # b => Less(n, a, b) \/ Less(n, b, a)
           /\ Less(n, a, b) /\ Less(n, b, c) => Less(n, a, c)
           /\ ~Less(n, a, a)
<1>1. \A a \in DOMAIN n.inst : n.inst[a].seq \in Int /\ Row(a) \in Int /\ n.created[a] \in Int
  <2> SUFFICES ASSUME NEW a \in DOMAIN n.inst
               PROVE  n.inst[a].seq \in Int /\ Row(a) \in Int /\ n.created[a] \in Int
    OBVIOUS
  <2>1. n.inst[a] \in Instances /\ a \in Ids /\ n.created[a] \in Nat
    BY DEF NodeTyped, FieldsTyped, Timed, IsMap
  <2>2. Row(a) \in Int
    BY <2>1, GroupIs, IdIs
  <2> QED
    BY <2>1, <2>2 DEF Instances
<1>2. \A a, b \in DOMAIN n.inst : Row(a) = Row(b) /\ n.created[a] = n.created[b] => a = b
  BY DEF NodeTyped, Timed
<1>3. ASSUME NEW a \in DOMAIN n.inst, NEW b \in DOMAIN n.inst, a # b
      PROVE  Less(n, a, b) \/ Less(n, b, a)
  BY <1>1, <1>2, <1>3 DEF Less
<1>4. ASSUME NEW a \in DOMAIN n.inst, NEW b \in DOMAIN n.inst, NEW c \in DOMAIN n.inst,
             Less(n, a, b), Less(n, b, c)
      PROVE  Less(n, a, c)
  BY <1>1, <1>4 DEF Less
<1>5. ASSUME NEW a \in DOMAIN n.inst PROVE ~Less(n, a, a)
  BY <1>1 DEF Less
<1> QED
  BY <1>3, <1>4, <1>5

\* Sorting a set of instances by rank gives each once.
Ranking(n, nodes) ==
  [i \in 1 .. Cardinality(nodes) |-> CHOOSE a \in nodes : Cardinality({b \in nodes : Less(n, b, a)}) = i - 1]

\* A ranking of instances has each of them once.
LEMMA Ranked ==
  ASSUME InGroup, NEW n, NodeTyped(n), NEW nodes \in SUBSET (DOMAIN n.inst)
  PROVE  /\ Ranking(n, nodes) \in Seq(nodes) /\ IsInjective(Ranking(n, nodes))
         /\ ToSet(Ranking(n, nodes)) = nodes
<1> DEFINE K == Cardinality(nodes)
           Below(a) == {b \in nodes : Less(n, b, a)}
           rank == [a \in nodes |-> Cardinality(Below(a))]
           c == Ranking(n, nodes)
<1>0. c = [i \in 1 .. K |-> CHOOSE a \in nodes : Cardinality(Below(a)) = i - 1]
  BY DEF Ranking
<1> HIDE DEF c
<1>1. IsFiniteSet(nodes)
  BY FS_Subset DEF NodeTyped, Timed
<1>2. K \in Nat
  BY <1>1, FS_CardinalityType
<1>3. \A a \in nodes : IsFiniteSet(Below(a)) /\ Cardinality(Below(a)) \in Nat
  BY <1>1, FS_Subset, FS_CardinalityType
<1>4. ASSUME NEW a \in nodes, NEW b \in nodes, Less(n, a, b)
      PROVE  Cardinality(Below(a)) < Cardinality(Below(b))
  <2>1. Below(a) \subseteq Below(b) /\ a \in Below(b) /\ a \notin Below(a)
    BY <1>4, LessIs
  <2>2. Below(a) # Below(b)
    BY <2>1
  <2> HIDE DEF Below
  <2> QED
    BY <1>3, <2>1, <2>2, FS_Subset
<1>5. ASSUME NEW a \in nodes PROVE Cardinality(Below(a)) < K
  <2>1. Below(a) \subseteq nodes /\ a \notin Below(a)
    BY LessIs
  <2>2. Below(a) # nodes
    BY <2>1
  <2> DEFINE B == Below(a)
  <2> HIDE DEF Below, B
  <2>3. B \in SUBSET nodes /\ B # nodes
    BY <2>1, <2>2 DEF B
  <2>4. Cardinality(B) < Cardinality(nodes)
    <3>1. Cardinality(B) <= Cardinality(nodes) /\ Cardinality(nodes) # Cardinality(B) /\ IsFiniteSet(B)
      BY <1>1, <2>3, FS_Subset
    <3>2. Cardinality(B) \in Nat /\ Cardinality(nodes) \in Nat
      BY <1>1, <3>1, FS_CardinalityType
    <3> QED
      BY <3>1, <3>2
  <2> QED
    BY <2>4 DEF B
<1> DEFINE N == 0 .. (K - 1)
<1>6. rank \in Injection(nodes, N)
  <2>1. rank \in [nodes -> N]
    BY <1>2, <1>3, <1>5
  <2>2. ASSUME NEW a \in nodes, NEW b \in nodes, rank[a] = rank[b] PROVE a = b
    <3>1. \A x \in nodes : rank[x] = Cardinality(Below(x)) /\ rank[x] \in Nat
      BY <1>3
    <3> HIDE DEF rank, Below
    <3>2. \A x, y \in nodes : Less(n, x, y) => rank[x] < rank[y]
      BY <1>4, <3>1
    <3>3. a # b => Less(n, a, b) \/ Less(n, b, a)
      BY LessIs
    <3> QED
      BY <2>2, <3>1, <3>2, <3>3
  <2> QED
    BY <2>1, <2>2 DEF Injection, IsInjective
<1>7. IsFiniteSet(N) /\ Cardinality(N) = K
  BY <1>2, BelowIs
<1>8. rank \in Surjection(nodes, N)
  BY <1>1, <1>6, <1>7, FS_Injection
<1>9. \A i \in N : \E a \in nodes : Cardinality(Below(a)) = i
  BY <1>8 DEF Surjection
<1>10. \A a, b \in nodes : Cardinality(Below(a)) = Cardinality(Below(b)) => a = b
  BY <1>6 DEF Injection, IsInjective
<1> HIDE DEF Below, rank
<1>11. \A i \in 1 .. K : c[i] \in nodes /\ Cardinality(Below(c[i])) = i - 1
  <2> SUFFICES ASSUME NEW i \in 1 .. K PROVE c[i] \in nodes /\ Cardinality(Below(c[i])) = i - 1
    OBVIOUS
  <2>1. i - 1 \in N
    BY <1>2
  <2>2. \E a \in nodes : Cardinality(Below(a)) = i - 1
    BY <1>9, <2>1
  <2> QED
    BY <1>0, <2>2
<1>12. c \in [1 .. K -> nodes]
  <2>1. c = [i \in 1 .. K |-> c[i]]
    BY <1>0
  <2> QED
    BY <1>11, <2>1
<1> HIDE DEF K
<1>13. c \in Seq(nodes) /\ DOMAIN c = 1 .. K
  BY <1>2, <1>12
<1>14. IsInjective(c)
  <2> SUFFICES ASSUME NEW i \in 1 .. K, NEW j \in 1 .. K, c[i] = c[j] PROVE i = j
    BY <1>13 DEF IsInjective
  <2>1. i - 1 = j - 1 /\ i \in Int /\ j \in Int
    BY <1>2, <1>11
  <2> QED
    BY <2>1
<1>15. ToSet(c) = nodes
  <2>1. ASSUME NEW a \in nodes PROVE a \in ToSet(c)
    <3>1. Cardinality(Below(a)) + 1 \in 1 .. K
      BY <1>2, <1>3, <1>5
    <3>2. Cardinality(Below(c[Cardinality(Below(a)) + 1])) = Cardinality(Below(a))
      BY <1>3, <1>11, <3>1
    <3>3. c[Cardinality(Below(a)) + 1] = a
      BY <1>10, <1>11, <3>1, <3>2
    <3> QED
      BY <1>13, <3>1, <3>3 DEF ToSet
  <2> QED
    BY <1>12, <1>13, <2>1 DEF ToSet
<1> QED
  BY <1>13, <1>14, <1>15 DEF c

\* A component, sorted, has every instance of the stack from its root on once.
LEMMA ComponentIs ==
  ASSUME InGroup, NEW n, NodeTyped(n), NEW s, NEW v \in ToSet(s.stack),
         s.stack \in Seq(DOMAIN n.inst), IsInjective(s.stack)
  PROVE  /\ Component(n, s, v) \in Seq(DOMAIN n.inst) /\ IsInjective(Component(n, s, v))
         /\ ToSet(Component(n, s, v)) = {s.stack[i] : i \in IndexIn(s.stack, v) .. Len(s.stack)}
<1> DEFINE p == IndexIn(s.stack, v)
           x == SubSeq(s.stack, p, Len(s.stack))
           nodes == ToSet(x)
<1>1. p \in 1 .. Len(s.stack) /\ Len(s.stack) \in Nat /\ \A i \in 1 .. Len(s.stack) : s.stack[i] \in DOMAIN n.inst
  BY IndexInIs, LenProperties, ElementOfSeq
<1> HIDE DEF p
<1>2. /\ x \in Seq(DOMAIN n.inst)
      /\ Len(x) = Len(s.stack) - p + 1
      /\ \A i \in 1 .. Len(s.stack) - p + 1 : x[i] = s.stack[p + i - 1]
  <2> DEFINE t == s.stack
             D == DOMAIN n.inst
             k == Len(t)
  <2>1. p \in Int /\ k \in Int /\ p <= k /\ \A i \in p .. k : t[i] \in D
    BY <1>1
  <2> HIDE DEF t, D, k
  <2>2. /\ SubSeq(t, p, k) \in Seq(D)
        /\ Len(SubSeq(t, p, k)) = IF p <= k THEN k - p + 1 ELSE 0
        /\ \A i \in 1 .. k - p + 1 : SubSeq(t, p, k)[i] = t[p + i - 1]
    BY <2>1, SubSeqProperties
  <2> QED
    BY <2>1, <2>2 DEF t, D, k
<1>3. DOMAIN x = 1 .. Len(x)
  BY <1>2, LenProperties
<1> HIDE DEF x
<1>4. nodes = {s.stack[i] : i \in p .. Len(s.stack)}
  <2>1. ASSUME NEW i \in p .. Len(s.stack) PROVE s.stack[i] \in nodes
    <3>1. i - p + 1 \in DOMAIN x /\ p + (i - p + 1) - 1 = i
      BY <1>1, <1>2, <1>3
    <3>2. x[i - p + 1] = s.stack[i]
      BY <1>2, <1>3, <3>1
    <3> QED
      BY <3>1, <3>2 DEF ToSet
  <2>2. ASSUME NEW e \in nodes PROVE e \in {s.stack[i] : i \in p .. Len(s.stack)}
    <3>1. PICK i \in DOMAIN x : e = x[i]
      BY DEF ToSet
    <3>2. p + i - 1 \in p .. Len(s.stack) /\ x[i] = s.stack[p + i - 1]
      BY <1>1, <1>2, <1>3
    <3> QED
      BY <3>1, <3>2
  <2> QED
    BY <2>1, <2>2
<1>5. nodes \in SUBSET (DOMAIN n.inst)
  BY <1>1, <1>4
<1>6. Component(n, s, v) = Ranking(n, nodes)
  BY DEF Component, Ranking, p, x
<1> HIDE DEF nodes
<1>7. Component(n, s, v) \in Seq(nodes) /\ IsInjective(Component(n, s, v)) /\ ToSet(Component(n, s, v)) = nodes
  BY <1>5, <1>6, Ranked
<1>8. Component(n, s, v) \in Seq(DOMAIN n.inst)
  BY <1>5, <1>7, SeqMonotonic
<1> QED
  BY <1>4, <1>7, <1>8 DEF p

(***************************************************************************)
(* The search for strongly connected components.                           *)
(***************************************************************************)
Ready(n) == {id \in DOMAIN n.inst : n.inst[id].status = COMMITTED}

Maps == UNION {[D -> Nat] : D \in SUBSET Ids}
Calls == [of : Ids, left : SUBSET Ids]

Searches(n) ==
  [count : Nat, index : Maps, lowlink : Maps, stack : Seq(Ready(n)), done : Seq(Ready(n)), calls : Seq(Calls)]

Apart(s) == IsInjective(s.stack) /\ IsInjective(s.done) /\ ToSet(s.stack) \cap ToSet(s.done) = {}

Indexed(s) ==
  /\ DOMAIN s.index = ToSet(s.stack) \cup ToSet(s.done) /\ DOMAIN s.lowlink = DOMAIN s.index
  /\ \A x \in DOMAIN s.index : 1 <= s.lowlink[x] /\ s.lowlink[x] <= s.index[x]
  /\ s.count >= 1

\* The calls are of instances on the stack, a callee's above its caller's.
Nested(s) ==
  \A k \in 1 .. Len(s.calls) :
    /\ s.calls[k].of \in ToSet(s.stack)
    /\ \A j \in 1 .. Len(s.calls) :
         j < k => IndexIn(s.stack, s.calls[j].of) < IndexIn(s.stack, s.calls[k].of)

Tree(n, s) == s \in Searches(n) /\ Apart(s) /\ Indexed(s) /\ Nested(s)

\* A map from instances to numbers, as it is and as a set of functions.
LEMMA MapsIs == \A f : f \in Maps <=> IsMap(f, Ids, Nat)
BY DEF Maps, IsMap

\* What may be executed is in the log, and depends on instances.
LEMMA ReadyIs ==
  ASSUME InGroup, NEW n, NodeTyped(n)
  PROVE  Ready(n) \subseteq Ids /\ Ready(n) \subseteq DOMAIN n.inst /\ \A id \in DOMAIN n.inst : DepsOf(n, id) \subseteq Ids
<1>1. Ready(n) \subseteq DOMAIN n.inst /\ DOMAIN n.inst \subseteq Ids
  BY DEF Ready, NodeTyped, FieldsTyped, IsMap
<1>2. ASSUME NEW id \in DOMAIN n.inst PROVE DepsOf(n, id) \subseteq Ids
  <2>1. ASSUME NEW q \in Replicas, NEW i \in 0 .. n.inst[id].deps[q] PROVE <<q, i>> \in Ids
    <3>1. n.inst[id] \in Instances
      BY DEF NodeTyped, FieldsTyped, IsMap
    <3>2. n.inst[id].deps \in Dependencies
      BY <3>1 DEF Instances
    <3>3. n.inst[id].deps[q] \in Int
      BY <3>2 DEF Dependencies
    <3> QED
      BY <3>3 DEF Ids
  <2> QED
    BY <2>1 DEF DepsOf
<1> QED
  BY <1>1, <1>2

\* What a search is made of.
LEMMA TreeIs ==
  ASSUME InGroup, NEW n, NodeTyped(n), NEW s, Tree(n, s)
  PROVE  /\ s.count \in Nat /\ IsMap(s.index, Ids, Nat) /\ IsMap(s.lowlink, Ids, Nat)
         /\ s.stack \in Seq(Ready(n)) /\ s.done \in Seq(Ready(n)) /\ s.calls \in Seq(Calls)
         /\ Len(s.stack) \in Nat /\ Len(s.calls) \in Nat /\ DOMAIN s.stack = 1 .. Len(s.stack)
         /\ ToSet(s.stack) \subseteq Ready(n) /\ ToSet(s.done) \subseteq Ready(n)
         /\ \A k \in 1 .. Len(s.calls) : s.calls[k] \in Calls
         /\ s.calls # <<>> => Len(s.calls) >= 1
<1>1. /\ s.count \in Nat /\ s.index \in Maps /\ s.lowlink \in Maps
      /\ s.stack \in Seq(Ready(n)) /\ s.done \in Seq(Ready(n)) /\ s.calls \in Seq(Calls)
  BY DEF Tree, Searches
<1>2. \A x \in Seq(Ready(n)) : ToSet(x) \subseteq Ready(n)
  BY DEF ToSet
<1> QED
  BY <1>1, <1>2, MapsIs, LenProperties, ElementOfSeq, EmptySeq

\* strongconnect is called for an instance that has no index yet.
LEMMA CalledTree ==
  ASSUME InGroup, NEW n, NodeTyped(n), NEW s, Tree(n, s), NEW w \in Ready(n), w \notin DOMAIN s.index
  PROVE  LET t == Called(n, s, w)
         IN  /\ Tree(n, t)
             /\ t.index = With(s.index, w, s.count) /\ t.stack = Append(s.stack, w) /\ t.done = s.done
             /\ t.calls = Append(s.calls, [of |-> w, left |-> DepsOf(n, w)])
<1> DEFINE t == Called(n, s, w)
           call == [of |-> w, left |-> DepsOf(n, w)]
           f == With(s.index, w, s.count)
           g == With(s.lowlink, w, s.count)
           st == Append(s.stack, w)
           ca == Append(s.calls, call)
<1>1. /\ s.count \in Nat /\ IsMap(s.index, Ids, Nat) /\ IsMap(s.lowlink, Ids, Nat)
      /\ s.stack \in Seq(Ready(n)) /\ s.done \in Seq(Ready(n)) /\ s.calls \in Seq(Calls)
      /\ Len(s.stack) \in Nat /\ Len(s.calls) \in Nat
  BY TreeIs
<1>2. w \in Ids /\ call \in Calls
  BY ReadyIs DEF Calls
<1>3. /\ t = [s EXCEPT !.count = s.count + 1, !.index = f, !.lowlink = g, !.stack = st, !.calls = ca]
      /\ s \in Searches(n)
  BY DEF Called, Tree
<1>4. f \in Maps /\ g \in Maps
  BY <1>1, <1>2, WithMaps, MapsIs
<1>5. /\ st \in Seq(Ready(n)) /\ Len(st) = Len(s.stack) + 1 /\ ToSet(st) = ToSet(s.stack) \cup {w}
      /\ \A i \in 1 .. Len(s.stack) : st[i] = s.stack[i]
      /\ st[Len(s.stack) + 1] = w
      /\ w \notin ToSet(s.stack) /\ IsInjective(s.stack) => IsInjective(st)
  BY <1>1, Appended
<1>6. /\ ca \in Seq(Calls) /\ Len(ca) = Len(s.calls) + 1
      /\ \A k \in 1 .. Len(s.calls) : ca[k] = s.calls[k]
      /\ ca[Len(s.calls) + 1] = call
  <2> HIDE DEF call
  <2> QED
    BY <1>1, <1>2, Appended
<1>7. /\ DOMAIN f = DOMAIN s.index \cup {w} /\ f[w] = s.count /\ \A x \in DOMAIN s.index : x # w => f[x] = s.index[x]
      /\ DOMAIN g = DOMAIN s.lowlink \cup {w} /\ g[w] = s.count /\ \A x \in DOMAIN s.lowlink : x # w => g[x] = s.lowlink[x]
  BY DEF With
<1> HIDE DEF t, f, g, st, ca
<1>8. /\ t \in Searches(n) /\ t.count = s.count + 1 /\ t.index = f /\ t.lowlink = g /\ t.stack = st /\ t.calls = ca
      /\ t.done = s.done
  <2> DEFINE k == s.count + 1
  <2>1. k \in Nat /\ t = [s EXCEPT !.count = k, !.index = f, !.lowlink = g, !.stack = st, !.calls = ca]
    BY <1>1, <1>3
  <2> HIDE DEF k
  <2>2. /\ t \in Searches(n) /\ t.count = k /\ t.index = f /\ t.lowlink = g /\ t.stack = st /\ t.calls = ca
        /\ t.done = s.done
    BY <1>3, <1>4, <1>5, <1>6, <2>1 DEF Searches
  <2> QED
    BY <2>2 DEF k
<1>9. w \notin ToSet(s.stack) /\ w \notin ToSet(s.done)
  BY DEF Tree, Indexed
<1>10. Apart(t)
  BY <1>5, <1>8, <1>9 DEF Tree, Apart
<1>11. Indexed(t)
  BY <1>1, <1>5, <1>7, <1>8 DEF Tree, Indexed
<1>12. \A x \in ToSet(s.stack) : IndexIn(st, x) = IndexIn(s.stack, x) /\ IndexIn(s.stack, x) <= Len(s.stack)
  <2> SUFFICES ASSUME NEW x \in ToSet(s.stack)
               PROVE  IndexIn(st, x) = IndexIn(s.stack, x) /\ IndexIn(s.stack, x) <= Len(s.stack)
    OBVIOUS
  <2>1. IndexIn(s.stack, x) \in 1 .. Len(s.stack) /\ s.stack[IndexIn(s.stack, x)] = x
    BY <1>1, IndexInIs DEF Tree, Apart
  <2>2. IndexIn(s.stack, x) \in 1 .. Len(st) /\ st[IndexIn(s.stack, x)] = x
    BY <1>1, <1>5, <2>1
  <2>3. IsInjective(st) /\ x \in ToSet(st)
    BY <1>5, <1>8, <1>10 DEF Apart
  <2>4. IndexIn(st, x) = IndexIn(s.stack, x)
    BY <1>5, <2>2, <2>3, IndexInIs
  <2> QED
    BY <1>1, <2>1, <2>4
<1>13. IndexIn(st, w) = Len(s.stack) + 1
  <2>1. IsInjective(st) /\ w \in ToSet(st) /\ Len(s.stack) + 1 \in 1 .. Len(st)
    BY <1>1, <1>5, <1>8, <1>10 DEF Apart
  <2> QED
    BY <1>5, <2>1, IndexInIs
<1>14. Nested(t)
  <2> SUFFICES ASSUME NEW k \in 1 .. Len(ca)
               PROVE  /\ ca[k].of \in ToSet(st)
                      /\ \A j \in 1 .. Len(ca) : j < k => IndexIn(st, ca[j].of) < IndexIn(st, ca[k].of)
    BY <1>8 DEF Nested
  <2>1. \A j \in 1 .. Len(s.calls) : s.calls[j].of \in ToSet(s.stack)
    BY DEF Tree, Nested
  <2>2. CASE k \in 1 .. Len(s.calls)
    <3>1. ca[k].of \in ToSet(s.stack) /\ ca[k] = s.calls[k]
      BY <1>6, <2>1, <2>2
    <3>2. ASSUME NEW j \in 1 .. Len(ca), j < k PROVE IndexIn(st, ca[j].of) < IndexIn(st, ca[k].of)
      <4>1. j \in 1 .. Len(s.calls) /\ ca[j] = s.calls[j]
        BY <1>1, <1>6, <2>2, <3>2
      <4>2. IndexIn(s.stack, s.calls[j].of) < IndexIn(s.stack, s.calls[k].of)
        BY <2>2, <3>2, <4>1 DEF Tree, Nested
      <4> QED
        BY <1>12, <2>1, <2>2, <3>1, <4>1, <4>2
    <3> QED
      BY <1>5, <3>1, <3>2
  <2>3. CASE k = Len(s.calls) + 1
    <3>1. ca[k].of = w
      BY <1>6, <2>3
    <3>2. ASSUME NEW j \in 1 .. Len(ca), j < k PROVE IndexIn(st, ca[j].of) < IndexIn(st, ca[k].of)
      <4>1. j \in 1 .. Len(s.calls) /\ ca[j] = s.calls[j]
        BY <1>1, <1>6, <2>3, <3>2
      <4>2. IndexIn(st, ca[j].of) <= Len(s.stack) /\ IndexIn(st, ca[j].of) \in Int
        <5>1. s.calls[j].of \in ToSet(s.stack)
          BY <2>1, <4>1
        <5>2. IndexIn(s.stack, s.calls[j].of) \in 1 .. Len(s.stack)
          BY <1>1, <5>1, IndexInIs DEF Tree, Apart
        <5> QED
          BY <1>1, <1>12, <4>1, <5>1, <5>2
      <4> QED
        BY <1>1, <1>13, <3>1, <4>2
    <3> QED
      BY <1>5, <3>1, <3>2
  <2> QED
    BY <1>1, <1>6, <2>2, <2>3
<1> QED
  BY <1>8, <1>10, <1>11, <1>14 DEF Tree, t, f, st, ca

\* The search comes from an instance: when all it can reach is committed, it ends with that.
Closed(n) ==
  \A id \in DOMAIN n.inst : n.inst[id].status >= COMMITTED /\ DepsOf(n, id) \subseteq DOMAIN n.inst

Rooted(n, root, s) ==
  /\ root \in DOMAIN s.index /\ s.index[root] = 1
  /\ s.calls # <<>> => s.calls[1].of = root
  /\ Closed(n) => /\ s.calls = <<>> => root \in ToSet(s.done)
                  /\ \A k \in 1 .. Len(s.calls) : s.calls[k].left \subseteq DOMAIN n.inst

Proper(n, root, s) == Tree(n, s) /\ Rooted(n, root, s)

\* The call that runs is that of an instance on the stack.
LEMMA LastCall ==
  ASSUME InGroup, NEW n, NodeTyped(n), NEW s, Tree(n, s), s.calls # <<>>
  PROVE  /\ Len(s.calls) \in 1 .. Len(s.calls) /\ Last(s.calls) = s.calls[Len(s.calls)]
         /\ Last(s.calls) \in Calls /\ Last(s.calls).of \in ToSet(s.stack)
         /\ Last(s.calls).of \in Ready(n) /\ Last(s.calls).of \in DOMAIN s.index
<1>1. /\ Len(s.calls) \in Nat /\ Len(s.calls) >= 1 /\ ToSet(s.stack) \subseteq Ready(n)
      /\ \A k \in 1 .. Len(s.calls) : s.calls[k] \in Calls
  BY TreeIs
<1>2. Len(s.calls) \in 1 .. Len(s.calls) /\ Last(s.calls) = s.calls[Len(s.calls)]
  BY <1>1 DEF Last
<1>3. s.calls[Len(s.calls)].of \in ToSet(s.stack)
  BY <1>2 DEF Tree, Nested
<1> QED
  BY <1>1, <1>2, <1>3 DEF Tree, Indexed

\* A call that has looked at one more dependency is a call.
LEMMA LeftIs ==
  ASSUME NEW O, NEW L, NEW c \in [of : O, left : L], NEW l \in L
  PROVE  LET call == [of |-> c.of, left |-> l]
         IN  call \in [of : O, left : L] /\ [c EXCEPT !.left = l] = call /\ call.of = c.of /\ call.left = l
OBVIOUS

\* The last call looks at an instance.
LEMMA LookedTree ==
  ASSUME InGroup, NEW n, NodeTyped(n), NEW root, NEW s, Proper(n, root, s), s.calls # <<>>, NEW w
  PROVE  LET t == LookedAt(s, w)
         IN  /\ Proper(n, root, t) /\ t.index = s.index /\ t.stack = s.stack /\ t.done = s.done
             /\ Len(t.calls) = Len(s.calls) /\ t.calls # <<>>
             /\ \A k \in 1 .. Len(s.calls) :
                  /\ t.calls[k].of = s.calls[k].of
                  /\ k = Len(s.calls) => t.calls[k].left = s.calls[k].left \ {w}
                  /\ k # Len(s.calls) => t.calls[k].left = s.calls[k].left
<1> DEFINE t == LookedAt(s, w)
           K == Len(s.calls)
           call == [of |-> s.calls[K].of, left |-> s.calls[K].left \ {w}]
           ca == [s.calls EXCEPT ![K] = call]
<1> USE DEF Proper
<1>1. /\ s.calls \in Seq(Calls) /\ K \in Nat /\ K >= 1 /\ DOMAIN s.calls = 1 .. K
      /\ \A k \in 1 .. K : s.calls[k] \in Calls
  BY TreeIs
<1>2. s.calls[K] \in Calls
  BY <1>1
<1>3. /\ call \in Calls /\ [s.calls[K] EXCEPT !.left = @ \ {w}] = call
      /\ call.of = s.calls[K].of /\ call.left = s.calls[K].left \ {w}
  <2> DEFINE c == s.calls[K]
             l == c.left \ {w}
  <2>1. c \in Calls /\ call = [of |-> c.of, left |-> l] /\ l = s.calls[K].left \ {w}
    BY <1>2
  <2>2. l \in SUBSET Ids
    BY <1>2 DEF Calls
  <2> HIDE DEF c, call, l
  <2>3. call \in Calls /\ [c EXCEPT !.left = l] = call /\ call.of = c.of /\ call.left = l
    <3> DEFINE L == SUBSET Ids
    <3>1. c \in [of : Ids, left : L] /\ l \in L /\ Calls = [of : Ids, left : L]
      BY <2>1, <2>2 DEF Calls
    <3> HIDE DEF L
    <3>2. /\ [of |-> c.of, left |-> l] \in [of : Ids, left : L]
          /\ [c EXCEPT !.left = l] = [of |-> c.of, left |-> l]
          /\ [of |-> c.of, left |-> l].of = c.of /\ [of |-> c.of, left |-> l].left = l
      BY <3>1, LeftIs
    <3> QED
      BY <2>1, <3>1, <3>2
  <2> QED
    BY <2>1, <2>3 DEF c
<1>4. t = [s EXCEPT !.calls = ca] /\ s \in Searches(n)
  <2>1. t = [s EXCEPT !.calls = [s.calls EXCEPT ![K] = [s.calls[K] EXCEPT !.left = @ \ {w}]]]
    BY <1>1 DEF LookedAt, Tree, Searches
  <2> HIDE DEF call, t
  <2> QED
    BY <1>3, <2>1 DEF Tree
<1> HIDE DEF call
<1>5. /\ ca \in Seq(Calls) /\ Len(ca) = K /\ ca[K] = call /\ \A k \in 1 .. K : k # K => ca[k] = s.calls[k]
  BY <1>1, <1>3
<1> HIDE DEF t, ca, K
<1>6. /\ t \in Searches(n) /\ t.calls = ca /\ t.count = s.count /\ t.index = s.index /\ t.lowlink = s.lowlink
      /\ t.stack = s.stack /\ t.done = s.done
  BY <1>4, <1>5 DEF Searches
<1>7. \A k \in 1 .. K :
        /\ ca[k].of = s.calls[k].of
        /\ k = K => ca[k].left = s.calls[k].left \ {w}
        /\ k # K => ca[k].left = s.calls[k].left
  BY <1>3, <1>5
<1>8. Apart(t) /\ Indexed(t)
  BY <1>6 DEF Tree, Apart, Indexed
<1>9. Nested(t)
  BY <1>5, <1>6, <1>7 DEF Tree, Nested, K
<1>10. ca # <<>>
  BY <1>1, <1>5, EmptySeq
<1>11. Rooted(n, root, t)
  <2>1. root \in DOMAIN t.index /\ t.index[root] = 1 /\ t.calls[1].of = root /\ t.calls # <<>>
    <3>1. 1 \in 1 .. K
      BY <1>1
    <3>2. t.calls[1].of = s.calls[1].of
      BY <1>6, <1>7, <3>1
    <3> QED
      BY <1>6, <1>10, <3>2 DEF Rooted
  <2>2. ASSUME Closed(n), NEW k \in 1 .. Len(t.calls) PROVE t.calls[k].left \subseteq DOMAIN n.inst
    <3>1. s.calls[k].left \subseteq DOMAIN n.inst
      BY <1>5, <1>6, <2>2 DEF Rooted, K
    <3> QED
      BY <1>5, <1>6, <1>7, <2>2, <3>1
  <2> QED
    BY <2>1, <2>2 DEF Rooted
<1> QED
  BY <1>5, <1>6, <1>7, <1>8, <1>9, <1>10, <1>11 DEF Tree, t, K

\* A call lowers the link of an instance.
LEMMA LoweredTree ==
  ASSUME InGroup, NEW n, NodeTyped(n), NEW root, NEW s, Proper(n, root, s), NEW v \in DOMAIN s.index,
         NEW l \in Nat, l >= 1
  PROVE  LET t == Lowered(s, v, l)
         IN  Proper(n, root, t) /\ t.index = s.index /\ t.stack = s.stack /\ t.done = s.done /\ t.calls = s.calls
<1> DEFINE t == Lowered(s, v, l)
           m == Min({s.lowlink[v], l})
           g == [s.lowlink EXCEPT ![v] = m]
<1> USE DEF Proper
<1>1. /\ s \in Searches(n) /\ t = [s EXCEPT !.lowlink = g]
      /\ IsMap(s.index, Ids, Nat) /\ IsMap(s.lowlink, Ids, Nat) /\ DOMAIN s.lowlink = DOMAIN s.index
      /\ \A x \in DOMAIN s.index : 1 <= s.lowlink[x] /\ s.lowlink[x] <= s.index[x]
  BY TreeIs DEF Lowered, Tree, Searches, Indexed
<1>2. m \in Nat /\ 1 <= m /\ m <= s.lowlink[v]
  <2>1. s.lowlink[v] \in Nat /\ s.lowlink[v] >= 1
    BY <1>1 DEF IsMap
  <2> DEFINE x == s.lowlink[v]
  <2>2. x \in Nat /\ x >= 1 /\ m = Min({x, l}) /\ x \in Int /\ l \in Int
    BY <2>1
  <2> HIDE DEF x, m
  <2>3. m \in {x, l} /\ m <= x
    BY <2>2, MinOfTwo
  <2> QED
    BY <2>2, <2>3 DEF x
<1> HIDE DEF t, m
<1>3. g \in Maps /\ DOMAIN g = DOMAIN s.index /\ \A x \in DOMAIN s.index : 1 <= g[x] /\ g[x] <= s.index[x]
  <2>1. IsMap(g, Ids, Nat)
    BY <1>1, <1>2 DEF IsMap
  <2>2. \A x \in DOMAIN s.index : s.lowlink[x] \in Nat /\ s.index[x] \in Nat
    BY <1>1 DEF IsMap
  <2> QED
    BY <1>1, <1>2, <2>1, <2>2, MapsIs
<1> HIDE DEF g
<1>4. /\ t \in Searches(n) /\ t.calls = s.calls /\ t.count = s.count /\ t.index = s.index /\ t.lowlink = g
      /\ t.stack = s.stack /\ t.done = s.done
  BY <1>1, <1>3 DEF Searches
<1>5. Apart(t) /\ Indexed(t) /\ Nested(t) /\ Rooted(n, root, t)
  BY <1>3, <1>4 DEF Tree, Apart, Indexed, Nested, Rooted
<1> QED
  BY <1>4, <1>5 DEF Tree, t

\* The search ends at an instance that is not committed.
LEMMA StoppedTree ==
  ASSUME InGroup, NEW n, NodeTyped(n), NEW root, NEW s, Proper(n, root, s), ~Closed(n)
  PROVE  LET t == [s EXCEPT !.calls = <<>>]
         IN  Proper(n, root, t) /\ t.calls = <<>>
<1> DEFINE t == [s EXCEPT !.calls = <<>>]
<1> USE DEF Proper
<1>1. s \in Searches(n) /\ <<>> \in Seq(Calls) /\ Len(<<>>) = 0
  BY DEF Tree
<1>2. /\ t \in Searches(n) /\ t.calls = <<>> /\ t.count = s.count /\ t.index = s.index /\ t.lowlink = s.lowlink
      /\ t.stack = s.stack /\ t.done = s.done
  BY <1>1 DEF Searches
<1> HIDE DEF t
<1>3. Apart(t) /\ Indexed(t)
  BY <1>2 DEF Tree, Apart, Indexed
<1>4. Nested(t)
  BY <1>1, <1>2 DEF Nested
<1>5. Rooted(n, root, t)
  BY <1>2 DEF Rooted
<1> QED
  BY <1>2, <1>3, <1>4, <1>5 DEF Tree, t

\* The search of a call for an instance that has no index.
LEMMA CalledProper ==
  ASSUME InGroup, NEW n, NodeTyped(n), NEW root, NEW s, Proper(n, root, s), s.calls # <<>>,
         NEW w \in Ready(n), w \notin DOMAIN s.index
  PROVE  Proper(n, root, Called(n, s, w))
<1> DEFINE t == Called(n, s, w)
           call == [of |-> w, left |-> DepsOf(n, w)]
<1>1. /\ Tree(n, t) /\ t.index = With(s.index, w, s.count) /\ t.done = s.done /\ t.calls = Append(s.calls, call)
  BY CalledTree DEF Proper
<1>2. s.calls \in Seq(Calls) /\ Len(s.calls) \in Nat /\ Len(s.calls) >= 1
  BY TreeIs DEF Proper
<1>3. call \in Calls /\ (Closed(n) => call.left \subseteq DOMAIN n.inst)
  BY ReadyIs DEF Calls, Closed
<1> HIDE DEF call, t
<1>4. /\ Len(t.calls) = Len(s.calls) + 1 /\ t.calls[Len(s.calls) + 1] = call
      /\ \A k \in 1 .. Len(s.calls) : t.calls[k] = s.calls[k]
  BY <1>1, <1>2, <1>3, Appended
<1>5. root \in DOMAIN t.index /\ t.index[root] = 1
  BY <1>1 DEF Proper, Rooted, With
<1>6. t.calls # <<>> /\ t.calls[1].of = root
  <2>1. Len(t.calls) # 0
    BY <1>2, <1>4
  <2> QED
    BY <1>2, <1>4, <2>1 DEF Proper, Rooted
<1>7. Closed(n) => \A k \in 1 .. Len(t.calls) : t.calls[k].left \subseteq DOMAIN n.inst
  BY <1>2, <1>3, <1>4 DEF Proper, Rooted
<1>8. Rooted(n, root, t)
  BY <1>5, <1>6, <1>7 DEF Rooted
<1> QED
  BY <1>1, <1>8 DEF Proper, t

\* A sequence from an element on, and before that.
LEMMA SplitAt ==
  ASSUME NEW S, NEW s \in Seq(S), IsInjective(s), NEW v \in ToSet(s)
  PROVE  LET low == SubSeq(s, 1, IndexIn(s, v) - 1)
             high == {s[i] : i \in IndexIn(s, v) .. Len(s)}
         IN  /\ low \in Seq(S) /\ IsInjective(low)
             /\ ToSet(low) \cup high = ToSet(s) /\ ToSet(low) \cap high = {} /\ v \in high
             /\ \A x \in ToSet(s) :
                  IndexIn(s, x) < IndexIn(s, v) => x \in ToSet(low) /\ IndexIn(low, x) = IndexIn(s, x)
<1> DEFINE I == IndexIn(s, v)
           k == I - 1
           low == SubSeq(s, 1, k)
           high == {s[i] : i \in I .. Len(s)}
<1>1. I \in 1 .. Len(s) /\ s[I] = v /\ Len(s) \in Nat /\ DOMAIN s = 1 .. Len(s)
  BY IndexInIs, LenProperties
<1>2. k \in 0 .. Len(s) /\ I = k + 1
  BY <1>1
<1> HIDE DEF I, k
<1>3. /\ low \in Seq(S) /\ Len(low) = k /\ \A i \in 1 .. k : low[i] = s[i]
      /\ ToSet(low) = {s[i] : i \in 1 .. k} /\ IsInjective(low)
  BY <1>2, Cut
<1>4. ToSet(s) = {s[i] : i \in 1 .. Len(s)} /\ \A i, j \in 1 .. Len(s) : s[i] = s[j] => i = j
  BY <1>1 DEF ToSet, IsInjective
<1> HIDE DEF low
<1>5. ToSet(low) \cup high = ToSet(s)
  <2>1. ASSUME NEW x \in ToSet(s) PROVE x \in ToSet(low) \cup high
    <3>1. PICK i \in 1 .. Len(s) : x = s[i]
      BY <1>4
    <3>2. i \in 1 .. k \/ i \in I .. Len(s)
      BY <1>1, <1>2
    <3> QED
      BY <1>3, <3>1, <3>2
  <2>2. ToSet(low) \subseteq ToSet(s) /\ high \subseteq ToSet(s)
    BY <1>1, <1>2, <1>3, <1>4
  <2> QED
    BY <2>1, <2>2
<1>6. ToSet(low) \cap high = {}
  <2> SUFFICES ASSUME NEW i \in 1 .. k, NEW j \in I .. Len(s), s[i] = s[j] PROVE FALSE
    BY <1>3
  <2>1. i \in 1 .. Len(s) /\ j \in 1 .. Len(s) /\ i # j
    BY <1>1, <1>2
  <2> QED
    BY <1>4, <2>1
<1>7. v \in high
  BY <1>1
<1>8. ASSUME NEW x \in ToSet(s), IndexIn(s, x) < I PROVE x \in ToSet(low) /\ IndexIn(low, x) = IndexIn(s, x)
  <2> DEFINE j == IndexIn(s, x)
  <2>1. j \in 1 .. Len(s) /\ s[j] = x
    BY IndexInIs
  <2>2. j \in 1 .. k /\ j < I
    BY <1>1, <1>2, <1>8, <2>1
  <2> HIDE DEF j
  <2>3. low[j] = x /\ x \in ToSet(low) /\ j \in 1 .. Len(low)
    BY <1>3, <2>1, <2>2
  <2>4. j = IndexIn(low, x)
    BY <1>3, <2>3, IndexInIs
  <2> QED
    BY <2>3, <2>4 DEF j
<1> QED
  BY <1>3, <1>5, <1>6, <1>7, <1>8 DEF low, k, I

\* The state p of the search after the last call of s has ended.
Ended(n, s) ==
  LET v == Last(s.calls).of
  IN  [Finished(n, s, v) EXCEPT !.calls = Front(@)]

\* A sequence without its last entry.
LEMMA FrontIs ==
  ASSUME NEW S, NEW s \in Seq(S), s # <<>>
  PROVE  /\ Front(s) \in Seq(S) /\ Len(s) \in Nat /\ Len(s) >= 1 /\ Len(Front(s)) = Len(s) - 1
         /\ \A i \in 1 .. Len(s) - 1 : Front(s)[i] = s[i]
         /\ Front(s) = <<>> <=> Len(s) = 1
<1> DEFINE k == Len(s) - 1
<1>1. Len(s) \in Nat /\ Len(s) >= 1
  BY EmptySeq, LenProperties
<1>2. k \in 0 .. Len(s) /\ Front(s) = SubSeq(s, 1, k) /\ Len(s) = k + 1
  BY <1>1 DEF Front
<1> HIDE DEF k
<1>3. Front(s) \in Seq(S) /\ Len(Front(s)) = k /\ \A i \in 1 .. k : Front(s)[i] = s[i]
  BY <1>2, Cut
<1>4. Front(s) = <<>> <=> k = 0
  BY <1>3, EmptySeq
<1> QED
  BY <1>1, <1>2, <1>3, <1>4

\* The end of a call for an instance that is not the first of its component.
LEMMA LeftProper ==
  ASSUME InGroup, NEW n, NodeTyped(n), NEW root, NEW s, Proper(n, root, s), s.calls # <<>>,
         s.lowlink[Last(s.calls).of] # s.index[Last(s.calls).of]
  PROVE  LET t == Ended(n, s)
         IN  /\ Proper(n, root, t) /\ t.index = s.index /\ t.lowlink = s.lowlink /\ t.calls = Front(s.calls)
<1> DEFINE t == Ended(n, s)
           v == Last(s.calls).of
           fr == Front(s.calls)
           K == Len(s.calls)
<1>1. s.calls \in Seq(Calls) /\ s \in Searches(n)
  BY DEF Proper, Tree, Searches
<1>2. t = [s EXCEPT !.calls = fr]
  BY DEF Ended, Finished
<1>3. /\ fr \in Seq(Calls) /\ K \in Nat /\ K >= 1 /\ Len(fr) = K - 1
      /\ \A k \in 1 .. K - 1 : fr[k] = s.calls[k]
      /\ fr = <<>> <=> K = 1
  BY <1>1, FrontIs
<1>4. v = s.calls[K].of /\ v \in DOMAIN s.index
  BY LastCall DEF Proper
<1> HIDE DEF t, fr, K
<1>5. /\ t \in Searches(n) /\ t.calls = fr /\ t.count = s.count /\ t.index = s.index /\ t.lowlink = s.lowlink
      /\ t.stack = s.stack /\ t.done = s.done
  BY <1>1, <1>2, <1>3 DEF Searches
<1>6. Apart(t) /\ Indexed(t)
  BY <1>5 DEF Proper, Tree, Apart, Indexed
<1>7. Nested(t)
  <2>1. \A k \in 1 .. Len(fr) : k \in 1 .. Len(s.calls) /\ fr[k] = s.calls[k]
    BY <1>3 DEF K
  <2> QED
    BY <1>5, <2>1 DEF Proper, Tree, Nested
<1>8. fr # <<>>
  <2> SUFFICES ASSUME K = 1 PROVE FALSE
    BY <1>3
  <2>1. v = root /\ s.index[root] = 1
    BY <1>4 DEF Proper, Rooted
  <2>2. s.lowlink[v] \in Nat /\ 1 <= s.lowlink[v] /\ s.lowlink[v] <= s.index[v]
    BY <1>4, TreeIs DEF Proper, Tree, Indexed, IsMap
  <2> QED
    BY <2>1, <2>2
<1>9. Rooted(n, root, t)
  <2>1. K - 1 >= 1 /\ \A k \in 1 .. Len(fr) : k \in 1 .. Len(s.calls) /\ fr[k] = s.calls[k]
    BY <1>3, <1>8 DEF K
  <2>2. fr[1].of = root
    BY <1>3, <1>8, <2>1 DEF Proper, Rooted
  <2> QED
    BY <1>5, <1>8, <2>1, <2>2 DEF Proper, Rooted
<1> QED
  BY <1>5, <1>6, <1>7, <1>9 DEF Proper, Tree, t, fr

\* The end of a call for the first instance of a component.
LEMMA RootProper ==
  ASSUME InGroup, NEW n, NodeTyped(n), NEW root, NEW s, Proper(n, root, s), s.calls # <<>>,
         s.lowlink[Last(s.calls).of] = s.index[Last(s.calls).of]
  PROVE  LET t == Ended(n, s)
         IN  /\ Proper(n, root, t) /\ t.index = s.index /\ t.lowlink = s.lowlink /\ t.calls = Front(s.calls)
<1> DEFINE t == Ended(n, s)
           v == Last(s.calls).of
           fr == Front(s.calls)
           K == Len(s.calls)
           st == SubSeq(s.stack, 1, IndexIn(s.stack, v) - 1)
           co == Component(n, s, v)
           dn == s.done \o co
           high == {s.stack[i] : i \in IndexIn(s.stack, v) .. Len(s.stack)}
<1>1. /\ s.calls \in Seq(Calls) /\ s \in Searches(n) /\ s.stack \in Seq(Ready(n)) /\ s.done \in Seq(Ready(n))
      /\ IsInjective(s.stack) /\ IsInjective(s.done) /\ ToSet(s.stack) \cap ToSet(s.done) = {}
  BY DEF Proper, Tree, Searches, Apart
<1>2. t = [s EXCEPT !.done = dn, !.stack = st, !.calls = fr]
  BY DEF Ended, Finished
<1>3. /\ fr \in Seq(Calls) /\ K \in Nat /\ K >= 1 /\ Len(fr) = K - 1
      /\ \A k \in 1 .. K - 1 : fr[k] = s.calls[k]
      /\ fr = <<>> <=> K = 1
  BY <1>1, FrontIs
<1>4. v = s.calls[K].of /\ v \in ToSet(s.stack) /\ K \in 1 .. Len(s.calls)
  BY LastCall DEF Proper
<1>5. /\ st \in Seq(Ready(n)) /\ IsInjective(st)
      /\ ToSet(st) \cup high = ToSet(s.stack) /\ ToSet(st) \cap high = {} /\ v \in high
      /\ \A x \in ToSet(s.stack) :
           IndexIn(s.stack, x) < IndexIn(s.stack, v) => x \in ToSet(st) /\ IndexIn(st, x) = IndexIn(s.stack, x)
  BY <1>1, <1>4, SplitAt
<1>6. /\ co \in Seq(Ready(n)) /\ IsInjective(co) /\ ToSet(co) = high
  <2>1. ToSet(s.stack) \subseteq Ready(n) /\ Ready(n) \subseteq DOMAIN n.inst
    BY TreeIs, ReadyIs DEF Proper
  <2>2. s.stack \in Seq(DOMAIN n.inst)
    BY <1>1, <2>1
  <2>3. co \in Seq(DOMAIN n.inst) /\ IsInjective(co) /\ ToSet(co) = high
    BY <1>1, <1>4, <2>2, ComponentIs
  <2> HIDE DEF co
  <2>4. ToSet(co) \subseteq Ready(n)
    BY <1>5, <2>1, <2>3
  <2>5. co \in Seq(Ready(n))
    BY <2>3, <2>4 DEF ToSet
  <2> QED
    BY <2>3, <2>5
<1> HIDE DEF co, st, high
<1>7. /\ dn \in Seq(Ready(n)) /\ ToSet(dn) = ToSet(s.done) \cup high /\ IsInjective(dn)
  <2>1. ToSet(s.done) \cap ToSet(co) = {}
    BY <1>1, <1>5, <1>6
  <2> QED
    BY <1>1, <1>6, <2>1, Joined
<1> HIDE DEF t, fr, K, dn
<1>8. /\ t \in Searches(n) /\ t.calls = fr /\ t.count = s.count /\ t.index = s.index /\ t.lowlink = s.lowlink
      /\ t.stack = st /\ t.done = dn
  BY <1>1, <1>2, <1>3, <1>5, <1>7 DEF Searches
<1>9. Apart(t)
  BY <1>1, <1>5, <1>7, <1>8 DEF Apart
<1>10. Indexed(t)
  BY <1>5, <1>7, <1>8 DEF Proper, Tree, Indexed
<1>11. \A k \in 1 .. Len(fr) :
         /\ k \in 1 .. Len(s.calls) /\ fr[k] = s.calls[k]
         /\ fr[k].of \in ToSet(st) /\ IndexIn(st, fr[k].of) = IndexIn(s.stack, fr[k].of)
  <2> SUFFICES ASSUME NEW k \in 1 .. Len(fr)
               PROVE  /\ k \in 1 .. Len(s.calls) /\ fr[k] = s.calls[k]
                      /\ fr[k].of \in ToSet(st) /\ IndexIn(st, fr[k].of) = IndexIn(s.stack, fr[k].of)
    OBVIOUS
  <2>1. k \in 1 .. Len(s.calls) /\ fr[k] = s.calls[k] /\ k < K
    BY <1>3 DEF K
  <2>2. s.calls[k].of \in ToSet(s.stack) /\ IndexIn(s.stack, s.calls[k].of) < IndexIn(s.stack, s.calls[K].of)
    BY <1>4, <2>1 DEF Proper, Tree, Nested
  <2> QED
    BY <1>4, <1>5, <2>1, <2>2
<1>12. Nested(t)
  BY <1>8, <1>11 DEF Proper, Tree, Nested
<1>13. Rooted(n, root, t)
  <2>1. fr # <<>> => fr[1].of = root
    <3> SUFFICES ASSUME K # 1 PROVE fr[1].of = root
      BY <1>3
    <3>1. 1 \in 1 .. Len(fr)
      BY <1>3
    <3> QED
      BY <1>11, <3>1 DEF Proper, Rooted
  <2>2. fr = <<>> => root \in ToSet(dn)
    BY <1>3, <1>4, <1>5, <1>7 DEF Proper, Rooted
  <2> QED
    BY <1>8, <1>11, <2>1, <2>2 DEF Proper, Rooted
<1> QED
  BY <1>8, <1>9, <1>10, <1>12, <1>13 DEF Proper, Tree, t, fr

\* strongconnect returns.
LEMMA ReturnedProper ==
  ASSUME InGroup, NEW n, NodeTyped(n), NEW root, NEW s, Proper(n, root, s), s.calls # <<>>
  PROVE  LET v == Last(s.calls).of
             t == Returned(Finished(n, s, v), v)
         IN  Proper(n, root, t) /\ t.index = s.index /\ t.calls = Front(s.calls)
<1> DEFINE v == Last(s.calls).of
           t == Returned(Finished(n, s, v), v)
           p == Ended(n, s)
<1>1. Proper(n, root, p) /\ p.index = s.index /\ p.lowlink = s.lowlink /\ p.calls = Front(s.calls)
  BY LeftProper, RootProper
<1>2. Finished(n, s, v).lowlink = s.lowlink
  BY DEF Finished, Proper, Tree, Searches
<1>3. t = IF p.calls = <<>> THEN p ELSE Lowered(p, Last(p.calls).of, s.lowlink[v])
  BY <1>2 DEF Returned, Ended
<1>4. s.lowlink[v] \in Nat /\ s.lowlink[v] >= 1
  <2>1. v \in DOMAIN s.index
    BY LastCall DEF Proper
  <2> QED
    BY <2>1, TreeIs DEF Proper, Tree, Indexed, IsMap
<1> HIDE DEF p, t, v
<1>5. CASE p.calls = <<>>
  BY <1>1, <1>3, <1>5 DEF t, v
<1>6. CASE p.calls # <<>>
  <2> DEFINE w == Last(p.calls).of
             l == s.lowlink[v]
  <2>1. w \in DOMAIN p.index
    BY <1>1, <1>6, LastCall DEF Proper
  <2> HIDE DEF w, l
  <2>2. t = Lowered(p, w, l) /\ l \in Nat /\ l >= 1
    BY <1>3, <1>4, <1>6 DEF w, l
  <2>3. Proper(n, root, t) /\ t.index = p.index /\ t.calls = p.calls
    BY <1>1, <2>1, <2>2, LoweredTree
  <2> QED
    BY <1>1, <2>3 DEF t, v
<1> QED
  BY <1>5, <1>6

\* The first of some instances is one of them.
LEMMA FirstOfIs ==
  ASSUME InGroup, NEW ids, ids \subseteq Ids, ids # {}
  PROVE  FirstOf(ids) \in ids
<1> DEFINE R == {Row(e) : e \in ids}
<1>1. \A e \in ids : Row(e) \in Nat /\ Number(e) \in Nat
  BY IdIs, GroupIs
<1>2. R \subseteq Nat /\ R # {}
  BY <1>1
<1>3. PICK x \in R : \A y \in R : x <= y
  BY <1>2, Least
<1> DEFINE N == {Number(e) : e \in {e \in ids : Row(e) = x}}
<1>4. N \subseteq Nat /\ N # {}
  BY <1>1, <1>3
<1>5. PICK i \in N : \A j \in N : i <= j
  BY <1>4, Least
<1>6. PICK a \in ids : Row(a) = x /\ Number(a) = i
  BY <1>5
<1>7. \A b \in ids : Row(a) < Row(b) \/ (Row(a) = Row(b) /\ Number(a) <= Number(b))
  <2> SUFFICES ASSUME NEW b \in ids, ~(Row(a) < Row(b))
               PROVE  Row(a) = Row(b) /\ Number(a) <= Number(b)
    OBVIOUS
  <2>1. x <= Row(b) /\ Row(b) \in Nat /\ Row(a) \in Nat
    BY <1>1, <1>3
  <2>2. Row(a) = Row(b)
    BY <1>6, <2>1
  <2> QED
    BY <1>5, <1>6, <2>2
<1> QED
  BY <1>7 DEF FirstOf

\* What is still to be done in a search: calls to make and to end, instances to look at.
Todo(n, s) ==
  {p \in (DOMAIN n.inst) \X (DOMAIN n.inst \cup {<<>>}) :
     \/ p[1] \notin DOMAIN s.index
     \/ \E k \in 1 .. Len(s.calls) : s.calls[k].of = p[1] /\ (p[2] = <<>> \/ p[2] \in s.calls[k].left)}

\* A search that has looked at a dependency is proper and nearer its end.
LEMMA VisitedIs ==
  ASSUME InGroup, NEW n, NodeTyped(n), NEW root, NEW s, Proper(n, root, s), s.calls # <<>>,
         NEW w \in Ids, Closed(n) => w \in DOMAIN n.inst
  PROVE  LET t == Visited(n, s, Last(s.calls).of, w)
         IN  Proper(n, root, t) /\ Todo(n, t) \subseteq Todo(n, s)
<1> DEFINE v == Last(s.calls).of
           t == Visited(n, s, v, w)
<1>1. v \in DOMAIN s.index
  BY LastCall DEF Proper
<1> HIDE DEF v
<1>2. CASE IsDone(n, s, w)
  BY <1>2 DEF Visited, v
<1>3. CASE ~IsDone(n, s, w) /\ (Inst(n, w).status # COMMITTED \/ Inst(n, w).cmds = Nil)
  <2>1. t = [s EXCEPT !.calls = <<>>]
    BY <1>3 DEF Visited
  <2>2. ~Closed(n)
    <3> SUFFICES ASSUME Closed(n) PROVE FALSE
      OBVIOUS
    <3>1. w \in DOMAIN n.inst /\ Inst(n, w) = n.inst[w] /\ n.inst[w].status >= COMMITTED
      BY InstIs DEF Closed
    <3>2. n.inst[w].status \in NONE .. EXECUTED /\ n.inst[w].status # EXECUTED
      BY <1>3, <3>1, InstIs DEF IsDone
    <3>3. n.inst[w].status = COMMITTED
      BY <3>1, <3>2 DEF COMMITTED, EXECUTED, NONE
    <3>4. n.inst[w].cmds # Nil
      BY <3>1, <3>3, InstIs DEF PREACCEPTED, COMMITTED
    <3> QED
      BY <1>3, <3>1, <3>3, <3>4
  <2>3. Proper(n, root, t) /\ t.calls = <<>> /\ t.index = s.index
    <3>1. Proper(n, root, t) /\ t.calls = <<>>
      BY <2>1, <2>2, StoppedTree
    <3>2. t.index = s.index
      BY <2>1 DEF Proper, Tree, Searches
    <3> QED
      BY <3>1, <3>2
  <2> HIDE DEF t
  <2>4. Todo(n, t) \subseteq Todo(n, s)
    BY <2>3 DEF Todo
  <2> QED
    BY <2>3, <2>4 DEF t, v
<1>4. CASE ~IsDone(n, s, w) /\ Inst(n, w).status = COMMITTED /\ Inst(n, w).cmds # Nil /\ w \notin DOMAIN s.index
  <2>1. t = Called(n, s, w)
    BY <1>4 DEF Visited
  <2>2. w \in Ready(n)
    BY <1>4, InstIs DEF Ready, COMMITTED, NONE
  <2> DEFINE call == [of |-> w, left |-> DepsOf(n, w)]
  <2>3. Proper(n, root, t) /\ t.index = With(s.index, w, s.count) /\ t.calls = Append(s.calls, call)
    BY <1>4, <2>1, <2>2, CalledProper, CalledTree DEF Proper
  <2> HIDE DEF t
  <2>4. s.calls \in Seq(Calls) /\ Len(s.calls) \in Nat /\ call \in Calls
    BY <2>2, TreeIs, ReadyIs DEF Proper, Calls
  <2>5. call.of = w
    OBVIOUS
  <2> HIDE DEF call
  <2>6. /\ Len(t.calls) = Len(s.calls) + 1 /\ t.calls[Len(s.calls) + 1] = call
        /\ \A k \in 1 .. Len(s.calls) : t.calls[k] = s.calls[k]
    BY <2>3, <2>4, Appended
  <2>7. DOMAIN t.index = DOMAIN s.index \cup {w}
    BY <2>3 DEF With
  <2>8. ASSUME NEW p \in Todo(n, t) PROVE p \in Todo(n, s)
    <3>1. p \in (DOMAIN n.inst) \X (DOMAIN n.inst \cup {<<>>})
      BY DEF Todo
    <3>2. CASE p[1] \notin DOMAIN t.index
      BY <2>7, <3>1, <3>2 DEF Todo
    <3>3. ASSUME NEW k \in 1 .. Len(t.calls), t.calls[k].of = p[1], p[2] = <<>> \/ p[2] \in t.calls[k].left
          PROVE  p \in Todo(n, s)
      <4>1. CASE k \in 1 .. Len(s.calls)
        BY <2>6, <3>1, <3>3, <4>1 DEF Todo
      <4>2. CASE k = Len(s.calls) + 1
        BY <1>4, <2>5, <2>6, <3>1, <3>3, <4>2 DEF Todo
      <4> QED
        BY <2>4, <2>6, <4>1, <4>2
    <3> QED
      BY <3>1, <3>2, <3>3 DEF Todo
  <2> QED
    BY <2>3, <2>8 DEF t, v
<1>5. CASE ~IsDone(n, s, w) /\ Inst(n, w).status = COMMITTED /\ Inst(n, w).cmds # Nil /\ w \in DOMAIN s.index
  <2>1. t = IF Contains(s.stack, w) THEN Lowered(s, v, s.index[w]) ELSE s
    BY <1>5 DEF Visited
  <2> DEFINE l == s.index[w]
  <2>2. l \in Nat /\ l >= 1
    <3>1. l \in Nat /\ s.lowlink[w] \in Nat /\ 1 <= s.lowlink[w] /\ s.lowlink[w] <= l
      BY <1>5, TreeIs DEF Proper, Tree, Indexed, IsMap
    <3> QED
      BY <3>1
  <2> HIDE DEF l, t
  <2>3. Proper(n, root, t) /\ t.index = s.index /\ t.calls = s.calls
    BY <1>1, <2>1, <2>2, LoweredTree DEF l
  <2>4. Todo(n, t) \subseteq Todo(n, s)
    BY <2>3 DEF Todo
  <2> QED
    BY <2>3, <2>4 DEF t, v
<1> QED
  BY <1>2, <1>3, <1>4, <1>5

\* A step of the search keeps its state proper, and has less to do after that.
LEMMA StrongConnectIs ==
  ASSUME InGroup, NEW n, NodeTyped(n), NEW root, NEW s, Proper(n, root, s), s.calls # <<>>
  PROVE  LET t == StrongConnect(n, s)
         IN  /\ Proper(n, root, t)
             /\ Closed(n) => \E p \in Todo(n, s) : Todo(n, t) \subseteq Todo(n, s) \ {p}
<1> DEFINE K == Len(s.calls)
           v == Last(s.calls).of
           left == Last(s.calls).left
           t == StrongConnect(n, s)
<1>1. /\ K \in 1 .. K /\ K \in Nat /\ v = s.calls[K].of /\ left = s.calls[K].left /\ left \subseteq Ids
      /\ v \in DOMAIN n.inst /\ v \in DOMAIN s.index /\ v \in Ids
  BY LastCall, TreeIs, ReadyIs DEF Proper, Calls
<1>2. \A k \in 1 .. K : k # K => s.calls[k].of # v
  <2> SUFFICES ASSUME NEW k \in 1 .. K, k # K, s.calls[k].of = v PROVE FALSE
    OBVIOUS
  <2>1. k < K
    BY <1>1
  <2>2. IndexIn(s.stack, v) < IndexIn(s.stack, v)
    BY <1>1, <2>1 DEF Proper, Tree, Nested
  <2>3. IndexIn(s.stack, v) \in 1 .. Len(s.stack)
    <3>1. v \in ToSet(s.stack)
      BY LastCall DEF Proper
    <3>2. s.stack \in Seq(Ready(n)) /\ IsInjective(s.stack)
      BY TreeIs DEF Proper, Tree, Apart
    <3> QED
      BY <3>1, <3>2, IndexInIs
  <2> QED
    BY <2>2, <2>3
<1>3. CASE left = {}
  <2>1. t = Returned(Finished(n, s, v), v)
    BY <1>3 DEF StrongConnect
  <2>2. Proper(n, root, t) /\ t.index = s.index /\ t.calls = Front(s.calls)
    BY <2>1, ReturnedProper
  <2> HIDE DEF t, v, left
  <2>3. /\ Len(t.calls) = K - 1
        /\ \A k \in 1 .. K - 1 : t.calls[k] = s.calls[k]
    <3>1. s.calls \in Seq(Calls)
      BY TreeIs DEF Proper
    <3> QED
      BY <2>2, <3>1, FrontIs
  <2> DEFINE p == <<v, <<>>>>
  <2>4. p \in Todo(n, s)
    BY <1>1 DEF Todo
  <2>5. p \notin Todo(n, t)
    BY <1>1, <1>2, <2>2, <2>3 DEF Todo
  <2>6. Todo(n, t) \subseteq Todo(n, s)
    BY <1>1, <2>2, <2>3 DEF Todo
  <2> QED
    BY <2>2, <2>4, <2>5, <2>6 DEF t
<1>4. CASE left # {}
  <2> DEFINE w == FirstOf(left)
             u == LookedAt(s, w)
  <2>1. w \in left /\ w \in Ids
    BY <1>1, <1>4, FirstOfIs
  <2>2. t = Visited(n, u, v, w)
    BY <1>4 DEF StrongConnect
  <2> HIDE DEF w
  <2>3. /\ Proper(n, root, u) /\ u.index = s.index /\ Len(u.calls) = K /\ u.calls # <<>>
        /\ \A k \in 1 .. K :
             /\ u.calls[k].of = s.calls[k].of
             /\ k = K => u.calls[k].left = s.calls[k].left \ {w}
             /\ k # K => u.calls[k].left = s.calls[k].left
    <3>1. /\ Proper(n, root, u) /\ u.index = s.index /\ Len(u.calls) = Len(s.calls) /\ u.calls # <<>>
      BY LookedTree
    <3>2. ASSUME NEW k \in 1 .. Len(s.calls)
          PROVE  /\ u.calls[k].of = s.calls[k].of
                 /\ k = Len(s.calls) => u.calls[k].left = s.calls[k].left \ {w}
                 /\ k # Len(s.calls) => u.calls[k].left = s.calls[k].left
      BY LookedTree
    <3> HIDE DEF u
    <3> QED
      BY <3>1, <3>2
  <2>4. Last(u.calls).of = v
    BY <1>1, <2>3 DEF Last
  <2> HIDE DEF u
  <2>5. Closed(n) => w \in DOMAIN n.inst
    BY <1>1, <2>1 DEF Proper, Rooted
  <2>6. Proper(n, root, t) /\ Todo(n, t) \subseteq Todo(n, u)
    BY <2>1, <2>2, <2>3, <2>4, <2>5, VisitedIs
  <2> HIDE DEF t, v, left, K
  <2>7. Todo(n, u) \subseteq Todo(n, s)
    <3> SUFFICES ASSUME NEW p \in Todo(n, u) PROVE p \in Todo(n, s)
      OBVIOUS
    <3>1. p \in (DOMAIN n.inst) \X (DOMAIN n.inst \cup {<<>>})
      BY DEF Todo
    <3>2. CASE p[1] \notin DOMAIN u.index
      BY <2>3, <3>1, <3>2 DEF Todo
    <3>3. ASSUME NEW k \in 1 .. Len(u.calls), u.calls[k].of = p[1], p[2] = <<>> \/ p[2] \in u.calls[k].left
          PROVE  p \in Todo(n, s)
      <4>1. k \in 1 .. Len(s.calls) /\ s.calls[k].of = p[1] /\ (p[2] = <<>> \/ p[2] \in s.calls[k].left)
        BY <2>3, <3>3 DEF K
      <4> QED
        BY <3>1, <4>1 DEF Todo
    <3> QED
      BY <3>1, <3>2, <3>3 DEF Todo
  <2> DEFINE p == <<v, w>>
  <2>8. Closed(n) => p \in Todo(n, s)
    BY <1>1, <2>1, <2>5 DEF Todo, K
  <2>9. p \notin Todo(n, u)
    <3>1. w # <<>>
      BY <2>1 DEF Ids
    <3>2. p[1] = v /\ p[2] = w
      OBVIOUS
    <3> HIDE DEF p
    <3>3. \A k \in 1 .. K : ~(u.calls[k].of = p[1] /\ (p[2] = <<>> \/ p[2] \in u.calls[k].left))
      BY <1>1, <1>2, <2>3, <3>1, <3>2
    <3> QED
      BY <1>1, <2>3, <3>2, <3>3 DEF Todo
  <2> QED
    BY <2>6, <2>7, <2>8, <2>9 DEF t
<1> QED
  BY <1>3, <1>4

(***************************************************************************)
(* executeCommand.                                                         *)
(***************************************************************************)
LEMMA FirstProper ==
  ASSUME InGroup, NEW n, NodeTyped(n), NEW id \in Ready(n)
  PROVE  Proper(n, id, Called(n, NewSearch, id))
<1> DEFINE s == NewSearch
           t == Called(n, s, id)
           call == [of |-> id, left |-> DepsOf(n, id)]
<1>1. /\ s.count = 1 /\ s.index = <<>> /\ s.lowlink = <<>> /\ s.stack = <<>> /\ s.done = <<>> /\ s.calls = <<>>
      /\ s \in Searches(n)
  <2>1. <<>> \in Maps /\ 1 \in Nat /\ <<>> \in Seq(Ready(n)) /\ <<>> \in Seq(Calls)
    BY EmptyMaps, MapsIs
  <2> QED
    BY <2>1 DEF NewSearch, Searches
<1> HIDE DEF s
<1>2. DOMAIN <<>> = {} /\ ToSet(<<>>) = {} /\ IsInjective(<<>>) /\ Len(<<>>) = 0
  BY DEF ToSet, IsInjective
<1>3. Tree(n, s)
  BY <1>1, <1>2 DEF Tree, Apart, Indexed, Nested
<1>4. id \notin DOMAIN s.index
  BY <1>1, <1>2
<1>5. Tree(n, t) /\ t.index = With(s.index, id, s.count) /\ t.calls = Append(s.calls, call)
  BY <1>3, <1>4, CalledTree
<1>6. call \in Calls /\ call.of = id /\ (Closed(n) => call.left \subseteq DOMAIN n.inst)
  BY ReadyIs DEF Calls, Closed
<1> HIDE DEF t, call
<1>7. Len(t.calls) = 1 /\ t.calls[1] = call
  <2>1. s.calls \in Seq(Calls) /\ Len(s.calls) = 0
    BY <1>1, <1>2
  <2> QED
    BY <1>5, <1>6, <2>1, Appended
<1>8. id \in DOMAIN t.index /\ t.index[id] = 1
  BY <1>1, <1>5 DEF With
<1>9. t.calls # <<>>
  BY <1>2, <1>7
<1>10. Rooted(n, id, t)
  BY <1>6, <1>7, <1>8, <1>9 DEF Rooted
<1> QED
  BY <1>5, <1>10 DEF Proper, t, s

\* The steps of a search.
LEMMA SearchIs ==
  ASSUME InGroup, NEW n, NodeTyped(n), NEW id \in Ready(n)
  PROVE  /\ Search(n, id)[0] = Called(n, NewSearch, id)
         /\ \A k \in Nat : /\ Search(n, id)[k + 1] = StrongConnect(n, Search(n, id)[k])
                           /\ Proper(n, id, Search(n, id)[k])
<1> DEFINE V == {s \in Searches(n) : Proper(n, id, s)}
           first == Called(n, NewSearch, id)
           G == [k \in Nat |-> [s \in V |-> StrongConnect(n, s)]]
           P == {k \in Nat : Search(n, id)[k] \in V}
<1>1. first \in V
  BY FirstProper DEF Proper, Tree
<1>2. \A s \in V : StrongConnect(n, s) \in V
  <2> SUFFICES ASSUME NEW s \in V PROVE StrongConnect(n, s) \in V
    OBVIOUS
  <2> DEFINE t == StrongConnect(n, s)
  <2>1. CASE s.calls = <<>>
    BY <2>1 DEF StrongConnect
  <2>2. CASE s.calls # <<>>
    <3>1. Proper(n, id, t)
      BY <2>2, StrongConnectIs
    <3> HIDE DEF t
    <3>2. t \in V
      BY <3>1 DEF Proper, Tree
    <3> QED
      BY <3>2 DEF t
  <2> QED
    BY <2>1, <2>2
<1> HIDE DEF V, first
<1>3. G \in [Nat -> [V -> V]] /\ \A k \in Nat : \A s \in V : G[k][s] = StrongConnect(n, s)
  BY <1>2
<1> HIDE DEF G
<1>4. PICK f \in [Nat -> V] : \A k \in Nat : f[k] = IF k = 0 THEN first ELSE G[k - 1][f[k - 1]]
  BY <1>1, <1>3, Iterated
<1>5. ASSUME NEW k \in Nat, k # 0 PROVE f[k] = StrongConnect(n, f[k - 1])
  <2>1. k - 1 \in Nat /\ f[k - 1] \in V
    BY <1>5
  <2> QED
    BY <1>3, <1>4, <1>5, <2>1
<1>6. f = [k \in Nat |-> IF k = 0 THEN first ELSE StrongConnect(n, f[k - 1])]
  BY <1>4, <1>5
<1>7. Search(n, id) = [k \in Nat |-> IF k = 0 THEN first ELSE StrongConnect(n, Search(n, id)[k - 1])]
  BY <1>6 DEF Search, first
<1>8. Search(n, id)[0] = first
  BY <1>7
<1>9. ASSUME NEW k \in Nat PROVE Search(n, id)[k + 1] = StrongConnect(n, Search(n, id)[k])
  <2>1. k + 1 \in Nat /\ k + 1 # 0 /\ (k + 1) - 1 = k
    OBVIOUS
  <2> QED
    BY <1>7, <2>1
<1>10. Nat \subseteq P
  <2>1. 0 \in P
    BY <1>1, <1>8
  <2>2. \A k \in Nat : k \in P => k + 1 \in P
    BY <1>2, <1>9
  <2> HIDE DEF P
  <2> QED
    BY <2>1, <2>2, Inductive
<1> QED
  BY <1>8, <1>9, <1>10 DEF V, first

\* What is left to do in a search is bounded.
LEMMA TodoIs ==
  ASSUME InGroup, NEW n, NodeTyped(n), NEW s
  PROVE  IsFiniteSet(Todo(n, s)) /\ Cardinality(Todo(n, s)) \in Nat /\ Cardinality(Todo(n, s)) <= MaxSteps(n) /\ MaxSteps(n) \in Nat
<1> DEFINE D == DOMAIN n.inst
           E == D \cup {<<>>}
<1>1. IsFiniteSet(D) /\ D \subseteq Ids
  BY DEF NodeTyped, Timed, FieldsTyped, IsMap
<1>2. <<>> \notin D
  <2>1. \A w \in Ids : w # <<>>
    BY DEF Ids
  <2> QED
    BY <1>1, <2>1
<1>3. IsFiniteSet(E) /\ Cardinality(E) = Cardinality(D) + 1 /\ Cardinality(D) \in Nat
  BY <1>1, <1>2, FS_AddElement, FS_CardinalityType
<1>4. Todo(n, s) \subseteq D \X E
  BY DEF Todo
<1> HIDE DEF D, E
<1>5. IsFiniteSet(D \X E) /\ Cardinality(D \X E) = Cardinality(D) * Cardinality(E)
  BY <1>1, <1>3, FS_Product
<1>6. MaxSteps(n) = Cardinality(D) * Cardinality(E)
  BY <1>3 DEF MaxSteps, D
<1> HIDE DEF E
<1>7. IsFiniteSet(Todo(n, s)) /\ Cardinality(Todo(n, s)) <= MaxSteps(n)
  BY <1>4, <1>5, <1>6, FS_Subset
<1>8. MaxSteps(n) \in Nat
  BY <1>5, <1>6, FS_CardinalityType
<1> QED
  BY <1>7, <1>8, FS_CardinalityType

\* A search that meets no instance that is not committed has found its root at its end.
LEMMA FindSCCIs ==
  ASSUME InGroup, NEW n, NodeTyped(n), NEW id \in Ready(n)
  PROVE  LET done == FindSCC(n, id).done
         IN  /\ done \in Seq(Ready(n)) /\ IsInjective(done)
             /\ Closed(n) => id \in ToSet(done)
<1> DEFINE M == MaxSteps(n)
           s == Search(n, id)
           P == {k \in Nat : s[k].calls = <<>> \/ Cardinality(Todo(n, s[k])) + k <= M}
<1>1. M \in Nat
  BY TodoIs
<1>2. \A k \in Nat : s[k + 1] = StrongConnect(n, s[k]) /\ Proper(n, id, s[k])
  BY SearchIs
<1>3. FindSCC(n, id) = s[M] /\ Proper(n, id, s[M])
  BY <1>1, <1>2 DEF FindSCC
<1>4. s[M].done \in Seq(Ready(n)) /\ IsInjective(s[M].done)
  BY <1>3, TreeIs DEF Proper, Tree, Apart
<1> HIDE DEF M, s
<1>5. ASSUME Closed(n) PROVE id \in ToSet(s[M].done)
  <2>1. 0 \in P
    BY TodoIs DEF M
  <2>2. ASSUME NEW k \in Nat, k \in P PROVE k + 1 \in P
    <3> SUFFICES ASSUME s[k + 1].calls # <<>> PROVE Cardinality(Todo(n, s[k + 1])) + (k + 1) <= M
      OBVIOUS
    <3>1. s[k].calls # <<>>
      <4> SUFFICES ASSUME s[k].calls = <<>> PROVE FALSE
        OBVIOUS
      <4>1. s[k + 1] = s[k]
        BY <1>2 DEF StrongConnect
      <4> QED
        BY <4>1
    <3>2. Cardinality(Todo(n, s[k])) + k <= M
      BY <2>2, <3>1
    <3>3. PICK p \in Todo(n, s[k]) : Todo(n, s[k + 1]) \subseteq Todo(n, s[k]) \ {p}
      BY <1>2, <1>5, <3>1, StrongConnectIs
    <3> DEFINE A == Todo(n, s[k])
               B == Todo(n, s[k + 1])
    <3>4. IsFiniteSet(A) /\ Cardinality(A) \in Nat /\ Cardinality(B) \in Nat
      BY TodoIs
    <3> HIDE DEF A, B
    <3>5. B \subseteq A /\ B # A
      BY <3>3 DEF A, B
    <3>6. Cardinality(B) < Cardinality(A)
      BY <3>4, <3>5, FS_Subset
    <3>7. Cardinality(B) + (k + 1) <= M
      BY <1>1, <3>2, <3>4, <3>6 DEF A
    <3> QED
      BY <3>7 DEF B
  <2> HIDE DEF P
  <2>3. M \in P
    BY <1>1, <2>1, <2>2, Inductive
  <2>4. s[M].calls = <<>>
    <3> SUFFICES ASSUME s[M].calls # <<>> PROVE FALSE
      OBVIOUS
    <3> DEFINE A == Todo(n, s[M])
    <3>1. Cardinality(A) + M <= M
      BY <2>3 DEF P
    <3>2. IsFiniteSet(A) /\ Cardinality(A) \in Nat
      BY TodoIs
    <3>3. Cardinality(A) = 0
      BY <1>1, <3>1, <3>2
    <3>4. A = {}
      BY <3>2, <3>3, FS_EmptySet
    <3>5. \E p \in A : TRUE
      BY <1>1, <1>2, <1>5, StrongConnectIs
    <3> QED
      BY <3>4, <3>5
  <2> QED
    BY <1>3, <1>5, <2>4 DEF Proper, Rooted
<1> QED
  BY <1>3, <1>4, <1>5

\* Components that are executed are marked so, in their order.
LEMMA ExecutedIs ==
  ASSUME InGroup, NEW n, NodeTyped(n), NEW done \in Seq(Ready(n)), IsInjective(done)
  PROVE  /\ Runs(n, Executed(n, done))
         /\ \A e \in ToSet(done) : Executed(n, done).inst[e].status = EXECUTED
<1> DEFINE t == Executed(n, done)
           f == [e \in DOMAIN n.inst |->
                   IF Contains(done, e) THEN [n.inst[e] EXCEPT !.status = EXECUTED] ELSE n.inst[e]]
           ex == n.executed \o done
<1>1. Rest(n, t, {"inst", "executed"}) /\ t.inst = f /\ t.executed = ex
  BY DEF Executed, NodeTyped, FieldsTyped, Rest, Fields
<1>2. Ready(n) \subseteq Ids /\ Ready(n) \subseteq DOMAIN n.inst
  BY ReadyIs
<1>3. done \in Seq(Ids) /\ ToSet(done) \subseteq Ready(n) /\ n.executed \in Seq(Ids)
  BY <1>2 DEF ToSet, NodeTyped, FieldsTyped
<1>4. \A e : Contains(done, e) <=> e \in ToSet(done)
  BY ContainsIs
<1>5. \A e \in DOMAIN n.inst :
        /\ e \in ToSet(done) => f[e] = [n.inst[e] EXCEPT !.status = EXECUTED] /\ n.inst[e].status = COMMITTED
        /\ e \notin ToSet(done) => f[e] = n.inst[e]
  BY <1>3, <1>4 DEF Ready
<1>6. \A e \in DOMAIN n.inst : n.inst[e] \in Instances
  BY DEF NodeTyped, FieldsTyped, IsMap
<1>7. DOMAIN f = DOMAIN n.inst /\ f = [e \in DOMAIN n.inst |-> f[e]]
  OBVIOUS
<1> HIDE DEF t, f
<1>8. ASSUME NEW e \in DOMAIN n.inst
      PROVE  /\ f[e] \in Instances /\ SameInstance(n.inst[e], f[e])
             /\ f[e].bal = n.inst[e].bal /\ f[e].vbal = n.inst[e].vbal
             /\ f[e].status = IF e \in ToSet(done) THEN EXECUTED ELSE n.inst[e].status
  <2>1. n.inst[e] \in Instances
    BY <1>6
  <2>2. EXECUTED \in NONE .. EXECUTED
    BY DEF EXECUTED, NONE
  <2> DEFINE i == n.inst[e]
             j == f[e]
  <2>3. i \in Instances /\ (e \in ToSet(done) => j = [i EXCEPT !.status = EXECUTED]) /\ (e \notin ToSet(done) => j = i)
    BY <1>5, <2>1
  <2> HIDE DEF i, j
  <2>4. CASE e \in ToSet(done)
    <3>1. /\ j \in Instances /\ j.cmds = i.cmds /\ j.seq = i.seq /\ j.deps = i.deps /\ j.bal = i.bal /\ j.vbal = i.vbal
          /\ j.status = EXECUTED
      BY <2>2, <2>3, <2>4 DEF Instances
    <3> QED
      BY <2>4, <3>1 DEF SameInstance, i, j
  <2>5. CASE e \notin ToSet(done)
    BY <2>3, <2>5 DEF SameInstance, i, j
  <2> QED
    BY <2>4, <2>5
<1>9. ToSet(n.executed) \cap ToSet(done) = {}
  BY <1>3 DEF NodeTyped, Listed, Ready, COMMITTED, EXECUTED
<1>10. ex \in Seq(Ids) /\ ToSet(ex) = ToSet(n.executed) \cup ToSet(done) /\ IsPrefix(n.executed, ex) /\ IsInjective(ex)
  BY <1>3, <1>9, Joined DEF NodeTyped, Listed
<1> HIDE DEF ex
<1>11. FieldsTyped(t)
  <2>1. IsMap(f, Ids, Instances)
    <3>1. f \in [DOMAIN f -> Instances]
      BY <1>7, <1>8
    <3> QED
      BY <1>7, <3>1 DEF IsMap, NodeTyped, FieldsTyped
  <2> QED
    BY <1>1, <1>10, <2>1 DEF NodeTyped, FieldsTyped, Rest, Fields
<1>12. Timed(t)
  BY <1>1, <1>7 DEF NodeTyped, Timed, Rest, Fields
<1>13. Listed(t)
  <2>1. {e \in DOMAIN f : f[e].status = EXECUTED} = {e \in DOMAIN n.inst : n.inst[e].status = EXECUTED} \cup ToSet(done)
    BY <1>2, <1>3, <1>7, <1>8
  <2> QED
    BY <1>1, <1>10, <2>1 DEF NodeTyped, Listed
<1>14. Linked(t)
  <2>1. ASSUME NEW e \in DOMAIN f
        PROVE  Number(e) <= n.crtInstance[Row(e)] /\ (f[e].status >= PREACCEPTED => f[e].cmds # Nil)
    <3>1. e \in ToSet(done) => n.inst[e].status = COMMITTED
      BY <1>3 DEF Ready
    <3>2. n.inst[e].status >= PREACCEPTED => n.inst[e].cmds # Nil
      BY <1>7 DEF NodeTyped, Linked
    <3>3. f[e].cmds = n.inst[e].cmds /\ (e \notin ToSet(done) => f[e].status = n.inst[e].status)
      BY <1>7, <1>8 DEF SameInstance
    <3>4. f[e].status >= PREACCEPTED => f[e].cmds # Nil
      BY <3>1, <3>2, <3>3 DEF COMMITTED, PREACCEPTED
    <3> QED
      BY <1>7, <3>4 DEF NodeTyped, Linked
  <2> QED
    BY <1>1, <1>7, <2>1 DEF NodeTyped, Linked, Rest, Fields
<1>15. Runs(n, t)
  <2>1. Rest(n, t, {"inst", "executed", "torn"})
    BY <1>1 DEF Rest
  <2>2. \A e \in DOMAIN n.inst :
          f[e].status = n.inst[e].status \/ (n.inst[e].status = COMMITTED /\ f[e].status = EXECUTED)
    BY <1>5, <1>8
  <2> QED
    BY <1>1, <1>7, <1>8, <1>10, <1>11, <1>12, <1>13, <1>14, <2>1, <2>2 DEF Runs, NodeTyped
<1>16. \A e \in ToSet(done) : t.inst[e].status = EXECUTED
  BY <1>1, <1>2, <1>3, <1>8
<1> QED
  BY <1>15, <1>16 DEF t

\* executeCommand() executes instances that were not, each once.
LEMMA ExecuteCommandIs ==
  ASSUME InGroup, NEW n, NodeTyped(n), NEW id \in Ready(n)
  PROVE  /\ Runs(n, ExecuteCommand(n, id))
         /\ Closed(n) => ExecuteCommand(n, id) # n
<1>1. /\ FindSCC(n, id).done \in Seq(Ready(n)) /\ IsInjective(FindSCC(n, id).done)
      /\ Closed(n) => id \in ToSet(FindSCC(n, id).done)
  BY FindSCCIs
<1>2. /\ Runs(n, ExecuteCommand(n, id))
      /\ \A e \in ToSet(FindSCC(n, id).done) : ExecuteCommand(n, id).inst[e].status = EXECUTED
  BY <1>1, ExecutedIs DEF ExecuteCommand
<1>3. n.inst[id].status # EXECUTED
  BY DEF Ready, COMMITTED, EXECUTED
<1> QED
  BY <1>1, <1>2, <1>3

(***************************************************************************)
(* What is under way, and what is known of it.                             *)
(***************************************************************************)
NoRecovery == group.recoverers = {}

Types == {"PreAccept", "PreAcceptReply", "Accept", "AcceptReply", "Commit"}
Channels == [type : Types, from : Replicas, to : Replicas]

Proposals == [id : Ids, ballot : Nat, cmds : Commands, seq : Int, deps : Dependencies]
Replies == [id : Ids, ballot : {-1} \cup Nat, vballot : {-1} \cup Nat, seq : Int, deps : Dependencies, status : NONE .. EXECUTED]
Attributes == [id : Ids, ballot : Nat, seq : Int, deps : Dependencies]
Answers == [id : Ids, ballot : {-1} \cup Nat]

Letters == Proposals \cup Replies \cup Attributes \cup Answers

QueuesOf(queues) == \A c \in DOMAIN queues : queues[c] \in Seq(Letters) /\ queues[c] # <<>>
FlyingIn(queues) == UNION {{<<c, queues[c][i]>> : i \in 1 .. Len(queues[c])} : c \in DOMAIN queues}
DistinctIn(queues) ==
  \A c \in DOMAIN queues : \A i, j \in 1 .. Len(queues[c]) : queues[c][i].id = queues[c][j].id => i = j

NetTyped == QueuesOf(net)
Flying == FlyingIn(net)

\* No two messages of a type, between two replicas, are about the same instance.
Distinct == DistinctIn(net)

Led(id) == id \in Ids /\ id \in DOMAIN node[Row(id)].lb
Own(id) == node[Row(id)].lb[id]
Open(id) == Led(id) /\ IsPreAccepting(Own(id))

Outward == {"PreAccept", "Accept", "Commit"}

Letter(c, m) ==
  /\ c \in Channels
  /\ c.type \in {"PreAccept", "Commit"} => m \in Proposals
  /\ c.type = "PreAcceptReply" => m \in Replies
  /\ c.type = "Accept" => m \in Attributes
  /\ c.type = "AcceptReply" => m \in Answers

\* A message about an instance of which lb is the leader's bookkeeping.
MailAt(type, m, lb) ==
  /\ type = "PreAccept" => m.cmds = lb.cmds
  /\ type = "PreAcceptReply" /\ IsPreAccepting(lb) => IsReply(m, Row(m.id))
  /\ type = "Accept" => ~IsPreAccepting(lb) /\ m.seq = lb.seq /\ m.deps = lb.deps
  /\ type = "AcceptReply" => ~IsPreAccepting(lb)
  /\ type = "Commit" => lb.status = COMMITTED /\ SameInstance(m, lb)

Addressed(c, m) ==
  /\ Letter(c, m) /\ m.ballot = Row(m.id)
  /\ c.type \in Outward => c.from = Row(m.id) /\ c.to # Row(m.id)
  /\ c.type \notin Outward => c.to = Row(m.id) /\ c.from # Row(m.id)

MailOf(c, m) == Addressed(c, m) /\ Led(m.id) /\ MailAt(c.type, m, Own(m.id))

\* The leader's bookkeeping and its own record of an instance.
OwnerAt(row, lb, i) ==
  /\ lb.lastTriedBallot = row /\ lb.ballot \in {-1, row} /\ i.cmds = lb.cmds
  /\ IsPreAccepting(lb) => i.status = PREACCEPTED
  /\ lb.status = ACCEPTED => i.status = ACCEPTED
  /\ lb.status = COMMITTED => i.status >= COMMITTED
  /\ ~IsPreAccepting(lb) => lb.ballot = row /\ SameInstance(lb, i)

OwnerOf(n, id) == id \in DOMAIN n.inst /\ OwnerAt(Row(id), n.lb[id], n.inst[id])

\* Another replica's record.
CopyAt(i, lb) ==
  /\ i.status # ACCEPTED
  /\ i.status = NONE => ~IsPreAccepting(lb)
  /\ i.status >= PREACCEPTED => i.cmds = lb.cmds
  /\ i.status >= COMMITTED => lb.status = COMMITTED /\ SameInstance(lb, i)

CopyOf(q, id) == Led(id) /\ (q # Row(id) => CopyAt(node[q].inst[id], Own(id)))

RowOf(r, n) == DOMAIN n.lb = {<<r, i>> : i \in 0 .. n.crtInstance[r]}

Nodes == DOMAIN node = Replicas /\ \A r \in Replicas : NodeTyped(node[r]) /\ Ballots(node[r])
Rows == \A r \in Replicas : RowOf(r, node[r])
Owners == \A r \in Replicas : \A id \in DOMAIN node[r].lb : OwnerOf(node[r], id)
Copies == \A q \in Replicas : \A id \in DOMAIN node[q].inst : CopyOf(q, id)
Mail == \A f \in Flying : MailOf(f[1], f[2])

Sound == InGroup /\ NoRecovery /\ NetTyped /\ Nodes /\ Rows /\ Owners /\ Copies /\ Mail /\ crashed \subseteq group.mayCrash

(***************************************************************************)
(* Peers.                                                                  *)
(***************************************************************************)
LEMMA Division ==
  ASSUME NEW n \in Nat \ {0}, NEW a \in Int
  PROVE  a = n * (a \div n) + (a % n) /\ a % n \in 0 .. n - 1 /\ a \div n \in Int
BY SMT

\* There is no multiple of a number between it and its opposite, but 0.
LEMMA NoMultipleBetween ==
  ASSUME NEW n \in Nat \ {0}, NEW k \in Int, n * k < n, - n < n * k
  PROVE  k = 0
<1>1. CASE k >= 1
  <2>1. n * k >= n
    BY <1>1, SMT
  <2> QED
    BY <2>1
<1>2. CASE k <= -1
  <2>1. n * k <= - n
    BY <1>2, SMT
  <2> QED
    BY <2>1
<1> QED
  BY <1>1, <1>2

\* The preferred peers of a replica are others.
LEMMA PeerIs ==
  ASSUME InGroup, NEW r \in Replicas, NEW i \in 1 .. (group.size - 1)
  PROVE  Peer(r, i) \in Replicas \ {r}
<1> DEFINE n == group.size
           a == r + i
           p == a % n
           d == a \div n
<1>1. n \in Nat \ {0} /\ r \in 0 .. n - 1 /\ i \in 1 .. n - 1 /\ Replicas = 0 .. n - 1
  BY GroupIs
<1>2. a \in Int /\ Peer(r, i) = p
  BY <1>1 DEF Peer
<1> HIDE DEF n, a
<1>3. a = n * d + p /\ p \in 0 .. n - 1 /\ d \in Int
  BY <1>1, <1>2, Division
<1> HIDE DEF p, d
<1>4. ASSUME p = r PROVE FALSE
  <2>1. a = r + i
    BY DEF a
  <2>2. n * d = i
    <3> DEFINE x == n * d
    <3>1. x \in Int
      BY <1>1, <1>3
    <3>2. a = x + p
      BY <1>3
    <3> HIDE DEF x
    <3>3. x = i
      BY <1>1, <1>4, <2>1, <3>1, <3>2
    <3> QED
      BY <3>3 DEF x
  <2>3. n * d < n /\ - n < n * d
    BY <1>1, <2>2
  <2>4. d = 0
    BY <1>1, <1>3, <2>3, NoMultipleBetween
  <2>5. n * d = 0
    BY <1>1, <2>4
  <2> QED
    BY <1>1, <2>2, <2>5
<1> QED
  BY <1>1, <1>2, <1>3, <1>4

\* The first replicas that are alive are others.
LEMMA FirstAliveIs ==
  ASSUME InGroup, NEW r \in Replicas, NEW k, NEW dead
  PROVE  FirstAlive(r, k, dead) \subseteq Replicas \ {r}
<1>1. \A q \in FirstAlive(r, k, dead) : \E i \in 1 .. (group.size - 1) : q = Peer(r, i)
  BY DEF FirstAlive
<1> QED
  BY <1>1, PeerIs

(***************************************************************************)
(* The network.                                                            *)
(***************************************************************************)
LEMMA FlyingIs ==
  ASSUME NEW queues, NEW c, NEW m
  PROVE  <<c, m>> \in FlyingIn(queues) <=> c \in DOMAIN queues /\ \E i \in 1 .. Len(queues[c]) : queues[c][i] = m
BY DEF FlyingIn

\* What is under way is a message in a queue.
LEMMA PairsAre ==
  ASSUME NEW queues, NEW f \in FlyingIn(queues)
  PROVE  f = <<f[1], f[2]>> /\ f[1] \in DOMAIN queues /\ \E i \in 1 .. Len(queues[f[1]]) : queues[f[1]][i] = f[2]
BY DEF FlyingIn

\* The messages to send, one for a channel at most.
Outgoing(out) ==
  /\ \A o \in out : o = <<o[1], o[2]>> /\ o[2] \in Letters
  /\ \A o, p \in out : o[1] = p[1] => o = p

\* A channel after messages have been sent.
LEMMA SentOn ==
  ASSUME NEW queues, QueuesOf(queues), NEW out, Outgoing(out), NEW d \in DOMAIN Sent(queues, out)
  PROVE  LET s == Sent(queues, out)[d]
             q == IF d \in DOMAIN queues THEN queues[d] ELSE <<>>
         IN  /\ q \in Seq(Letters)
             /\ \/ d \in DOMAIN queues /\ s = queues[d] /\ \A o \in out : o[1] # d
                \/ \E o \in out : o[1] = d /\ s = Append(q, o[2]) /\ o[2] \in Letters
<1> DEFINE s == Sent(queues, out)[d]
           q == IF d \in DOMAIN queues THEN queues[d] ELSE <<>>
           new == {o \in out : o[1] = d}
<1>1. d \in DOMAIN queues \cup {o[1] : o \in out} /\ s = IF new = {} THEN q ELSE Append(q, (CHOOSE o \in new : TRUE)[2])
  BY DEF Sent
<1>2. q \in Seq(Letters)
  BY DEF QueuesOf
<1>3. CASE new = {}
  BY <1>1, <1>2, <1>3
<1>4. CASE new # {}
  <2> DEFINE o == CHOOSE o \in new : TRUE
  <2>1. o \in new
    BY <1>4
  <2>2. s = Append(q, o[2])
    BY <1>1, <1>4
  <2> HIDE DEF o
  <2>3. o \in out /\ o[1] = d /\ o[2] \in Letters
    BY <2>1 DEF Outgoing
  <2> QED
    BY <1>2, <2>2, <2>3
<1> QED
  BY <1>3, <1>4

\* What is sent is added to what is under way.
LEMMA SentIs ==
  ASSUME NEW queues, QueuesOf(queues), NEW out, Outgoing(out)
  PROVE  QueuesOf(Sent(queues, out)) /\ FlyingIn(Sent(queues, out)) = FlyingIn(queues) \cup out
<1> DEFINE s == Sent(queues, out)
           q(d) == IF d \in DOMAIN queues THEN queues[d] ELSE <<>>
<1>1. DOMAIN s = DOMAIN queues \cup {o[1] : o \in out}
  BY DEF Sent
<1>2. \A d \in DOMAIN s :
        /\ q(d) \in Seq(Letters)
        /\ \/ d \in DOMAIN queues /\ s[d] = queues[d] /\ \A o \in out : o[1] # d
           \/ \E o \in out : o[1] = d /\ s[d] = Append(q(d), o[2]) /\ o[2] \in Letters
  BY SentOn
<1> HIDE DEF s
<1>3. ASSUME NEW d \in DOMAIN s PROVE s[d] \in Seq(Letters) /\ s[d] # <<>>
  <2>1. CASE s[d] = queues[d] /\ d \in DOMAIN queues
    BY <2>1 DEF QueuesOf
  <2>2. CASE \E o \in out : o[1] = d /\ s[d] = Append(q(d), o[2]) /\ o[2] \in Letters
    <3>1. PICK o \in out : s[d] = Append(q(d), o[2]) /\ o[2] \in Letters
      BY <2>2
    <3>2. q(d) \in Seq(Letters)
      BY <1>2
    <3> HIDE DEF q
    <3>3. s[d] \in Seq(Letters) /\ Len(s[d]) = Len(q(d)) + 1 /\ Len(q(d)) \in Nat
      BY <3>1, <3>2, Appended, LenProperties
    <3>4. s[d] # <<>>
      BY <3>3, EmptySeq
    <3> QED
      BY <3>3, <3>4
  <2> QED
    BY <1>2, <2>1, <2>2
<1>4. ASSUME NEW c, NEW m, <<c, m>> \in FlyingIn(s) PROVE <<c, m>> \in FlyingIn(queues) \cup out
  <2>1. PICK i \in 1 .. Len(s[c]) : c \in DOMAIN s /\ s[c][i] = m
    BY <1>4, FlyingIs
  <2>2. CASE s[c] = queues[c] /\ c \in DOMAIN queues
    BY <2>1, <2>2, FlyingIs
  <2>3. CASE \E o \in out : o[1] = c /\ s[c] = Append(q(c), o[2]) /\ o[2] \in Letters
    <3>1. PICK o \in out : o[1] = c /\ s[c] = Append(q(c), o[2]) /\ o[2] \in Letters
      BY <2>3
    <3>2. q(c) \in Seq(Letters) /\ (q(c) = <<>> \/ (c \in DOMAIN queues /\ q(c) = queues[c]))
      BY <1>2, <2>1
    <3> HIDE DEF q
    <3>3. /\ Len(s[c]) = Len(q(c)) + 1 /\ Len(q(c)) \in Nat /\ s[c][Len(q(c)) + 1] = o[2]
          /\ \A j \in 1 .. Len(q(c)) : s[c][j] = q(c)[j]
      BY <3>1, <3>2, Appended, LenProperties
    <3>4. CASE i = Len(q(c)) + 1
      <4>1. o = <<c, m>>
        BY <2>1, <3>1, <3>3, <3>4 DEF Outgoing
      <4> QED
        BY <4>1
    <3>5. CASE i \in 1 .. Len(q(c))
      <4>1. q(c) # <<>>
        BY <3>2, <3>5, EmptySeq
      <4> QED
        BY <2>1, <3>2, <3>3, <3>5, <4>1, FlyingIs
    <3> QED
      BY <2>1, <3>3, <3>4, <3>5
  <2> QED
    BY <1>2, <2>1, <2>2, <2>3
<1>5. ASSUME NEW c, NEW m, <<c, m>> \in FlyingIn(queues) PROVE <<c, m>> \in FlyingIn(s)
  <2>1. PICK i \in 1 .. Len(queues[c]) : c \in DOMAIN queues /\ queues[c][i] = m
    BY <1>5, FlyingIs
  <2>2. c \in DOMAIN s /\ q(c) = queues[c]
    BY <1>1, <2>1
  <2>3. CASE s[c] = queues[c]
    BY <2>1, <2>2, <2>3, FlyingIs
  <2>4. CASE \E o \in out : o[1] = c /\ s[c] = Append(q(c), o[2]) /\ o[2] \in Letters
    <3>1. PICK o \in out : s[c] = Append(queues[c], o[2]) /\ o[2] \in Letters
      BY <2>2, <2>4
    <3>2. queues[c] \in Seq(Letters)
      BY <2>1 DEF QueuesOf
    <3>3. Len(s[c]) = Len(queues[c]) + 1 /\ s[c][i] = queues[c][i] /\ Len(queues[c]) \in Nat
      BY <2>1, <3>1, <3>2, Appended, LenProperties
    <3>4. i \in 1 .. Len(s[c])
      BY <3>3
    <3> QED
      BY <2>1, <2>2, <3>3, <3>4, FlyingIs
  <2> QED
    BY <1>2, <2>2, <2>3, <2>4
<1>6. ASSUME NEW o \in out PROVE o \in FlyingIn(s)
  <2> DEFINE c == o[1]
  <2>1. c \in DOMAIN s
    BY <1>1
  <2>2. PICK p \in out : p[1] = c /\ s[c] = Append(q(c), p[2]) /\ p[2] \in Letters
    BY <1>2, <2>1
  <2>3. p = o
    BY <2>2 DEF Outgoing
  <2>4. q(c) \in Seq(Letters)
    BY <1>2, <2>1
  <2> HIDE DEF q
  <2>5. Len(s[c]) = Len(q(c)) + 1 /\ s[c][Len(q(c)) + 1] = o[2] /\ Len(q(c)) \in Nat
    BY <2>2, <2>3, <2>4, Appended, LenProperties
  <2>6. Len(q(c)) + 1 \in 1 .. Len(s[c])
    BY <2>5
  <2>7. <<c, o[2]>> \in FlyingIn(s)
    BY <2>1, <2>5, <2>6, FlyingIs
  <2> QED
    BY <2>7 DEF Outgoing
<1>7. FlyingIn(s) = FlyingIn(queues) \cup out
  <2>1. \A f \in FlyingIn(s) : f \in FlyingIn(queues) \cup out
    <3> SUFFICES ASSUME NEW f \in FlyingIn(s) PROVE f \in FlyingIn(queues) \cup out
      OBVIOUS
    <3>1. f = <<f[1], f[2]>>
      BY PairsAre
    <3> QED
      BY <1>4, <3>1
  <2>2. \A f \in FlyingIn(queues) : f \in FlyingIn(s)
    <3> SUFFICES ASSUME NEW f \in FlyingIn(queues) PROVE f \in FlyingIn(s)
      OBVIOUS
    <3>1. f = <<f[1], f[2]>>
      BY PairsAre
    <3> QED
      BY <1>5, <3>1
  <2> QED
    BY <1>6, <2>1, <2>2
<1> QED
  BY <1>3, <1>7 DEF QueuesOf, s

\* The network without the first message of a channel.
LEMMA WithoutIs ==
  ASSUME NetTyped, NEW c \in DOMAIN net
  PROVE  LET w == Without(c)
         IN  /\ QueuesOf(w)
             /\ FlyingIn(w) \subseteq Flying /\ Flying \ {<<c, Head(net[c])>>} \subseteq FlyingIn(w)
             /\ <<c, Head(net[c])>> \in Flying
             /\ Distinct => /\ DistinctIn(w)
                            /\ \A f \in FlyingIn(w) : f[1] = c => f[2].id # Head(net[c]).id
<1> DEFINE w == Without(c)
           q == net[c]
           h == Head(q)
<1>1. q \in Seq(Letters) /\ q # <<>> /\ Len(q) \in Nat /\ Len(q) >= 1 /\ h = q[1] /\ 1 \in 1 .. Len(q)
  BY EmptySeq, LenProperties DEF NetTyped, QueuesOf
<1>2. <<c, h>> \in Flying
  BY <1>1, FlyingIs DEF Flying
<1>3. CASE Len(q) = 1
  <2>1. DOMAIN w = DOMAIN net \ {c} /\ \A d \in DOMAIN net \ {c} : w[d] = net[d]
    BY <1>3 DEF Without
  <2> HIDE DEF w
  <2>2. QueuesOf(w)
    BY <2>1 DEF QueuesOf, NetTyped
  <2>3. ASSUME NEW f \in FlyingIn(w) PROVE f \in Flying /\ f[1] # c
    <3>1. f = <<f[1], f[2]>> /\ f[1] \in DOMAIN w /\ \E i \in 1 .. Len(w[f[1]]) : w[f[1]][i] = f[2]
      BY PairsAre
    <3> QED
      BY <2>1, <3>1, FlyingIs DEF Flying
  <2>4. ASSUME NEW f \in Flying, f # <<c, h>> PROVE f \in FlyingIn(w)
    <3>1. f = <<f[1], f[2]>> /\ f[1] \in DOMAIN net /\ \E i \in 1 .. Len(net[f[1]]) : net[f[1]][i] = f[2]
      BY PairsAre DEF Flying
    <3>2. f[1] # c
      <4> SUFFICES ASSUME f[1] = c PROVE FALSE
        OBVIOUS
      <4>1. PICK i \in 1 .. Len(q) : q[i] = f[2]
        BY <3>1
      <4>2. i = 1
        BY <1>3
      <4> QED
        BY <1>1, <2>4, <3>1, <4>1, <4>2
    <3> QED
      BY <2>1, <3>1, <3>2, FlyingIs
  <2>5. Distinct => DistinctIn(w)
    BY <2>1 DEF Distinct, DistinctIn
  <2> QED
    BY <1>2, <2>2, <2>3, <2>4, <2>5 DEF w
<1>4. CASE Len(q) # 1
  <2> DEFINE t == Tail(q)
  <2>1. w = [net EXCEPT ![c] = t]
    BY <1>4 DEF Without
  <2>2. /\ t \in Seq(Letters) /\ Len(t) = Len(q) - 1 /\ \A i \in 1 .. Len(q) - 1 : t[i] = q[i + 1]
    BY <1>1
  <2> HIDE DEF t
  <2>3. DOMAIN w = DOMAIN net /\ w[c] = t /\ \A d \in DOMAIN net : d # c => w[d] = net[d]
    BY <2>1
  <2> HIDE DEF w
  <2>4. QueuesOf(w)
    <3>1. t # <<>>
      BY <1>1, <1>4, <2>2, EmptySeq
    <3> QED
      BY <2>2, <2>3, <3>1 DEF QueuesOf, NetTyped
  <2>5. ASSUME NEW f \in FlyingIn(w) PROVE f \in Flying /\ (f[1] = c => \E i \in 1 .. Len(q) : i # 1 /\ f[2] = q[i])
    <3>1. f = <<f[1], f[2]>> /\ f[1] \in DOMAIN w /\ \E i \in 1 .. Len(w[f[1]]) : w[f[1]][i] = f[2]
      BY PairsAre
    <3>2. CASE f[1] # c
      BY <2>3, <3>1, <3>2, FlyingIs DEF Flying
    <3>3. CASE f[1] = c
      <4>1. PICK i \in 1 .. Len(t) : t[i] = f[2]
        BY <2>3, <3>1, <3>3
      <4>2. i + 1 \in 1 .. Len(q) /\ i + 1 # 1 /\ q[i + 1] = f[2]
        BY <1>1, <2>2, <4>1
      <4>3. f \in Flying
        BY <3>1, <3>3, <4>2, FlyingIs DEF Flying
      <4> QED
        BY <4>2, <4>3
    <3> QED
      BY <3>2, <3>3
  <2>6. ASSUME NEW f \in Flying, f # <<c, h>> PROVE f \in FlyingIn(w)
    <3>1. f = <<f[1], f[2]>> /\ f[1] \in DOMAIN net /\ \E i \in 1 .. Len(net[f[1]]) : net[f[1]][i] = f[2]
      BY PairsAre DEF Flying
    <3>2. CASE f[1] # c
      BY <2>3, <3>1, <3>2, FlyingIs
    <3>3. CASE f[1] = c
      <4>1. PICK i \in 1 .. Len(q) : q[i] = f[2]
        BY <3>1, <3>3
      <4>2. i # 1
        BY <1>1, <2>6, <3>1, <3>3, <4>1
      <4>3. i - 1 \in 1 .. Len(t) /\ i - 1 \in 1 .. Len(q) - 1 /\ (i - 1) + 1 = i
        BY <1>1, <2>2, <4>2
      <4>4. t[i - 1] = f[2]
        BY <2>2, <4>1, <4>3
      <4> QED
        BY <2>3, <3>1, <3>3, <4>3, <4>4, FlyingIs
    <3> QED
      BY <3>2, <3>3
  <2>7. ASSUME Distinct PROVE DistinctIn(w)
    <3>1. ASSUME NEW i \in 1 .. Len(t), NEW j \in 1 .. Len(t), t[i].id = t[j].id PROVE i = j
      <4>1. i + 1 \in 1 .. Len(q) /\ j + 1 \in 1 .. Len(q) /\ q[i + 1].id = q[j + 1].id
        BY <1>1, <2>2, <3>1
      <4>2. i + 1 = j + 1
        BY <2>7, <4>1 DEF Distinct, DistinctIn
      <4> QED
        BY <4>2
    <3> QED
      BY <2>3, <2>7, <3>1 DEF Distinct, DistinctIn
  <2>8. ASSUME Distinct, NEW f \in FlyingIn(w), f[1] = c PROVE f[2].id # h.id
    BY <1>1, <2>5, <2>8 DEF Distinct, DistinctIn
  <2> QED
    BY <1>2, <2>4, <2>5, <2>6, <2>7, <2>8 DEF w
<1> QED
  BY <1>3, <1>4

\* Messages about other instances keep what is under way distinct.
LEMMA SentDistinct ==
  ASSUME NEW queues, QueuesOf(queues), DistinctIn(queues), NEW out, Outgoing(out),
         \A o \in out, f \in FlyingIn(queues) : f[1] = o[1] => f[2].id # o[2].id
  PROVE  DistinctIn(Sent(queues, out))
<1> DEFINE s == Sent(queues, out)
<1> SUFFICES ASSUME NEW d \in DOMAIN s, NEW i \in 1 .. Len(s[d]), NEW j \in 1 .. Len(s[d]), s[d][i].id = s[d][j].id
             PROVE  i = j
  BY DEF DistinctIn
<1> DEFINE q == IF d \in DOMAIN queues THEN queues[d] ELSE <<>>
<1>1. /\ q \in Seq(Letters)
      /\ \/ d \in DOMAIN queues /\ s[d] = queues[d]
         \/ \E o \in out : o[1] = d /\ s[d] = Append(q, o[2]) /\ o[2] \in Letters
  BY SentOn
<1>2. q = <<>> \/ (d \in DOMAIN queues /\ q = queues[d])
  OBVIOUS
<1> HIDE DEF s, q
<1>3. CASE d \in DOMAIN queues /\ s[d] = queues[d]
  BY <1>3 DEF DistinctIn
<1>4. CASE \E o \in out : o[1] = d /\ s[d] = Append(q, o[2]) /\ o[2] \in Letters
  <2>1. PICK o \in out : o[1] = d /\ s[d] = Append(q, o[2]) /\ o[2] \in Letters
    BY <1>4
  <2>2. /\ Len(s[d]) = Len(q) + 1 /\ Len(q) \in Nat /\ s[d][Len(q) + 1] = o[2]
        /\ \A k \in 1 .. Len(q) : s[d][k] = q[k]
    BY <1>1, <2>1, Appended, LenProperties
  <2>3. \A k \in 1 .. Len(q) : q[k].id # o[2].id /\ \A l \in 1 .. Len(q) : q[k].id = q[l].id => k = l
    <3> SUFFICES ASSUME NEW k \in 1 .. Len(q)
                 PROVE  q[k].id # o[2].id /\ \A l \in 1 .. Len(q) : q[k].id = q[l].id => k = l
      OBVIOUS
    <3>1. q # <<>>
      BY <1>1, EmptySeq
    <3>2. d \in DOMAIN queues /\ q = queues[d]
      BY <1>2, <3>1
    <3>3. <<d, q[k]>> \in FlyingIn(queues)
      BY <3>2, FlyingIs
    <3> DEFINE f == <<d, q[k]>>
    <3>4. f[1] = d /\ f[2] = q[k] /\ f \in FlyingIn(queues)
      BY <3>3
    <3> HIDE DEF f
    <3>5. f[2].id # o[2].id
      BY <2>1, <3>4
    <3> QED
      BY <3>2, <3>4, <3>5 DEF DistinctIn
  <2> DEFINE K == Len(q)
  <2>4. i \in 1 .. K \/ i = K + 1
    BY <2>2
  <2>5. j \in 1 .. K \/ j = K + 1
    BY <2>2
  <2> QED
    BY <2>2, <2>3, <2>4, <2>5
<1> QED
  BY <1>1, <1>3, <1>4

\* Broadcasts.
Broadcast(type, r, body, k, dead) == {<<Channel(type, r, q), body>> : q \in FirstAlive(r, k, dead)}

\* What a replica sends to its peers comes from it and goes to others.
LEMMA ToPeers ==
  ASSUME InGroup, NEW r \in Replicas, NEW k, NEW dead, NEW type \in Types, NEW body \in Letters
  PROVE  LET out == Broadcast(type, r, body, k, dead)
         IN  /\ Outgoing(out)
             /\ \A o \in out : /\ o[1] \in Channels /\ o[1].type = type /\ o[1].from = r /\ o[1].to # r
                               /\ o[2] = body
<1> DEFINE out == Broadcast(type, r, body, k, dead)
<1>1. ASSUME NEW o \in out
      PROVE  \E q \in Replicas \ {r} : o = <<Channel(type, r, q), body>>
  BY FirstAliveIs DEF Broadcast
<1> HIDE DEF out
<1>2. \A o \in out : /\ o = <<o[1], o[2]>> /\ o[1] \in Channels /\ o[1].type = type /\ o[1].from = r /\ o[1].to # r
                     /\ o[2] = body
  BY <1>1 DEF Channel, Channels
<1>3. Outgoing(out)
  BY <1>2 DEF Outgoing
<1> QED
  BY <1>2, <1>3 DEF out

\* An answer to one replica.
LEMMA ToOne ==
  ASSUME NEW c, NEW body \in Letters
  PROVE  Outgoing({<<c, body>>})
BY DEF Outgoing

\* Nothing.
LEMMA ToNone == Outgoing({})
BY DEF Outgoing

\* The instance takes a decision over, while the executor may run.
LEMMA TakeoverIs ==
  ASSUME InGroup, NEW n, NodeTyped(n), NEW id \in DOMAIN n.inst, n.inst[id].status \in PREACCEPTED .. ACCEPTED,
         NEW lb \in Leaders, lb.status \in {ACCEPTED, COMMITTED}, lb.ballot # -1,
         NEW t \in WhileTaken(n, id, lb)
  PROVE  Takeover(n, AttributesTaken(t, id, lb), id, lb)
<1> DEFINE u == StatusTaken(n, id, lb)
           a == AttributesTaken(t, id, lb)
           i == [n.inst[id] EXCEPT !.status = lb.status]
<1>1. NodeTyped(u) /\ Rest(n, u, {"inst", "lb"}) /\ u.lb = With(n.lb, id, lb) /\ u.inst = With(n.inst, id, i)
  BY StatusTakenIs
<1>2. /\ DOMAIN u.inst = DOMAIN n.inst /\ u.inst[id] = i /\ \A e \in DOMAIN n.inst \ {id} : u.inst[e] = n.inst[e]
      /\ u.executed = n.executed
  BY <1>1 DEF With, Rest, Fields
<1>3. i.status = lb.status /\ i.vbal = n.inst[id].vbal
  <2>1. n.inst[id] \in Instances
    BY DEF NodeTyped, FieldsTyped, IsMap
  <2> QED
    BY <2>1 DEF Instances
<1> HIDE DEF u, i
<1>4. CASE t = u
  <2>1. /\ NodeTyped(a) /\ Rest(u, a, {"inst"}) /\ DOMAIN a.inst = DOMAIN u.inst
        /\ SameInstance(lb, a.inst[id]) /\ a.inst[id].bal = lb.ballot
        /\ a.inst[id].vbal = u.inst[id].vbal /\ a.inst[id].status = u.inst[id].status
        /\ \A e \in DOMAIN u.inst \ {id} : a.inst[e] = u.inst[e]
    BY <1>1, <1>2, <1>4, AttributesTakenIs
  <2> HIDE DEF a
  <2>2. Rest(n, a, {"inst", "lb", "executed", "torn"}) /\ a.lb = With(n.lb, id, lb) /\ a.executed = n.executed
    BY <1>1, <1>2, <2>1 DEF Rest, Fields
  <2>3. IsPrefix(n.executed, n.executed)
    <3>1. n.executed \in Seq(Ids) /\ <<>> \in Seq(Ids)
      BY DEF NodeTyped, FieldsTyped
    <3>2. n.executed \o <<>> = n.executed
      BY <3>1
    <3> QED
      BY <3>1, <3>2, Joined
  <2> QED
    BY <1>2, <1>3, <2>1, <2>2, <2>3 DEF Takeover, SameInstance, a
<1>5. CASE t # u
  <2> DEFINE x == ExecuteCommand(u, id)
             b == x.torn \/ n.inst[id].deps # lb.deps \/ n.inst[id].seq # lb.seq
  <2>1. MayExecute(u, id) /\ t = [x EXCEPT !.torn = b]
    BY <1>5 DEF WhileTaken, u
  <2>2. id \in Ready(u)
    <3>1. Inst(u, id) = u.inst[id] /\ u.inst[id].status = COMMITTED
      BY <1>2, <2>1 DEF MayExecute, Inst
    <3> QED
      BY <1>2, <3>1 DEF Ready
  <2>3. Runs(u, x)
    BY <1>1, <2>2, ExecuteCommandIs
  <2> HIDE DEF x
  <2>4. b \in BOOLEAN /\ DOMAIN x = Fields
    BY <2>3 DEF Runs, Rest
  <2> HIDE DEF b
  <2>5. Rest(x, t, {"torn"}) /\ t.torn = b
    BY <2>1, <2>4 DEF Rest, Fields
  <2>6. NodeTyped(t)
    BY <2>3, <2>4, <2>5 DEF Runs, NodeTyped, FieldsTyped, Timed, Listed, Linked, Rest, Fields
  <2>7. t.inst = x.inst /\ t.executed = x.executed /\ DOMAIN x.inst = DOMAIN u.inst
    BY <2>3, <2>5 DEF Runs, Rest, Fields
  <2>8. /\ NodeTyped(a) /\ Rest(t, a, {"inst"}) /\ DOMAIN a.inst = DOMAIN t.inst
        /\ SameInstance(lb, a.inst[id]) /\ a.inst[id].bal = lb.ballot
        /\ a.inst[id].vbal = t.inst[id].vbal /\ a.inst[id].status = t.inst[id].status
        /\ \A e \in DOMAIN t.inst \ {id} : a.inst[e] = t.inst[e]
    BY <1>2, <2>6, <2>7, AttributesTakenIs
  <2> HIDE DEF a
  <2>9. Rest(n, a, {"inst", "lb", "executed", "torn"}) /\ a.lb = With(n.lb, id, lb) /\ a.executed = x.executed
    BY <1>1, <2>3, <2>5, <2>8 DEF Runs, Rest, Fields
  <2>10. IsPrefix(n.executed, x.executed)
    BY <1>2, <2>3 DEF Runs
  <2>11. /\ a.inst[id].vbal = n.inst[id].vbal
         /\ a.inst[id].status = lb.status \/ (lb.status = COMMITTED /\ a.inst[id].status = EXECUTED)
    BY <1>2, <1>3, <2>3, <2>7, <2>8 DEF Runs
  <2>12. ASSUME NEW e \in DOMAIN n.inst \ {id}
         PROVE  /\ SameInstance(n.inst[e], a.inst[e])
                /\ a.inst[e].bal = n.inst[e].bal /\ a.inst[e].vbal = n.inst[e].vbal
                /\ a.inst[e].status = n.inst[e].status \/ (n.inst[e].status = COMMITTED /\ a.inst[e].status = EXECUTED)
    BY <1>2, <2>3, <2>7, <2>8 DEF Runs
  <2> QED
    BY <1>2, <2>7, <2>8, <2>9, <2>10, <2>11, <2>12 DEF Takeover, a
<1> QED
  BY <1>4, <1>5

(***************************************************************************)
(* Steps.                                                                  *)
(***************************************************************************)
LEMMA SameGroup ==
  ASSUME group' = group
  PROVE  /\ Replicas' = Replicas /\ Ids' = Ids /\ Dependencies' = Dependencies /\ Instances' = Instances
         /\ Leaders' = Leaders /\ Channels' = Channels /\ Proposals' = Proposals /\ Replies' = Replies
         /\ Attributes' = Attributes /\ Answers' = Answers /\ Letters' = Letters
         /\ FastQuorumSize' = FastQuorumSize /\ InGroup' = InGroup /\ NoRecovery' = NoRecovery
<1>1. Replicas' = Replicas /\ FastQuorumSize' = FastQuorumSize /\ InGroup' = InGroup /\ NoRecovery' = NoRecovery
  BY DEF Replicas, FastQuorumSize, F, InGroup, NoRecovery
<1>2. Ids' = Ids /\ Dependencies' = Dependencies /\ Channels' = Channels
  BY <1>1 DEF Ids, Dependencies, Channels
<1>3. Instances' = Instances /\ Leaders' = Leaders /\ Proposals' = Proposals /\ Replies' = Replies
      /\ Attributes' = Attributes /\ Answers' = Answers
  BY <1>2 DEF Instances, Leaders, Proposals, Replies, Attributes, Answers
<1> QED
  BY <1>1, <1>2, <1>3 DEF Letters

\* A replica's state has its type after a step if the state it took has.
LEMMA TypedAgain ==
  ASSUME group' = group, NEW q, NEW x, node'[q] = x, NodeTyped(x), Ballots(x)
  PROVE  NodeTyped(node[q])' /\ Ballots(node[q])'
<1>1. FieldsTyped(node[q])'
  BY SameGroup DEF NodeTyped, FieldsTyped
<1>2. Timed(node[q])' /\ Listed(node[q])' /\ Linked(node[q])'
  BY SameGroup DEF NodeTyped, Timed, Listed, Linked
<1>3. Ballots(node[q])'
  BY DEF Ballots
<1> QED
  BY <1>1, <1>2, <1>3 DEF NodeTyped

\* A replica that wakes up changes nothing else.
LEMMA AwakeIs ==
  ASSUME NEW n, NodeTyped(n), Ballots(n), NEW b \in BOOLEAN
  PROVE  LET t == [n EXCEPT !.asleep = b]
         IN  NodeTyped(t) /\ Ballots(t) /\ Rest(n, t, {"asleep"})
<1> DEFINE t == [n EXCEPT !.asleep = b]
<1>1. Rest(n, t, {"asleep"}) /\ t.asleep = b
  BY DEF NodeTyped, FieldsTyped, Rest, Fields
<1> HIDE DEF t
<1>2. FieldsTyped(t)
  BY <1>1 DEF NodeTyped, FieldsTyped, Rest, Fields
<1>3. Timed(t) /\ Listed(t) /\ Linked(t) /\ Ballots(t)
  BY <1>1 DEF NodeTyped, Timed, Listed, Linked, Ballots, Rest, Fields
<1> QED
  BY <1>1, <1>2, <1>3 DEF NodeTyped, t

\* Replica r goes to the state t; the messages of gone are received, those of out sent.
Goes(r, t, gone, out) ==
  /\ r \in Replicas /\ NodeTyped(t) /\ Ballots(t)
  /\ node' = [node EXCEPT ![r] = t] /\ group' = group /\ crashed' = crashed
  /\ NetTyped' /\ gone \subseteq Flying /\ Outgoing(out)
  /\ Flying' \subseteq Flying \cup out /\ Flying \ gone \subseteq Flying' /\ out \subseteq Flying'
  /\ Distinct => /\ Flying' = (Flying \ gone) \cup out
                 /\ (\A o \in out, f \in Flying \ gone : f[1] = o[1] => f[2].id # o[2].id) => Distinct'

\* The network has its type after a step if its queues have.
LEMMA NetTypedAgain ==
  ASSUME group' = group, QueuesOf(net')
  PROVE  NetTyped'
BY SameGroup DEF NetTyped, QueuesOf

\* A message that is handled leaves the network.
LEMMA ReceivesIs ==
  ASSUME NetTyped, NEW r \in Replicas, NEW c \in DOMAIN net, NEW n, NodeTyped(n), Ballots(n), NEW out, Outgoing(out),
         Receives(r, c, n, out)
  PROVE  LET t == [n EXCEPT !.asleep = FALSE]
         IN  Goes(r, t, {<<c, Head(net[c])>>}, out) /\ Rest(n, t, {"asleep"})
<1> DEFINE t == [n EXCEPT !.asleep = FALSE]
           w == Without(c)
           gone == {<<c, Head(net[c])>>}
<1>1. NodeTyped(t) /\ Ballots(t) /\ Rest(n, t, {"asleep"})
  BY AwakeIs
<1>2. node' = [node EXCEPT ![r] = t] /\ group' = group /\ crashed' = crashed /\ net' = Sent(w, out)
  BY DEF Receives, Becomes
<1>3. /\ QueuesOf(w) /\ FlyingIn(w) \subseteq Flying /\ Flying \ gone \subseteq FlyingIn(w) /\ gone \subseteq Flying
      /\ Distinct => /\ DistinctIn(w)
                     /\ \A f \in FlyingIn(w) : f[1] = c => f[2].id # Head(net[c]).id
  BY WithoutIs
<1> HIDE DEF t, w
<1>4. QueuesOf(net') /\ FlyingIn(net') = FlyingIn(w) \cup out
  BY <1>2, <1>3, SentIs
<1>5. Flying' = FlyingIn(net')
  BY DEF Flying, FlyingIn
<1>6. NetTyped'
  BY <1>2, <1>4, NetTypedAgain
<1>7. ASSUME Distinct PROVE FlyingIn(w) = Flying \ gone
  <2>1. <<c, Head(net[c])>> \notin FlyingIn(w)
    <3> DEFINE f == <<c, Head(net[c])>>
    <3>1. f[1] = c /\ f[2].id = Head(net[c]).id
      OBVIOUS
    <3> HIDE DEF f
    <3>2. f \notin FlyingIn(w)
      BY <1>3, <1>7, <3>1
    <3> QED
      BY <3>2 DEF f
  <2> QED
    BY <1>3, <2>1
<1>8. ASSUME Distinct, \A o \in out, f \in Flying \ gone : f[1] = o[1] => f[2].id # o[2].id PROVE Distinct'
  <2>1. DistinctIn(Sent(w, out))
    BY <1>3, <1>7, <1>8, SentDistinct
  <2> QED
    BY <1>2, <2>1 DEF Distinct, DistinctIn
<1> HIDE DEF gone
<1>9. Goes(r, t, gone, out)
  BY <1>1, <1>2, <1>3, <1>4, <1>5, <1>6, <1>7, <1>8 DEF Goes
<1> QED
  BY <1>1, <1>9 DEF t, gone

\* An action that a replica begins of itself takes no message away.
LEMMA StartsIs ==
  ASSUME NetTyped, NEW r \in Replicas, NEW n, NodeTyped(n), Ballots(n), NEW out, Outgoing(out), Starts(r, n, out)
  PROVE  LET t == [n EXCEPT !.asleep = FALSE]
         IN  Goes(r, t, {}, out) /\ Rest(n, t, {"asleep"})
<1> DEFINE t == [n EXCEPT !.asleep = FALSE]
<1>1. NodeTyped(t) /\ Ballots(t) /\ Rest(n, t, {"asleep"})
  BY AwakeIs
<1>2. node' = [node EXCEPT ![r] = t] /\ group' = group /\ crashed' = crashed /\ net' = Sent(net, out)
  BY DEF Starts, Becomes
<1> HIDE DEF t
<1>3. QueuesOf(net') /\ FlyingIn(net') = FlyingIn(net) \cup out
  BY <1>2, SentIs DEF NetTyped
<1>4. Flying' = FlyingIn(net') /\ Flying = FlyingIn(net)
  BY DEF Flying, FlyingIn
<1>5. NetTyped'
  BY <1>2, <1>3, NetTypedAgain
<1>6. ASSUME Distinct, \A o \in out, f \in Flying \ {} : f[1] = o[1] => f[2].id # o[2].id PROVE Distinct'
  <2>1. DistinctIn(Sent(net, out))
    BY <1>4, <1>6, SentDistinct DEF NetTyped, Distinct
  <2> QED
    BY <1>2, <2>1 DEF Distinct, DistinctIn
<1>7. Goes(r, t, {}, out)
  BY <1>1, <1>2, <1>3, <1>4, <1>5, <1>6 DEF Goes
<1> QED
  BY <1>1, <1>7 DEF t

(***************************************************************************)
(* What each handler does.                                                 *)
(***************************************************************************)
\* The messages that ask for the attributes of an instance.
Asks(r, id, cmd, deps, out) ==
  \A o \in out :
    /\ o[1] \in Channels /\ o[1].type = "PreAccept" /\ o[1].from = r /\ o[1].to # r
    /\ o[2] \in Proposals /\ o[2].id = id /\ o[2].ballot = r /\ o[2].cmds = cmd /\ o[2].deps = deps

Proposing(r, t, out) ==
  LET n == node[r]
      id == NextId(n, r)
      cmd == Head(n.todo)
  IN  /\ n.todo # <<>> /\ id \in Ids /\ cmd \in Commands
      /\ Rest(n, t, {"todo", "inst", "lb", "created", "crtInstance", "last", "lastWrite", "maxSeqPerKey", "asleep"})
      /\ t.todo = Tail(n.todo) /\ t.crtInstance = [n.crtInstance EXCEPT ![r] = @ + 1]
      /\ More(n, t) /\ Knows(t, id, cmd)
      /\ \E attr :
           /\ t.inst = With(n.inst, id, FirstInstance(r, id, cmd, attr))
           /\ t.lb = With(n.lb, id, FirstLb(r, cmd, attr))
           /\ attr.seq \in Int /\ attr.deps \in Dependencies
           /\ \A q \in Replicas :
                /\ attr.deps[q] = -1 \/ <<q, attr.deps[q]>> \in DOMAIN n.inst
                /\ Conflicts(n, cmd)[q] <= attr.deps[q]
           /\ Asks(r, id, cmd, attr.deps, out)
      /\ \E dead \in SUBSET crashed : out = PreAccepts(t, r, id, dead)

\* A replica writes its record of another's instance.
Written(r, t, id, i) ==
  LET n == node[r]
  IN  /\ Rest(n, t, {"inst", "created", "last", "lastWrite", "maxSeqPerKey", "maxRecvBallot", "crtInstance", "asleep"})
      /\ t.inst = With(n.inst, id, i) /\ More(n, t)
      /\ \A q \in Replicas : t.crtInstance[q] = n.crtInstance[q] \/ (q = Row(id) /\ t.crtInstance[q] = Number(id))
      /\ \A q \in Replicas : n.crtInstance[q] <= t.crtInstance[q]

PreAccepting(r, t, c, m, out) ==
  LET n == node[r]
      i == Inst(n, m.id)
  IN  /\ IF i.status >= ACCEPTED THEN Written(r, t, m.id, i)
         ELSE \E attr, status :
                /\ Extends(n, r, m.cmds, m.deps, m.id, attr)
                /\ status \in {PREACCEPTED, PREACCEPTED_EQ}
                /\ Written(r, t, m.id, NewInstance(m.cmds, m.ballot, status, attr.seq, attr.deps))
                /\ Knows(t, m.id, m.cmds)
      /\ out = {<<Channel("PreAcceptReply", r, c.from), PreAcceptReply(t, m.id)>>}

Accepting(r, t, c, m, out) ==
  LET i == Inst(node[r], m.id)
  IN  /\ Written(r, t, m.id, IF i.status >= COMMITTED THEN i ELSE NewInstance(i.cmds, m.ballot, i.status, m.seq, m.deps))
      /\ out = {<<Channel("AcceptReply", r, c.from), AcceptReply(t, m.id)>>}

Committing(r, t, m, out) ==
  LET i == Inst(node[r], m.id)
  IN  /\ IF i.status >= COMMITTED THEN Written(r, t, m.id, i)
         ELSE /\ Written(r, t, m.id, NewInstance(m.cmds, m.ballot, COMMITTED, m.seq, m.deps))
              /\ Knows(t, m.id, m.cmds)
      /\ out = {}

\* What has been written to the state u of replica r is written to r.
LEMMA WritesWritten ==
  ASSUME Sound, NEW r \in Replicas, NEW id \in Ids, NEW b \in Int, NEW v, NEW t, NEW i,
         Writes(Reached(Seen(node[r], b), id), v, id, i), Rest(v, t, {"asleep"})
  PROVE  Written(r, t, id, i)
<1> DEFINE n == node[r]
           s == Seen(n, b)
           u == Reached(s, id)
<1>1. InGroup /\ NodeTyped(n)
  BY DEF Sound, Nodes
<1>2. NodeTyped(s) /\ Rest(n, s, {"maxRecvBallot"})
  BY <1>1, SeenIs
<1> HIDE DEF s
<1>3. /\ NodeTyped(u) /\ Rest(s, u, {"crtInstance"})
      /\ \A q \in Replicas : u.crtInstance[q] = s.crtInstance[q] \/ (q = Row(id) /\ u.crtInstance[q] = Number(id))
      /\ \A q \in Replicas : s.crtInstance[q] <= u.crtInstance[q]
  BY <1>1, <1>2, ReachedIs
<1>4. /\ NodeTyped(v) /\ Rest(u, v, {"inst", "created", "last", "lastWrite", "maxSeqPerKey"})
      /\ v.inst = With(u.inst, id, i) /\ More(u, v)
  BY DEF Writes, s
<1> HIDE DEF n, u
<1>5. /\ Rest(n, t, {"inst", "created", "last", "lastWrite", "maxSeqPerKey", "maxRecvBallot", "crtInstance", "asleep"})
      /\ t.inst = With(n.inst, id, i) /\ u.last = n.last /\ u.lastWrite = n.lastWrite /\ t.last = v.last
      /\ t.lastWrite = v.lastWrite /\ t.crtInstance = u.crtInstance /\ s.crtInstance = n.crtInstance
  BY <1>2, <1>3, <1>4 DEF Rest, Fields
<1>6. More(n, t)
  BY <1>4, <1>5 DEF More
<1> QED
  BY <1>3, <1>5, <1>6 DEF Written, n

\* The state of a replica that has received a message about an instance.
LEMMA ReachedSeen ==
  ASSUME Sound, NEW r \in Replicas, NEW id \in Ids, NEW b \in Int
  PROVE  LET u == Reached(Seen(node[r], b), id)
         IN  /\ NodeTyped(u) /\ Ballots(u) /\ Number(id) <= u.crtInstance[Row(id)]
             /\ u.inst = node[r].inst /\ u.last = node[r].last /\ u.lastWrite = node[r].lastWrite
             /\ Inst(u, id) = Inst(node[r], id)
<1> DEFINE n == node[r]
           s == Seen(n, b)
           u == Reached(s, id)
<1>1. InGroup /\ NodeTyped(n) /\ Ballots(n)
  BY DEF Sound, Nodes
<1>2. NodeTyped(s) /\ Rest(n, s, {"maxRecvBallot"})
  BY <1>1, SeenIs
<1> HIDE DEF s
<1>3. NodeTyped(u) /\ Rest(s, u, {"crtInstance"}) /\ Number(id) <= u.crtInstance[Row(id)]
  BY <1>1, <1>2, ReachedIs
<1> HIDE DEF n, u
<1>4. u.inst = n.inst /\ u.last = n.last /\ u.lastWrite = n.lastWrite
  BY <1>2, <1>3 DEF Rest, Fields
<1>5. Ballots(u) /\ Inst(u, id) = Inst(n, id)
  BY <1>1, <1>4 DEF Ballots, Inst
<1> QED
  BY <1>3, <1>4, <1>5 DEF n, u, s

\* A message and what is known of it.
LEMMA Received ==
  ASSUME Sound, NEW c \in DOMAIN net
  PROVE  LET m == Head(net[c])
         IN  /\ <<c, m>> \in Flying /\ MailOf(c, m) /\ m.id \in Ids /\ m.ballot = Row(m.id)
             /\ Row(m.id) \in Replicas /\ m.ballot \in Int /\ m.ballot \in Nat
<1> DEFINE m == Head(net[c])
           f == <<c, m>>
<1>1. f \in Flying /\ f[1] = c /\ f[2] = m
  BY WithoutIs DEF Sound
<1> HIDE DEF f, m
<1>2. MailOf(c, m)
  BY <1>1 DEF Sound, Mail
<1>3. m.id \in Ids /\ m.ballot = Row(m.id)
  BY <1>2 DEF MailOf, Led, Addressed
<1>4. Row(m.id) \in Replicas /\ Replicas \subseteq Nat
  BY <1>3, IdIs, GroupIs DEF Sound
<1>5. <<c, m>> \in Flying
  BY <1>1 DEF f
<1>6. Row(m.id) \in Nat
  BY <1>4
<1>7. m.ballot \in Nat
  BY <1>3, <1>6
<1>8. m.ballot \in Int
  BY <1>7
<1> QED
  BY <1>2, <1>3, <1>4, <1>5, <1>7, <1>8 DEF m

\* A record whose ballots are its owner's keeps every ballot an owner's.
LEMMA WritesBallots ==
  ASSUME NEW n, Ballots(n), NEW t, NEW id, NEW i, t.inst = With(n.inst, id, i), i.bal = Row(id), i.vbal = Row(id)
  PROVE  Ballots(t)
BY DEF Ballots, With

\* handlePreAccept
LEMMA HandlesPreAccept ==
  ASSUME Sound, NEW r \in Replicas, NEW c \in DOMAIN net, c.to = r, c.type = "PreAccept",
         HandlePreAccept(r, c, Head(net[c]))
  PROVE  \E t, out : /\ Goes(r, t, {<<c, Head(net[c])>>}, out)
                     /\ PreAccepting(r, t, c, Head(net[c]), out)
<1> DEFINE m == Head(net[c])
           n == node[r]
           u == Reached(Seen(n, m.ballot), m.id)
           v == PreAccepted(u, r, m)
           t == [v EXCEPT !.asleep = FALSE]
           out == {<<Channel("PreAcceptReply", r, c.from), PreAcceptReply(v, m.id)>>}
           i == Inst(n, m.id)
<1>1. /\ MailOf(c, m) /\ m.id \in Ids /\ m.ballot = Row(m.id) /\ m.ballot \in Int /\ m.ballot \in Nat
  BY Received
<1>2. /\ NodeTyped(u) /\ Ballots(u) /\ Number(m.id) <= u.crtInstance[Row(m.id)]
      /\ u.inst = n.inst /\ u.last = n.last /\ u.lastWrite = n.lastWrite /\ Inst(u, m.id) = i
  BY <1>1, ReachedSeen
<1>3. m.cmds \in Commands /\ m.seq \in Int /\ m.deps \in Dependencies
  BY <1>1 DEF MailOf, Addressed, Letter, Proposals
<1> HIDE DEF m, n, i
<1>4. InGroup /\ NetTyped
  BY DEF Sound
<1>5. HandlePreAccept(r, c, m)
  BY DEF m
<1>6. Receives(r, c, v, out)
  <2> HIDE DEF u
  <2>1. ~(m.ballot < Inst(u, m.id).bal)
    <3>1. CASE m.id \in DOMAIN u.inst
      BY <1>1, <1>2, <3>1 DEF Ballots, Inst
    <3>2. CASE m.id \notin DOMAIN u.inst
      BY <1>1, <3>2 DEF Inst, NewInstanceDefault, NewInstance
    <3> QED
      BY <3>1, <3>2
  <2> QED
    BY <1>5, <2>1 DEF HandlePreAccept, u, n
<1>7. /\ IF i.status >= ACCEPTED THEN Writes(u, v, m.id, i)
         ELSE \E attr, status :
                /\ Extends(u, r, m.cmds, m.deps, m.id, attr)
                /\ status \in {PREACCEPTED, PREACCEPTED_EQ}
                /\ Writes(u, v, m.id, NewInstance(m.cmds, m.ballot, status, attr.seq, attr.deps))
                /\ Knows(v, m.id, m.cmds)
  <2> HIDE DEF u
  <2> QED
    BY <1>1, <1>2, <1>3, <1>4, PreAcceptedIs
<1> HIDE DEF u, v
<1>8. \A a : Extends(u, r, m.cmds, m.deps, m.id, a) => Extends(n, r, m.cmds, m.deps, m.id, a)
  BY <1>2 DEF Extends, Conflicts
<1>9. PICK j : /\ Writes(u, v, m.id, j) /\ j \in Instances /\ j.bal = Row(m.id) /\ j.vbal = Row(m.id)
  <2>1. CASE i.status >= ACCEPTED
    <3>1. m.id \in DOMAIN u.inst /\ i = u.inst[m.id] /\ i \in Instances
      BY <1>1, <1>2, <1>4, <2>1, InstIs DEF ACCEPTED, PREACCEPTED
    <3> QED
      BY <1>2, <1>7, <2>1, <3>1 DEF Ballots
  <2>2. CASE ~(i.status >= ACCEPTED)
    <3>1. PICK attr, status :
                /\ Extends(u, r, m.cmds, m.deps, m.id, attr)
                /\ status \in {PREACCEPTED, PREACCEPTED_EQ}
                /\ Writes(u, v, m.id, NewInstance(m.cmds, m.ballot, status, attr.seq, attr.deps))
      BY <1>7, <2>2
    <3> DEFINE j == NewInstance(m.cmds, m.ballot, status, attr.seq, attr.deps)
    <3>2. status \in NONE .. EXECUTED /\ attr.seq \in Int /\ attr.deps \in Dependencies
      BY <3>1 DEF PREACCEPTED, PREACCEPTED_EQ, NONE, EXECUTED, Extends
    <3>3. j \in Instances /\ j.bal = Row(m.id) /\ j.vbal = Row(m.id)
      BY <1>1, <1>3, <3>2 DEF NewInstance, Instances
    <3> QED
      BY <3>1, <3>3
  <2> QED
    BY <2>1, <2>2
<1>10. NodeTyped(v) /\ v.inst = With(u.inst, m.id, j) /\ Ballots(v)
  <2>1. NodeTyped(v) /\ v.inst = With(u.inst, m.id, j)
    BY <1>9 DEF Writes
  <2> QED
    BY <1>2, <1>9, <2>1, WritesBallots
<1>11. PreAcceptReply(v, m.id) \in Letters
  <2>1. v.inst[m.id] = j
    BY <1>10 DEF With
  <2> HIDE DEF v
  <2>2. PreAcceptReply(v, m.id) \in Replies
    BY <1>1, <1>9, <2>1 DEF PreAcceptReply, Replies, Instances
  <2> QED
    BY <2>2 DEF Letters
<1>12. Outgoing(out)
  BY <1>11, ToOne
<1>13. Goes(r, t, {<<c, m>>}, out) /\ Rest(v, t, {"asleep"})
  BY <1>4, <1>6, <1>10, <1>12, ReceivesIs DEF m
<1>14. t.inst = v.inst /\ t.last = v.last /\ t.lastWrite = v.lastWrite
  BY <1>13 DEF Rest, Fields
<1> HIDE DEF t
<1>15. PreAcceptReply(t, m.id) = PreAcceptReply(v, m.id)
  BY <1>14 DEF PreAcceptReply
<1>16. Knows(v, m.id, m.cmds) => Knows(t, m.id, m.cmds)
  BY <1>14 DEF Knows
<1>17. \A k : Writes(u, v, m.id, k) => Written(r, t, m.id, k)
  BY <1>1, <1>13, WritesWritten DEF u, n
<1>18. PreAccepting(r, t, c, m, out)
  <2>1. CASE i.status >= ACCEPTED
    BY <1>7, <1>15, <1>17, <2>1 DEF PreAccepting, i, n
  <2>2. CASE ~(i.status >= ACCEPTED)
    BY <1>7, <1>8, <1>15, <1>16, <1>17, <2>2 DEF PreAccepting, i, n
  <2> QED
    BY <2>1, <2>2
<1> QED
  BY <1>13, <1>18 DEF m

Awake(n) == [n EXCEPT !.asleep = FALSE]

\* A replica that wakes up has the log it had.
LEMMA AwakeSame ==
  ASSUME NEW n, NodeTyped(n)
  PROVE  /\ Awake(n).inst = n.inst /\ Awake(n).lb = n.lb
         /\ Awake(n).last = n.last /\ Awake(n).lastWrite = n.lastWrite
BY DEF Awake, NodeTyped, FieldsTyped, Fields

\* A replica has written its record and answers.
LEMMA Answered ==
  ASSUME Sound, NEW r \in Replicas, NEW c \in DOMAIN net, NEW id \in Ids, NEW b \in Int, NEW v, NEW j \in Instances,
         Writes(Reached(Seen(node[r], b), id), v, id, j), j.bal = Row(id), j.vbal = Row(id),
         NEW out, Outgoing(out), Receives(r, c, v, out)
  PROVE  LET t == Awake(v)
         IN  Goes(r, t, {<<c, Head(net[c])>>}, out) /\ Written(r, t, id, j)
<1> DEFINE u == Reached(Seen(node[r], b), id)
           t == Awake(v)
<1>1. NodeTyped(u) /\ Ballots(u)
  BY ReachedSeen
<1>2. Writes(u, v, id, j)
  OBVIOUS
<1> HIDE DEF u
<1>3. NodeTyped(v) /\ v.inst = With(u.inst, id, j)
  BY <1>2 DEF Writes
<1>4. Ballots(v)
  BY <1>1, <1>3, WritesBallots
<1>5. Goes(r, t, {<<c, Head(net[c])>>}, out) /\ Rest(v, t, {"asleep"})
  BY <1>3, <1>4, ReceivesIs DEF Sound, Awake
<1> HIDE DEF t
<1>6. Written(r, t, id, j)
  BY <1>5, WritesWritten
<1> QED
  BY <1>5, <1>6 DEF t

\* handleAccept
LEMMA HandlesAccept ==
  ASSUME Sound, NEW r \in Replicas, NEW c \in DOMAIN net, c.to = r, c.type = "Accept",
         HandleAccept(r, c, Head(net[c]))
  PROVE  \E t, out : /\ Goes(r, t, {<<c, Head(net[c])>>}, out)
                     /\ Accepting(r, t, c, Head(net[c]), out)
<1> DEFINE m == Head(net[c])
           n == node[r]
           u == Reached(Seen(n, m.ballot), m.id)
           v == Accepted(u, m)
           out == {<<Channel("AcceptReply", r, c.from), AcceptReply(v, m.id)>>}
           i == Inst(n, m.id)
           j == IF i.status >= COMMITTED THEN i ELSE NewInstance(i.cmds, m.ballot, i.status, m.seq, m.deps)
<1>1. /\ MailOf(c, m) /\ m.id \in Ids /\ m.ballot = Row(m.id) /\ m.ballot \in Int /\ m.ballot \in Nat
  BY Received
<1>2. /\ NodeTyped(u) /\ Ballots(u) /\ Number(m.id) <= u.crtInstance[Row(m.id)]
      /\ u.inst = n.inst /\ Inst(u, m.id) = i
  BY <1>1, ReachedSeen
<1>3. m.seq \in Int /\ m.deps \in Dependencies
  BY <1>1 DEF MailOf, Addressed, Letter, Attributes
<1>4. InGroup /\ NetTyped
  BY DEF Sound
<1> HIDE DEF m
<1>5. Receives(r, c, v, out)
  BY DEF HandleAccept, m
<1>6. Writes(u, v, m.id, j)
  <2> HIDE DEF u, n, i
  <2>1. Writes(u, v, m.id, IF Inst(u, m.id).status >= COMMITTED THEN Inst(u, m.id)
                           ELSE NewInstance(Inst(u, m.id).cmds, m.ballot, Inst(u, m.id).status, m.seq, m.deps))
    BY <1>1, <1>2, <1>3, <1>4, AcceptedIs
  <2> QED
    BY <1>2, <2>1
<1>7. j \in Instances /\ j.bal = Row(m.id) /\ j.vbal = Row(m.id)
  <2> HIDE DEF u, n, i
  <2>1. /\ i.status \in NONE .. EXECUTED /\ i.cmds \in Commands \cup {Nil}
        /\ i.status >= PREACCEPTED => m.id \in DOMAIN u.inst
        /\ m.id \in DOMAIN u.inst => i = u.inst[m.id] /\ i \in Instances
    BY <1>1, <1>2, <1>4, InstIs
  <2>2. CASE i.status >= COMMITTED
    BY <1>2, <2>1, <2>2 DEF COMMITTED, PREACCEPTED, Ballots
  <2>3. CASE ~(i.status >= COMMITTED)
    <3>1. j = NewInstance(i.cmds, m.ballot, i.status, m.seq, m.deps)
      BY <2>3
    <3> QED
      BY <1>1, <1>3, <2>1, <3>1 DEF NewInstance, Instances
  <2> QED
    BY <2>2, <2>3
<1> HIDE DEF v
<1>8. Outgoing(out)
  <2>1. AcceptReply(v, m.id) \in Letters
    <3>1. v.inst[m.id].bal = Row(m.id)
      <4> HIDE DEF j
      <4> QED
        BY <1>6, <1>7 DEF Writes, With
    <3>2. AcceptReply(v, m.id) \in Answers
      BY <1>1, <3>1 DEF AcceptReply, Answers
    <3> QED
      BY <3>2 DEF Letters
  <2> QED
    BY <2>1, ToOne
<1>9. Writes(Reached(Seen(node[r], m.ballot), m.id), v, m.id, j)
  BY <1>6 DEF u, n
<1> HIDE DEF j, out, u, n, i
<1> DEFINE t == Awake(v)
<1>10. Goes(r, t, {<<c, Head(net[c])>>}, out) /\ Written(r, t, m.id, j)
  BY <1>1, <1>5, <1>7, <1>8, <1>9, Answered
<1>11. t.inst = v.inst
  BY <1>6, AwakeSame DEF Writes
<1> HIDE DEF t
<1>12. out = {<<Channel("AcceptReply", r, c.from), AcceptReply(t, m.id)>>}
  BY <1>11 DEF out, AcceptReply
<1>13. Accepting(r, t, c, m, out)
  BY <1>10, <1>12 DEF Accepting, j, i, n
<1> QED
  BY <1>10, <1>13 DEF m

\* handleCommit
LEMMA HandlesCommit ==
  ASSUME Sound, NEW r \in Replicas, NEW c \in DOMAIN net, c.to = r, c.type = "Commit",
         HandleCommit(r, c, Head(net[c]))
  PROVE  \E t : /\ Goes(r, t, {<<c, Head(net[c])>>}, {})
                /\ Committing(r, t, Head(net[c]), {})
<1> DEFINE m == Head(net[c])
           n == node[r]
           u == Reached(Seen(n, m.ballot), m.id)
           v == Committed(u, r, m)
           i == Inst(n, m.id)
<1>1. /\ MailOf(c, m) /\ m.id \in Ids /\ m.ballot = Row(m.id) /\ m.ballot \in Int /\ m.ballot \in Nat
  BY Received
<1>2. /\ NodeTyped(u) /\ Ballots(u) /\ Number(m.id) <= u.crtInstance[Row(m.id)]
      /\ u.inst = n.inst /\ Inst(u, m.id) = i
  BY <1>1, ReachedSeen
<1>3. m.cmds \in Commands /\ m.seq \in Int /\ m.deps \in Dependencies
  BY <1>1 DEF MailOf, Addressed, Letter, Proposals
<1>4. InGroup /\ NetTyped
  BY DEF Sound
<1> HIDE DEF m
<1>5. Receives(r, c, v, {})
  BY DEF HandleCommit, m
<1>6. IF i.status >= COMMITTED THEN Writes(u, v, m.id, i)
      ELSE /\ Writes(u, v, m.id, NewInstance(m.cmds, m.ballot, COMMITTED, m.seq, m.deps))
           /\ Knows(v, m.id, m.cmds)
  <2> HIDE DEF u, n, i
  <2> QED
    BY <1>1, <1>2, <1>3, <1>4, CommittedIs
<1> HIDE DEF v, u, n
<1>7. CASE i.status >= COMMITTED
  <2>1. i \in Instances /\ i.bal = Row(m.id) /\ i.vbal = Row(m.id)
    <3> HIDE DEF i
    <3>1. /\ i.status \in NONE .. EXECUTED
          /\ i.status >= PREACCEPTED => m.id \in DOMAIN u.inst
          /\ m.id \in DOMAIN u.inst => i = u.inst[m.id] /\ i \in Instances
      BY <1>1, <1>2, <1>4, InstIs
    <3> QED
      BY <1>2, <1>7, <3>1 DEF COMMITTED, PREACCEPTED, Ballots, NONE, EXECUTED
  <2>2. Writes(Reached(Seen(node[r], m.ballot), m.id), v, m.id, i)
    BY <1>6, <1>7 DEF u, n
  <2> HIDE DEF i
  <2> DEFINE t == Awake(v)
  <2>3. Goes(r, t, {<<c, Head(net[c])>>}, {}) /\ Written(r, t, m.id, i)
    BY <1>1, <1>5, <2>1, <2>2, Answered, ToNone
  <2> QED
    BY <1>7, <2>3 DEF Committing, m, i, n
<1>8. CASE ~(i.status >= COMMITTED)
  <2> DEFINE j == NewInstance(m.cmds, m.ballot, COMMITTED, m.seq, m.deps)
  <2>1. j \in Instances /\ j.bal = Row(m.id) /\ j.vbal = Row(m.id)
    BY <1>1, <1>3 DEF NewInstance, Instances, COMMITTED, NONE, EXECUTED
  <2>2. Writes(Reached(Seen(node[r], m.ballot), m.id), v, m.id, j) /\ Knows(v, m.id, m.cmds)
    BY <1>6, <1>8 DEF u, n
  <2> HIDE DEF j
  <2> DEFINE t == Awake(v)
  <2>3. Goes(r, t, {<<c, Head(net[c])>>}, {}) /\ Written(r, t, m.id, j)
    BY <1>1, <1>5, <2>1, <2>2, Answered, ToNone
  <2>4. Knows(t, m.id, m.cmds)
    BY <2>2, AwakeSame DEF Knows, Writes
  <2> QED
    BY <1>8, <2>3, <2>4 DEF Committing, m, i, j, n
<1> QED
  BY <1>7, <1>8

\* Nothing but the highest ballot and the executor's sleep may change.
Idle(r, t) == Rest(node[r], t, {"maxRecvBallot", "asleep"})

\* The leader's bookkeeping lb after a reply to a PreAccept.
Tallied(r, lb, m, l) ==
  /\ l \in Leaders /\ l.ballot = r
  /\ l.cmds = lb.cmds /\ l.lastTriedBallot = lb.lastTriedBallot /\ l.acceptOKs = lb.acceptOKs
  /\ l.preAcceptOKs = lb.preAcceptOKs + 1
  /\ IF IsDecided(l) THEN l.status \in {ACCEPTED, COMMITTED} ELSE IsPreAccepting(l)
  /\ \A q \in Replicas :
       /\ l.deps[q] \in {lb.deps[q], m.deps[q]}
       /\ q # r => m.deps[q] <= l.deps[q]
       /\ lb.ballot # -1 => lb.deps[q] <= l.deps[q]

\* A reply is counted.
Counting(r, t, id, l) ==
  /\ Rest(node[r], t, {"lb", "maxRecvBallot", "asleep"})
  /\ id \in DOMAIN node[r].lb /\ l \in Leaders /\ t.lb = With(node[r].lb, id, l)

\* An instance that was committed may have been executed.
Later(i, j) ==
  SameInstance(i, j) /\ (j.status = i.status \/ (i.status = COMMITTED /\ j.status = EXECUTED))

\* The owner's record of an instance takes over what has been decided.
Taking(r, t, id, l, out) ==
  LET n == node[r]
  IN  /\ Rest(n, t, {"inst", "lb", "executed", "torn", "maxRecvBallot", "asleep"})
      /\ id \in DOMAIN n.lb /\ l \in Leaders /\ l.status \in {ACCEPTED, COMMITTED} /\ l.ballot = r
      /\ DOMAIN t.inst = DOMAIN n.inst /\ t.lb = With(n.lb, id, l)
      /\ \A e \in DOMAIN n.inst \ {id} : Later(n.inst[e], t.inst[e])
      /\ SameInstance(l, t.inst[id])
      /\ t.inst[id].status = l.status \/ (l.status = COMMITTED /\ t.inst[id].status = EXECUTED)
      /\ IsPrefix(n.executed, t.executed)
      /\ \E dead \in SUBSET crashed : out = Out(t, r, id, l, dead)

\* Instances that were committed are executed.
Executing(r, t) ==
  LET n == node[r]
  IN  /\ Rest(n, t, {"inst", "executed", "torn", "asleep"})
      /\ DOMAIN t.inst = DOMAIN n.inst
      /\ \A e \in DOMAIN n.inst : Later(n.inst[e], t.inst[e])
      /\ IsPrefix(n.executed, t.executed)

\* What becomes of a message.
PreAcceptAnswered(r, t, m, out) ==
  \/ ~Open(m.id) /\ Idle(r, t) /\ out = {}
  \/ /\ Open(m.id)
     /\ \E l : /\ Tallied(r, Own(m.id), m, l)
               /\ \/ IsPreAccepting(l) /\ Counting(r, t, m.id, l) /\ out = {}
                  \/ Taking(r, t, m.id, l, out)

SameAttributes(a, b) ==
  a.cmds = b.cmds /\ a.seq = b.seq /\ a.deps = b.deps /\ a.ballot = b.ballot /\ a.lastTriedBallot = b.lastTriedBallot

AcceptAnswered(r, t, m, out) ==
  \/ Idle(r, t) /\ out = {}
  \/ /\ Own(m.id).status = ACCEPTED
     /\ \E l : /\ SameAttributes(l, Own(m.id))
               /\ \/ l.status = ACCEPTED /\ Counting(r, t, m.id, l) /\ out = {}
                  \/ l.status = COMMITTED /\ Taking(r, t, m.id, l, out)

\* An instance that a replica leads.
LEMMA OwnIs ==
  ASSUME Sound, NEW id, Led(id)
  PROVE  /\ id \in Ids /\ Row(id) \in Replicas /\ Own(id) \in Leaders
         /\ NodeTyped(node[Row(id)]) /\ Ballots(node[Row(id)])
         /\ id \in DOMAIN node[Row(id)].inst /\ node[Row(id)].inst[id] \in Instances
         /\ OwnerAt(Row(id), Own(id), node[Row(id)].inst[id])
<1> DEFINE n == node[Row(id)]
<1>1. id \in Ids /\ id \in DOMAIN n.lb
  BY DEF Led
<1>2. Row(id) \in Replicas
  BY <1>1, IdIs
<1>3. NodeTyped(n) /\ Ballots(n) /\ OwnerOf(n, id)
  BY <1>1, <1>2 DEF Sound, Nodes, Owners
<1> HIDE DEF n
<1>4. n.lb[id] \in Leaders
  BY <1>1, <1>3 DEF NodeTyped, FieldsTyped, IsMap
<1>5. id \in DOMAIN n.inst /\ OwnerAt(Row(id), n.lb[id], n.inst[id])
  BY <1>3 DEF OwnerOf
<1>6. n.inst[id] \in Instances
  BY <1>3, <1>5 DEF NodeTyped, FieldsTyped, IsMap
<1> QED
  BY <1>1, <1>2, <1>3, <1>4, <1>5, <1>6 DEF n, Own

\* A reply comes to the owner of its instance.
LEMMA OwnReceived ==
  ASSUME Sound, NEW c \in DOMAIN net, c.type \in {"PreAcceptReply", "AcceptReply"}
  PROVE  LET m == Head(net[c])
         IN  /\ Row(m.id) = c.to /\ Led(m.id) /\ Lb(node[c.to], m.id) = Own(m.id)
             /\ Own(m.id).lastTriedBallot = m.ballot
<1> DEFINE m == Head(net[c])
<1>1. MailOf(c, m) /\ m.ballot = Row(m.id)
  BY Received
<1> HIDE DEF m
<1>2. Row(m.id) = c.to /\ Led(m.id)
  BY <1>1 DEF MailOf, Addressed, Outward
<1>3. OwnerAt(Row(m.id), Own(m.id), node[Row(m.id)].inst[m.id])
  BY <1>2, OwnIs
<1>4. Lb(node[c.to], m.id) = Own(m.id)
  BY <1>2 DEF Lb, Own, Led
<1>5. Own(m.id).lastTriedBallot = m.ballot
  BY <1>1, <1>3 DEF OwnerAt
<1> QED
  BY <1>2, <1>4, <1>5 DEF m

\* A message changes nothing but the highest ballot seen.
LEMMA Ignores ==
  ASSUME Sound, NEW r \in Replicas, NEW c \in DOMAIN net, NEW b \in Int, Receives(r, c, Seen(node[r], b), {})
  PROVE  \E t : Goes(r, t, {<<c, Head(net[c])>>}, {}) /\ Idle(r, t)
<1> DEFINE s == Seen(node[r], b)
           t == [s EXCEPT !.asleep = FALSE]
           n == node[r]
<1>1. InGroup /\ NodeTyped(n) /\ Ballots(n) /\ NetTyped
  BY DEF Sound, Nodes
<1>2. NodeTyped(s) /\ Rest(n, s, {"maxRecvBallot"})
  BY <1>1, SeenIs
<1>3. Ballots(s)
  <2> HIDE DEF s
  <2>1. s.inst = n.inst
    BY <1>2 DEF Rest, Fields
  <2> QED
    BY <1>1, <2>1 DEF Ballots
<1>4. Goes(r, t, {<<c, Head(net[c])>>}, {}) /\ Rest(s, t, {"asleep"})
  BY <1>1, <1>2, <1>3, ReceivesIs, ToNone
<1>5. Idle(r, t)
  <2> HIDE DEF s, t
  <2> QED
    BY <1>2, <1>4 DEF Rest, Idle
<1> QED
  BY <1>4, <1>5

\* A reply changes the bookkeeping only.
LEMMA CountsOne ==
  ASSUME Sound, NEW r \in Replicas, NEW c \in DOMAIN net, NEW b \in Int, NEW id \in DOMAIN node[r].lb,
         NEW l \in Leaders, Receives(r, c, PutLb(Seen(node[r], b), id, l), {})
  PROVE  \E t : Goes(r, t, {<<c, Head(net[c])>>}, {}) /\ Counting(r, t, id, l)
<1> DEFINE s == Seen(node[r], b)
           u == PutLb(s, id, l)
           t == [u EXCEPT !.asleep = FALSE]
           n == node[r]
<1>1. InGroup /\ NodeTyped(n) /\ Ballots(n) /\ NetTyped
  BY DEF Sound, Nodes
<1>2. NodeTyped(s) /\ Rest(n, s, {"maxRecvBallot"})
  BY <1>1, SeenIs
<1> HIDE DEF s
<1>3. s.inst = n.inst /\ s.lb = n.lb
  BY <1>2 DEF Rest, Fields
<1>4. id \in DOMAIN s.inst
  BY <1>1, <1>3 DEF NodeTyped, Linked
<1>5. NodeTyped(u) /\ Rest(s, u, {"lb"}) /\ u.lb = With(s.lb, id, l)
  BY <1>1, <1>2, <1>4, PutLbIs
<1> HIDE DEF u
<1>6. u.inst = s.inst
  BY <1>5 DEF Rest, Fields
<1>7. Ballots(u)
  BY <1>1, <1>3, <1>6 DEF Ballots
<1>8. Receives(r, c, u, {})
  BY DEF u, s
<1>9. Goes(r, t, {<<c, Head(net[c])>>}, {}) /\ Rest(u, t, {"asleep"})
  BY <1>1, <1>5, <1>7, <1>8, ReceivesIs, ToNone
<1> HIDE DEF t
<1>10. Rest(n, t, {"lb", "maxRecvBallot", "asleep"})
  BY <1>2, <1>5, <1>9 DEF Rest
<1>11. t.lb = With(n.lb, id, l)
  BY <1>3, <1>5, <1>9 DEF Rest, Fields
<1>12. Counting(r, t, id, l)
  BY <1>10, <1>11 DEF Counting, n
<1> QED
  BY <1>9, <1>12

\* The messages that announce a decision.
Settles(r, id, l, out) ==
  \A o \in out :
    /\ o[1] \in Channels /\ o[1].type = (IF l.status = COMMITTED THEN "Commit" ELSE "Accept")
    /\ o[1].from = r /\ o[1].to # r
    /\ o[2].id = id /\ o[2].ballot = r /\ o[2].seq = l.seq /\ o[2].deps = l.deps
    /\ l.status = COMMITTED => o[2] \in Proposals /\ o[2].cmds = l.cmds
    /\ l.status # COMMITTED => o[2] \in Attributes

\* What a leader sends when it decides settles the instance.
LEMMA OutIs ==
  ASSUME InGroup, NEW r \in Replicas, NEW id \in Ids, NEW l \in Leaders, l.ballot = r, l.lastTriedBallot = r,
         NEW t, t.lb[id] \in Leaders, t.lb[id].ballot = r, t.lb[id].lastTriedBallot = r,
         t.lb[id].cmds = l.cmds, t.lb[id].seq = l.seq, t.lb[id].deps = l.deps, NEW dead
  PROVE  LET out == Out(t, r, id, l, dead)
         IN  Outgoing(out) /\ Settles(r, id, l, out)
<1> DEFINE lb == t.lb[id]
<1>1. /\ l.cmds \in Commands /\ l.seq \in Int /\ l.deps \in Dependencies /\ r \in Nat
      /\ lb.cmds = l.cmds /\ lb.seq = l.seq /\ lb.deps = l.deps /\ lb.ballot = r /\ lb.lastTriedBallot = r
  BY GroupIs DEF Leaders
<1>2. CASE l.status = COMMITTED
  <2> DEFINE body == [id |-> id, ballot |-> lb.ballot, cmds |-> lb.cmds, seq |-> lb.seq, deps |-> lb.deps]
             k == group.size - 1
             out == Broadcast("Commit", r, body, k, dead)
  <2>1. Out(t, r, id, l, dead) = out
    BY <1>2 DEF Out, Commits, ToAll, Broadcast
  <2> HIDE DEF lb
  <2>2. body \in Proposals
    BY <1>1 DEF Proposals
  <2>3. /\ body.id = id /\ body.ballot = r /\ body.seq = l.seq /\ body.deps = l.deps /\ body.cmds = l.cmds
    BY <1>1
  <2>4. body \in Letters /\ "Commit" \in Types
    BY <2>2 DEF Letters, Types
  <2> HIDE DEF body, k
  <2>5. /\ Outgoing(out)
        /\ \A o \in out : /\ o[1] \in Channels /\ o[1].type = "Commit" /\ o[1].from = r /\ o[1].to # r
                          /\ o[2] = body
    BY <2>4, ToPeers
  <2> HIDE DEF out
  <2>6. Settles(r, id, l, out)
    BY <1>2, <2>2, <2>3, <2>5 DEF Settles
  <2> QED
    BY <2>1, <2>5, <2>6
<1>3. CASE l.status # COMMITTED
  <2> DEFINE body == [id |-> id, ballot |-> lb.lastTriedBallot, seq |-> lb.seq, deps |-> lb.deps]
             out == Broadcast("Accept", r, body, AcceptPeers, dead)
  <2>1. Out(t, r, id, l, dead) = out
    BY <1>3 DEF Out, Accepts, Broadcast
  <2> HIDE DEF lb
  <2>2. body \in Attributes
    BY <1>1 DEF Attributes
  <2>3. /\ body.id = id /\ body.ballot = r /\ body.seq = l.seq /\ body.deps = l.deps
    BY <1>1
  <2>4. body \in Letters /\ "Accept" \in Types
    BY <2>2 DEF Letters, Types
  <2> HIDE DEF body
  <2>5. /\ Outgoing(out)
        /\ \A o \in out : /\ o[1] \in Channels /\ o[1].type = "Accept" /\ o[1].from = r /\ o[1].to # r
                          /\ o[2] = body
    BY <2>4, ToPeers
  <2> HIDE DEF out
  <2>6. Settles(r, id, l, out)
    BY <1>3, <2>2, <2>3, <2>5 DEF Settles
  <2> QED
    BY <2>1, <2>5, <2>6
<1> QED
  BY <1>2, <1>3

\* A decision is taken over by the state s, which differs from that of the replica by the
\* highest ballot that it has seen.
LEMMA TakenOver ==
  ASSUME Sound, NEW r \in Replicas, NEW c \in DOMAIN net, NEW s, Rest(node[r], s, {"maxRecvBallot"}),
         NEW id \in DOMAIN node[r].lb, NEW l \in Leaders, l.status \in {ACCEPTED, COMMITTED}, l.ballot = r,
         Row(id) = r, NEW u, Takeover(s, u, id, l), NEW dead \in SUBSET crashed, NEW out,
         out = Out(u, r, id, l, dead), Outgoing(out), Receives(r, c, u, out)
  PROVE  \E t : Goes(r, t, {<<c, Head(net[c])>>}, out) /\ Taking(r, t, id, l, out)
<1> DEFINE n == node[r]
           t == [u EXCEPT !.asleep = FALSE]
<1>1. InGroup /\ NodeTyped(n) /\ Ballots(n) /\ NetTyped
  BY DEF Sound, Nodes
<1>2. s.inst = n.inst /\ s.lb = n.lb /\ s.executed = n.executed
  BY DEF Rest, Fields
<1>3. NodeTyped(u) /\ Rest(s, u, {"inst", "lb", "executed", "torn"})
  BY DEF Takeover
<1>4. Ballots(u)
  <2> SUFFICES ASSUME NEW e \in DOMAIN u.inst
               PROVE  u.inst[e].bal = Row(e) /\ u.inst[e].vbal = Row(e)
    BY DEF Ballots
  <2>1. e \in DOMAIN n.inst
    BY <1>2 DEF Takeover
  <2>2. n.inst[e].bal = Row(e) /\ n.inst[e].vbal = Row(e)
    BY <1>1, <2>1 DEF Ballots
  <2> QED
    BY <1>2, <2>1, <2>2 DEF Takeover
<1>5. Goes(r, t, {<<c, Head(net[c])>>}, out) /\ Rest(u, t, {"asleep"})
  BY <1>1, <1>3, <1>4, ReceivesIs
<1> HIDE DEF t, n
<1>6. Rest(n, t, {"inst", "lb", "executed", "torn", "maxRecvBallot", "asleep"})
  BY <1>3, <1>5 DEF Rest, n
<1>7. t.inst = u.inst /\ t.lb = u.lb /\ t.executed = u.executed
  BY <1>5 DEF Rest, Fields
<1>8. Out(t, r, id, l, dead) = Out(u, r, id, l, dead)
  BY <1>7 DEF Out, Commits, Accepts
<1>9. /\ DOMAIN u.inst = DOMAIN s.inst /\ u.lb = With(s.lb, id, l)
      /\ \A e \in DOMAIN s.inst \ {id} :
           /\ SameInstance(s.inst[e], u.inst[e])
           /\ u.inst[e].status = s.inst[e].status \/ (s.inst[e].status = COMMITTED /\ u.inst[e].status = EXECUTED)
      /\ SameInstance(l, u.inst[id])
      /\ u.inst[id].status = l.status \/ (l.status = COMMITTED /\ u.inst[id].status = EXECUTED)
      /\ IsPrefix(s.executed, u.executed)
  BY DEF Takeover
<1>10. Taking(r, t, id, l, out)
  <2>1. \E d \in SUBSET crashed : out = Out(t, r, id, l, d)
    BY <1>8
  <2> QED
    BY <1>2, <1>6, <1>7, <1>9, <2>1 DEF Taking, Later, n
<1> QED
  BY <1>5, <1>10

\* handlePreAcceptReply
LEMMA HandlesPreAcceptReply ==
  ASSUME Sound, NEW r \in Replicas, NEW c \in DOMAIN net, c.to = r, c.type = "PreAcceptReply",
         HandlePreAcceptReply(r, c, Head(net[c]))
  PROVE  \E t, out : /\ Goes(r, t, {<<c, Head(net[c])>>}, out)
                     /\ PreAcceptAnswered(r, t, Head(net[c]), out)
<1> DEFINE m == Head(net[c])
           n == node[r]
           s == Seen(n, m.ballot)
           id == m.id
           lb == Own(id)
           l == NewLb(r, m)
<1>1. /\ MailOf(c, m) /\ id \in Ids /\ m.ballot = Row(id) /\ m.ballot \in Int
  BY Received
<1>2. Row(id) = r /\ Led(id) /\ Lb(n, id) = lb /\ lb.lastTriedBallot = m.ballot
  BY OwnReceived
<1> HIDE DEF m
<1>3. HandlePreAcceptReply(r, c, m)
  BY DEF m
<1>4. Decides(r, m) <=> Open(id)
  BY <1>2 DEF Decides, Open
<1>5. CASE ~Open(id)
  <2>1. Receives(r, c, s, {})
    BY <1>3, <1>4, <1>5 DEF HandlePreAcceptReply
  <2>2. \E t : Goes(r, t, {<<c, Head(net[c])>>}, {}) /\ Idle(r, t)
    BY <1>1, <2>1, Ignores
  <2> QED
    BY <1>5, <2>2 DEF m, PreAcceptAnswered
<1>6. CASE Open(id)
  <2>1. /\ n = node[Row(id)] /\ lb \in Leaders /\ NodeTyped(n) /\ id \in DOMAIN n.inst /\ n.inst[id] \in Instances
        /\ OwnerAt(r, lb, n.inst[id])
    BY <1>2, OwnIs
  <2>2. IsReply(m, r) /\ IsPreAccepting(lb) /\ lb.ballot \in {-1, r} /\ n.inst[id].status = PREACCEPTED
    <3>1. IsPreAccepting(lb)
      BY <1>6 DEF Open
    <3>2. IsReply(m, r)
      BY <1>1, <1>2, <3>1 DEF MailOf, MailAt
    <3> QED
      BY <2>1, <3>1, <3>2 DEF OwnerAt
  <2>3. l = Decided(Merged(r, Counted(lb, m), m), id)
    BY <1>2 DEF NewLb
  <2> HIDE DEF n, lb, l, s, id
  <2>4. InGroup
    BY DEF Sound
  <2>5. Tallied(r, lb, m, l)
    BY <2>1, <2>2, <2>3, <2>4, DecidedIs DEF Tallied
  <2>6. id \in DOMAIN n.lb
    BY <1>2 DEF Led, n
  <2>7. CASE ~IsDecided(l)
    <3>1. Receives(r, c, PutLb(Seen(node[r], m.ballot), id, l), {})
      BY <1>3, <1>4, <1>6, <2>7 DEF HandlePreAcceptReply, n, l, id
    <3>2. l \in Leaders /\ IsPreAccepting(l)
      BY <2>5, <2>7 DEF Tallied
    <3>3. \E t : Goes(r, t, {<<c, Head(net[c])>>}, {}) /\ Counting(r, t, id, l)
      BY <1>1, <2>6, <3>1, <3>2, CountsOne DEF n
    <3> QED
      BY <1>6, <2>5, <3>2, <3>3 DEF m, id, lb, PreAcceptAnswered
  <2>8. CASE IsDecided(l)
    <3>1. Takes(r, c, s, id, l)
      BY <1>3, <1>4, <1>6, <2>8 DEF HandlePreAcceptReply, s, n, l, id
    <3>2. PICK x \in WhileTaken(s, id, l), dead \in SUBSET crashed :
                Receives(r, c, AttributesTaken(x, id, l), Out(AttributesTaken(x, id, l), r, id, l, dead))
      BY <3>1 DEF Takes
    <3> DEFINE u == AttributesTaken(x, id, l)
               out == Out(u, r, id, l, dead)
    <3>3. l \in Leaders /\ l.status \in {ACCEPTED, COMMITTED} /\ l.ballot = r /\ l.lastTriedBallot = r
      BY <1>1, <1>2, <2>5, <2>8 DEF Tallied, id, lb
    <3>4. NodeTyped(s) /\ Rest(n, s, {"maxRecvBallot"})
      BY <1>1, <2>1, <2>4, SeenIs DEF s
    <3>5. s.inst = n.inst /\ s.lb = n.lb
      BY <3>4 DEF Rest, Fields
    <3>6. Takeover(s, u, id, l)
      <4>1. s.inst[id].status \in PREACCEPTED .. ACCEPTED /\ id \in DOMAIN s.inst
        BY <2>1, <2>2, <3>5 DEF PREACCEPTED, ACCEPTED
      <4>2. l.ballot # -1
        BY <2>4, <3>3, GroupIs
      <4> QED
        BY <2>4, <3>2, <3>3, <3>4, <4>1, <4>2, TakeoverIs
    <3> HIDE DEF u
    <3>7. u.lb[id] = l
      BY <3>6 DEF Takeover, With
    <3>8. Outgoing(out)
      BY <1>1, <2>4, <3>3, <3>7, OutIs DEF id
    <3>9. Receives(r, c, u, out)
      BY <3>2 DEF u
    <3> HIDE DEF out
    <3>10. out = Out(u, r, id, l, dead)
      BY DEF out
    <3>11. Row(id) = r /\ id \in DOMAIN node[r].lb /\ Rest(node[r], s, {"maxRecvBallot"})
      BY <1>2, <2>6, <3>4 DEF n, id
    <3>12. \E t : Goes(r, t, {<<c, Head(net[c])>>}, out) /\ Taking(r, t, id, l, out)
      BY <3>3, <3>6, <3>8, <3>9, <3>10, <3>11, TakenOver
    <3> QED
      BY <1>6, <2>5, <3>12 DEF m, id, lb, PreAcceptAnswered
  <2> QED
    BY <2>7, <2>8
<1> QED
  BY <1>5, <1>6

\* The bookkeeping after a reply to an Accept, and after the last of them.
LEMMA OneMoreIs ==
  ASSUME NEW lb \in Leaders
  PROVE  LET l == [lb EXCEPT !.acceptOKs = @ + 1]
         IN  l \in Leaders /\ SameAttributes(l, lb) /\ l.status = lb.status
<1> DEFINE k == lb.acceptOKs + 1
           l == [lb EXCEPT !.acceptOKs = k]
<1>1. k \in Nat
  BY DEF Leaders
<1> HIDE DEF k
<1>2. l \in Leaders /\ SameAttributes(l, lb) /\ l.status = lb.status
  BY <1>1 DEF Leaders, SameAttributes
<1> QED
  BY <1>2 DEF k

\* A leader that commits keeps its attributes.
LEMMA LastIs ==
  ASSUME NEW lb \in Leaders
  PROVE  LET d == [lb EXCEPT !.status = COMMITTED]
         IN  d \in Leaders /\ SameAttributes(d, lb) /\ d.status = COMMITTED
<1>1. COMMITTED \in PREACCEPTED .. COMMITTED
  BY DEF PREACCEPTED, COMMITTED
<1> QED
  BY <1>1 DEF Leaders, SameAttributes

\* handleAcceptReply
LEMMA HandlesAcceptReply ==
  ASSUME Sound, NEW r \in Replicas, NEW c \in DOMAIN net, c.to = r, c.type = "AcceptReply",
         HandleAcceptReply(r, c, Head(net[c]))
  PROVE  \E t, out : /\ Goes(r, t, {<<c, Head(net[c])>>}, out)
                     /\ AcceptAnswered(r, t, Head(net[c]), out)
<1> DEFINE m == Head(net[c])
           n == node[r]
           s == Seen(n, m.ballot)
           id == m.id
           lb == Own(id)
           l == [lb EXCEPT !.acceptOKs = @ + 1]
           d == [l EXCEPT !.status = COMMITTED]
<1>1. /\ MailOf(c, m) /\ id \in Ids /\ m.ballot = Row(id) /\ m.ballot \in Int
  BY Received
<1>2. Row(id) = r /\ Led(id) /\ Lb(n, id) = lb /\ lb.lastTriedBallot = m.ballot
  BY OwnReceived
<1>3. /\ n = node[Row(id)] /\ lb \in Leaders /\ NodeTyped(n) /\ Ballots(n) /\ id \in DOMAIN n.inst
      /\ n.inst[id] \in Instances /\ OwnerAt(r, lb, n.inst[id])
  BY <1>2, OwnIs
<1> HIDE DEF m
<1>4. HandleAcceptReply(r, c, m)
  BY DEF m
<1>5. InGroup
  BY DEF Sound
<1>6. NodeTyped(s) /\ Rest(n, s, {"maxRecvBallot"})
  BY <1>1, <1>3, <1>5, SeenIs
<1>7. s.inst = n.inst /\ s.lb = n.lb /\ s.executed = n.executed
  <2> HIDE DEF s
  <2> QED
    BY <1>6 DEF Rest, Fields
<1>8. Lb(s, id) = lb
  BY <1>2, <1>7 DEF Lb
<1>9. id \in DOMAIN n.lb
  BY <1>2 DEF Led
<1>10. /\ SameAttributes(l, lb) /\ SameAttributes(d, lb) /\ l.status = lb.status
       /\ l \in Leaders /\ d \in Leaders /\ l.ballot = lb.ballot /\ d.ballot = lb.ballot /\ d.status = COMMITTED
       /\ d.cmds = lb.cmds /\ d.seq = lb.seq /\ d.deps = lb.deps /\ d.lastTriedBallot = lb.lastTriedBallot
       /\ l.cmds = lb.cmds /\ l.seq = lb.seq /\ l.deps = lb.deps /\ l.lastTriedBallot = lb.lastTriedBallot
  <2> HIDE DEF lb
  <2>1. l \in Leaders /\ SameAttributes(l, lb) /\ l.status = lb.status
    BY <1>3, OneMoreIs
  <2> HIDE DEF l
  <2>2. d \in Leaders /\ SameAttributes(d, l) /\ d.status = COMMITTED
    BY <2>1, LastIs
  <2> HIDE DEF d
  <2> QED
    BY <2>1, <2>2 DEF SameAttributes
<1> HIDE DEF lb, s
<1>11. CASE ~IsAccepting(lb, m)
  <2>1. Receives(r, c, Seen(node[r], m.ballot), {})
    BY <1>4, <1>8, <1>11 DEF HandleAcceptReply, s
  <2>2. \E t : Goes(r, t, {<<c, Head(net[c])>>}, {}) /\ Idle(r, t)
    BY <1>1, <2>1, Ignores
  <2> QED
    BY <2>2 DEF m, AcceptAnswered
<1>12. CASE IsAccepting(lb, m) /\ ~HasAccepted(l)
  <2>1. Receives(r, c, PutLb(Seen(node[r], m.ballot), id, l), {})
    BY <1>4, <1>8, <1>12 DEF HandleAcceptReply, s
  <2> HIDE DEF l, id
  <2>2. \E t : Goes(r, t, {<<c, Head(net[c])>>}, {}) /\ Counting(r, t, id, l)
    BY <1>1, <1>9, <1>10, <2>1, CountsOne
  <2>3. lb.status = ACCEPTED
    BY <1>12 DEF IsAccepting
  <2> QED
    BY <1>10, <2>2, <2>3 DEF m, lb, id, AcceptAnswered
<1>13. CASE IsAccepting(lb, m) /\ HasAccepted(l)
  <2>1. PICK dead \in SUBSET crashed :
               Receives(r, c, StatusTaken(s, id, d), Commits(PutLb(s, id, l), r, id, dead))
    BY <1>4, <1>8, <1>13 DEF HandleAcceptReply, s
  <2> DEFINE u == StatusTaken(s, id, d)
             out == Commits(PutLb(s, id, l), r, id, dead)
  <2>2. lb.status = ACCEPTED /\ n.inst[id].status = ACCEPTED /\ SameInstance(lb, n.inst[id]) /\ lb.ballot = r
    <3>1. lb.status = ACCEPTED
      BY <1>13 DEF IsAccepting
    <3> QED
      BY <1>3, <3>1 DEF OwnerAt, IsPreAccepting, ACCEPTED, PREACCEPTED, PREACCEPTED_EQ
  <2> HIDE DEF l, d, id
  <2>3. /\ NodeTyped(u) /\ Rest(s, u, {"inst", "lb"}) /\ u.lb = With(s.lb, id, d)
        /\ u.inst = With(s.inst, id, [s.inst[id] EXCEPT !.status = d.status])
    <3>1. s.inst[id].status \in PREACCEPTED .. ACCEPTED /\ id \in DOMAIN s.inst
      BY <1>3, <1>7, <2>2 DEF PREACCEPTED, ACCEPTED
    <3>2. d.status \in {ACCEPTED, COMMITTED}
      BY <1>10
    <3> QED
      BY <1>5, <1>6, <1>10, <3>1, <3>2, StatusTakenIs
  <2> HIDE DEF u
  <2>4. Takeover(s, u, id, d)
    <3> DEFINE i == [n.inst[id] EXCEPT !.status = d.status]
    <3>1. SameInstance(d, i) /\ i.bal = n.inst[id].bal /\ i.vbal = n.inst[id].vbal /\ i.status = d.status
      BY <1>3, <1>10, <2>2 DEF SameInstance, Instances
    <3>2. n.inst[id].bal = d.ballot
      BY <1>2, <1>3, <1>10, <2>2 DEF Ballots
    <3> HIDE DEF i, n
    <3>3. u.inst = With(s.inst, id, i)
      BY <1>7, <2>3 DEF i
    <3>4. DOMAIN u.inst = DOMAIN s.inst /\ u.inst[id] = i /\ \A e \in DOMAIN s.inst \ {id} : u.inst[e] = s.inst[e]
      BY <1>3, <1>7, <3>3 DEF With
    <3>5. Rest(s, u, {"inst", "lb", "executed", "torn"})
      BY <2>3 DEF Rest
    <3>6. u.executed = s.executed
      BY <2>3 DEF Rest, Fields
    <3>7. IsPrefix(s.executed, u.executed)
      <4>1. s.executed \in Seq(Ids)
        BY <1>6 DEF NodeTyped, FieldsTyped
      <4> QED
        BY <3>6, <4>1 DEF IsPrefix
    <3> QED
      BY <1>7, <2>3, <3>1, <3>2, <3>4, <3>5, <3>7 DEF Takeover, SameInstance
  <2>5. PutLb(s, id, l).lb = With(s.lb, id, l)
    <3>1. id \in DOMAIN s.inst
      BY <1>3, <1>7
    <3> QED
      BY <1>5, <1>6, <1>10, <3>1, PutLbIs
  <2>6. u.lb[id] = d /\ PutLb(s, id, l).lb[id] = l
    BY <2>3, <2>5 DEF With
  <2>7. out = Out(u, r, id, d, dead)
    BY <1>10, <2>6 DEF Out, Commits
  <2>8. Outgoing(out)
    <3>1. d.ballot = r /\ d.lastTriedBallot = r
      BY <1>1, <1>2, <1>10, <2>2 DEF id
    <3>2. r \in Replicas /\ id \in Ids /\ u.lb[id] \in Leaders
      BY <1>1, <1>10, <2>6 DEF id
    <3> QED
      BY <1>5, <1>10, <2>6, <2>7, <3>1, <3>2, OutIs
  <2> HIDE DEF out
  <2>9. Receives(r, c, u, out)
    BY <2>1 DEF u, out
  <2>10. /\ Row(id) = r /\ id \in DOMAIN node[r].lb /\ Rest(node[r], s, {"maxRecvBallot"})
         /\ d.status \in {ACCEPTED, COMMITTED} /\ d.ballot = r /\ d \in Leaders
    BY <1>2, <1>6, <1>9, <1>10, <2>2 DEF n, id
  <2>11. \E t : Goes(r, t, {<<c, Head(net[c])>>}, out) /\ Taking(r, t, id, d, out)
    BY <2>4, <2>7, <2>8, <2>9, <2>10, TakenOver
  <2> QED
    BY <1>10, <2>2, <2>11 DEF m, lb, id, AcceptAnswered
<1> QED
  BY <1>11, <1>12, <1>13

\* A step of the executor.
LEMMA Executes ==
  ASSUME Sound, NEW r \in Replicas, NEW id \in DOMAIN node[r].inst, Execute(r, id)
  PROVE  \E t : Goes(r, t, {}, {}) /\ Executing(r, t)
<1> DEFINE n == node[r]
           u == ExecuteCommand(n, id)
           t == [u EXCEPT !.asleep = FALSE]
<1>1. InGroup /\ NodeTyped(n) /\ Ballots(n) /\ NetTyped
  BY DEF Sound, Nodes
<1>2. id \in Ready(n)
  <2>1. Inst(n, id).status = COMMITTED /\ id \in Ids
    BY <1>1 DEF Execute, MayExecute, NodeTyped, FieldsTyped, IsMap
  <2>2. Inst(n, id).cmds # Nil /\ Inst(n, id) = n.inst[id]
    <3> HIDE DEF n
    <3>1. Inst(n, id).status >= PREACCEPTED
      BY <2>1 DEF COMMITTED, PREACCEPTED
    <3> QED
      BY <1>1, <2>1, <3>1, InstIs
  <2> QED
    BY <2>1, <2>2 DEF Ready
<1>3. Runs(n, u)
  BY <1>1, <1>2, ExecuteCommandIs
<1>4. Starts(r, u, {})
  BY DEF Execute
<1> HIDE DEF n, u
<1>5. NodeTyped(u) /\ Ballots(u)
  BY <1>1, <1>3 DEF Runs, Ballots
<1>6. Goes(r, t, {}, {}) /\ Rest(u, t, {"asleep"})
  BY <1>1, <1>4, <1>5, StartsIs, ToNone
<1> HIDE DEF t
<1>7. Rest(n, t, {"inst", "executed", "torn", "asleep"})
  BY <1>3, <1>6 DEF Rest, Runs
<1>8. t.inst = u.inst /\ t.executed = u.executed
  BY <1>6 DEF Rest, Fields
<1>9. Executing(r, t)
  BY <1>3, <1>7, <1>8 DEF Executing, Runs, Later, n
<1> QED
  BY <1>6, <1>9

\* handlePropose
LEMMA AsksIs ==
  ASSUME InGroup, NEW r \in Replicas, NEW id \in Ids, NEW cmd \in Commands, NEW attr,
         attr.seq \in Int, attr.deps \in Dependencies, NEW t, t.lb[id] = FirstLb(r, cmd, attr), NEW dead
  PROVE  LET out == PreAccepts(t, r, id, dead)
         IN  Outgoing(out) /\ Asks(r, id, cmd, attr.deps, out)
<1> DEFINE lb == t.lb[id]
           body == [id |-> id, ballot |-> lb.lastTriedBallot, cmds |-> lb.cmds, seq |-> lb.seq, deps |-> lb.deps]
           out == Broadcast("PreAccept", r, body, PreAcceptPeers, dead)
<1>1. PreAccepts(t, r, id, dead) = out
  BY DEF PreAccepts, Broadcast
<1>2. lb.lastTriedBallot = r /\ lb.cmds = cmd /\ lb.seq = -1 /\ lb.deps = attr.deps /\ r \in Nat
  BY GroupIs DEF FirstLb, NewLeaderBookkeeping
<1> HIDE DEF lb
<1>3. body \in Proposals
  BY <1>2 DEF Proposals
<1>4. body.id = id /\ body.ballot = r /\ body.deps = attr.deps /\ body.cmds = cmd
  BY <1>2
<1>5. body \in Letters /\ "PreAccept" \in Types
  BY <1>3 DEF Letters, Types
<1> HIDE DEF body
<1>6. /\ Outgoing(out)
      /\ \A o \in out : /\ o[1] \in Channels /\ o[1].type = "PreAccept" /\ o[1].from = r /\ o[1].to # r
                        /\ o[2] = body
  BY <1>5, ToPeers
<1> HIDE DEF out
<1>7. Asks(r, id, cmd, attr.deps, out)
  BY <1>3, <1>4, <1>6 DEF Asks
<1> QED
  BY <1>1, <1>6, <1>7

\* handlePropose() as one step.
LEMMA HandlesPropose ==
  ASSUME Sound, NEW r \in Replicas, HandlePropose(r)
  PROVE  \E t, out : Goes(r, t, {}, out) /\ Proposing(r, t, out)
<1> DEFINE n == node[r]
           u == Proposed(n, r)
           id == NextId(n, r)
           cmd == Head(n.todo)
           t == Awake(u)
<1>1. InGroup /\ NodeTyped(n) /\ Ballots(n) /\ NetTyped
  BY DEF Sound, Nodes
<1>2. n.todo # <<>>
  BY DEF HandlePropose
<1>3. PICK dead \in SUBSET crashed : Starts(r, u, PreAccepts(u, r, id, dead))
  BY DEF HandlePropose
<1> DEFINE out == PreAccepts(u, r, id, dead)
<1>4. id \notin DOMAIN n.inst
  <2>1. n.crtInstance[r] \in Int /\ Row(id) = r /\ Number(id) = n.crtInstance[r] + 1
    BY <1>1 DEF NodeTyped, FieldsTyped, Dependencies, NextId, Row, Number
  <2>2. \A e \in DOMAIN n.inst : Number(e) <= n.crtInstance[Row(e)]
    BY <1>1 DEF NodeTyped, Linked
  <2> HIDE DEF id, n
  <2> QED
    BY <2>1, <2>2
<1>5. /\ id \in Ids /\ cmd \in Commands /\ NodeTyped(u)
      /\ Rest(n, u, {"todo", "inst", "lb", "created", "crtInstance", "last", "lastWrite", "maxSeqPerKey"})
      /\ u.todo = Tail(n.todo)
      /\ u.crtInstance = [n.crtInstance EXCEPT ![r] = @ + 1]
      /\ More(n, u) /\ Knows(u, id, cmd)
  <2> HIDE DEF n
  <2> QED
    BY <1>1, <1>2, <1>4, ProposedIs
<1>6. PICK attr : /\ u.inst = With(n.inst, id, FirstInstance(r, id, cmd, attr))
                  /\ u.lb = With(n.lb, id, FirstLb(r, cmd, attr))
                  /\ attr.seq \in Int /\ attr.deps \in Dependencies
                  /\ \A q \in Replicas :
                       /\ attr.deps[q] = -1 \/ <<q, attr.deps[q]>> \in DOMAIN n.inst
                       /\ Conflicts(n, cmd)[q] <= attr.deps[q]
  <2> HIDE DEF n
  <2> QED
    BY <1>1, <1>2, <1>4, ProposedIs
<1> HIDE DEF n, u, id, cmd
<1>7. u.lb[id] = FirstLb(r, cmd, attr)
  BY <1>6 DEF With
<1>8. Outgoing(out) /\ Asks(r, id, cmd, attr.deps, out)
  BY <1>1, <1>5, <1>6, <1>7, AsksIs
<1>9. Ballots(u)
  <2>1. FirstInstance(r, id, cmd, attr).bal = Row(id) /\ FirstInstance(r, id, cmd, attr).vbal = Row(id)
    BY DEF FirstInstance, NewInstance, id, NextId, Row
  <2> HIDE DEF out
  <2> QED
    BY <1>1, <1>6, <2>1, WritesBallots
<1> HIDE DEF out
<1>10. Starts(r, u, out)
  BY <1>3 DEF out
<1>11. Goes(r, t, {}, out) /\ Rest(u, t, {"asleep"})
  BY <1>1, <1>5, <1>8, <1>9, <1>10, StartsIs DEF Awake
<1> HIDE DEF t
<1>12. /\ t.todo = u.todo /\ t.inst = u.inst /\ t.lb = u.lb /\ t.crtInstance = u.crtInstance
       /\ t.last = u.last /\ t.lastWrite = u.lastWrite
  BY <1>11 DEF Rest, Fields
<1>13. Rest(n, t, {"todo", "inst", "lb", "created", "crtInstance", "last", "lastWrite", "maxSeqPerKey", "asleep"})
  BY <1>5, <1>11 DEF Rest
<1>14. More(n, t) /\ Knows(t, id, cmd)
  BY <1>5, <1>12 DEF More, Knows
<1>15. \E d \in SUBSET crashed : out = PreAccepts(t, r, id, d)
  BY <1>12 DEF PreAccepts, out
<1>16. Proposing(r, t, out)
  BY <1>2, <1>5, <1>6, <1>8, <1>12, <1>13, <1>14, <1>15 DEF Proposing, n, id, cmd
<1> QED
  BY <1>11, <1>16

\* The executor goes to sleep.
LEMMA Sleeps ==
  ASSUME Sound, NEW r \in Replicas, Sleep(r)
  PROVE  \E t : Goes(r, t, {}, {}) /\ Idle(r, t)
<1> DEFINE n == node[r]
           t == [n EXCEPT !.asleep = TRUE]
<1>1. InGroup /\ NodeTyped(n) /\ Ballots(n) /\ NetTyped /\ DOMAIN node = Replicas
  BY DEF Sound, Nodes
<1>2. NodeTyped(t) /\ Ballots(t) /\ Rest(n, t, {"asleep"})
  BY <1>1, AwakeIs
<1>3. node' = [node EXCEPT ![r] = t] /\ group' = group /\ crashed' = crashed /\ net' = net
  BY DEF Sleep
<1>4. NetTyped' /\ Flying' = Flying /\ (Distinct => Distinct')
  <2>1. Letters' = Letters
    BY <1>3, SameGroup
  <2> QED
    BY <1>1, <1>3, <2>1 DEF NetTyped, QueuesOf, Flying, FlyingIn, Distinct, DistinctIn
<1> HIDE DEF t
<1>5. Goes(r, t, {}, {})
  BY <1>2, <1>3, <1>4, ToNone DEF Goes
<1>6. Idle(r, t)
  BY <1>2 DEF Rest, Idle
<1> QED
  BY <1>5, <1>6

(***************************************************************************)
(* A step of a replica.                                                    *)
(***************************************************************************)
Handled(r, t, c, m, out) ==
  \/ c.type = "PreAccept" /\ PreAccepting(r, t, c, m, out)
  \/ c.type = "PreAcceptReply" /\ PreAcceptAnswered(r, t, m, out)
  \/ c.type = "Accept" /\ Accepting(r, t, c, m, out)
  \/ c.type = "AcceptReply" /\ AcceptAnswered(r, t, m, out)
  \/ c.type = "Commit" /\ Committing(r, t, m, out)

Acts(r, t, gone, out) ==
  \/ gone = {} /\ Proposing(r, t, out)
  \/ gone = {} /\ out = {} /\ (Executing(r, t) \/ Idle(r, t))
  \/ \E c \in DOMAIN net : /\ c.to = r /\ gone = {<<c, Head(net[c])>>}
                           /\ Handled(r, t, c, Head(net[c]), out)

\* Every handler of a message as one step.
LEMMA HandleIs ==
  ASSUME Sound, NEW r \in Replicas, NEW c \in DOMAIN net, c.to = r, Handle(r, c)
  PROVE  \E t, gone, out : Goes(r, t, gone, out) /\ Acts(r, t, gone, out)
<1> DEFINE m == Head(net[c])
<1>1. c.type \in Types
  <2>1. MailOf(c, m)
    BY Received
  <2> QED
    BY <2>1 DEF MailOf, Addressed, Letter, Channels
<1> SUFFICES \E t, out : Goes(r, t, {<<c, m>>}, out) /\ Handled(r, t, c, m, out)
  BY DEF Acts
<1>2. CASE c.type = "PreAccept"
  <2>1. HandlePreAccept(r, c, m)
    BY <1>2 DEF Handle
  <2>2. \E t, out : Goes(r, t, {<<c, m>>}, out) /\ PreAccepting(r, t, c, m, out)
    BY <1>2, <2>1, HandlesPreAccept
  <2> QED
    BY <1>2, <2>2 DEF Handled
<1>3. CASE c.type = "PreAcceptReply"
  <2>1. HandlePreAcceptReply(r, c, m)
    BY <1>3 DEF Handle
  <2>2. \E t, out : Goes(r, t, {<<c, m>>}, out) /\ PreAcceptAnswered(r, t, m, out)
    BY <1>3, <2>1, HandlesPreAcceptReply
  <2> QED
    BY <1>3, <2>2 DEF Handled
<1>4. CASE c.type = "Accept"
  <2>1. HandleAccept(r, c, m)
    BY <1>4 DEF Handle
  <2>2. \E t, out : Goes(r, t, {<<c, m>>}, out) /\ Accepting(r, t, c, m, out)
    BY <1>4, <2>1, HandlesAccept
  <2> QED
    BY <1>4, <2>2 DEF Handled
<1>5. CASE c.type = "AcceptReply"
  <2>1. HandleAcceptReply(r, c, m)
    BY <1>5 DEF Handle
  <2>2. \E t, out : Goes(r, t, {<<c, m>>}, out) /\ AcceptAnswered(r, t, m, out)
    BY <1>5, <2>1, HandlesAcceptReply
  <2> QED
    BY <1>5, <2>2 DEF Handled
<1>6. CASE c.type = "Commit"
  <2>1. HandleCommit(r, c, m)
    BY <1>6 DEF Handle
  <2>2. \E t : Goes(r, t, {<<c, m>>}, {}) /\ Committing(r, t, m, {})
    BY <1>6, <2>1, HandlesCommit
  <2> QED
    BY <1>6, <2>2 DEF Handled
<1> QED
  BY <1>1, <1>2, <1>3, <1>4, <1>5, <1>6 DEF Types

\* A replica's step, as what it takes, does and sends.
LEMMA StepIs ==
  ASSUME Sound, NEW r \in Replicas, Step(r)
  PROVE  \/ \E t, gone, out : Goes(r, t, gone, out) /\ Acts(r, t, gone, out)
         \/ Crash(r)
<1>1. CASE HandlePropose(r)
  <2>1. \E t, out : Goes(r, t, {}, out) /\ Proposing(r, t, out)
    BY <1>1, HandlesPropose
  <2> QED
    BY <2>1 DEF Acts
<1>2. CASE \E c \in DOMAIN net : c.to = r /\ Handle(r, c)
  BY <1>2, HandleIs
<1>3. CASE \E id \in DOMAIN node[r].inst : Execute(r, id)
  <2>1. \E t : Goes(r, t, {}, {}) /\ Executing(r, t)
    BY <1>3, Executes
  <2> QED
    BY <2>1 DEF Acts
<1>4. CASE Sleep(r)
  <2>1. \E t : Goes(r, t, {}, {}) /\ Idle(r, t)
    BY <1>4, Sleeps
  <2> QED
    BY <2>1 DEF Acts
<1>5. ~(\E q \in Replicas : \E i \in 0..node[r].crtInstance[q] : StartRecovery(r, <<q, i>>))
  BY DEF StartRecovery, Sound, NoRecovery
<1> QED
  BY <1>1, <1>2, <1>3, <1>4, <1>5 DEF Step

(***************************************************************************)
(* What every step of a replica keeps.                                     *)
(***************************************************************************)
\* The bookkeeping b comes after a.
Advances(a, b) ==
  /\ b.cmds = a.cmds
  /\ IsPreAccepting(b) => IsPreAccepting(a)
  /\ ~IsPreAccepting(a) => b.seq = a.seq /\ b.deps = a.deps
  /\ a.status = COMMITTED => b.status = COMMITTED

\* What is committed stays so, and what is executed stays in its place.
Keeps(n, t) ==
  /\ \A id \in DOMAIN n.inst : n.inst[id].status >= COMMITTED =>
       id \in DOMAIN t.inst /\ t.inst[id].status >= COMMITTED /\ SameInstance(n.inst[id], t.inst[id])
  /\ IsPrefix(n.executed, t.executed)

\* An instance and the bookkeeping of its leader, when replica r goes to the state t.
LedThen(r, t, id) == IF Row(id) = r THEN id \in Ids /\ id \in DOMAIN t.lb ELSE Led(id)
OwnThen(r, t, id) == IF Row(id) = r THEN t.lb[id] ELSE Own(id)

Sane(r, t, out) ==
  /\ RowOf(r, t)
  /\ \A id \in DOMAIN node[r].lb : id \in DOMAIN t.lb /\ Advances(node[r].lb[id], t.lb[id])
  /\ \A id \in DOMAIN t.lb : OwnerOf(t, id)
  /\ \A id \in DOMAIN t.inst : /\ LedThen(r, t, id)
                               /\ Row(id) # r => CopyAt(t.inst[id], Own(id))
  /\ \A o \in out : /\ Addressed(o[1], o[2]) /\ LedThen(r, t, o[2].id)
                    /\ MailAt(o[1].type, o[2], OwnThen(r, t, o[2].id))
  /\ Keeps(node[r], t)

\* A message stays true of an owner that has advanced,
LEMMA MailLater ==
  ASSUME NEW type, NEW m, NEW a, NEW b, MailAt(type, m, a), Advances(a, b)
  PROVE  MailAt(type, m, b)
BY DEF MailAt, Advances, SameInstance, IsPreAccepting, COMMITTED, PREACCEPTED, PREACCEPTED_EQ

\* and so does a copy.
LEMMA CopyLater ==
  ASSUME NEW i, NEW a, NEW b, CopyAt(i, a), Advances(a, b)
  PROVE  CopyAt(i, b)
BY DEF CopyAt, Advances, SameInstance, IsPreAccepting, COMMITTED, PREACCEPTED, PREACCEPTED_EQ, NONE

\* An owner that stays as it is has advanced.
LEMMA Same ==
  ASSUME NEW a
  PROVE  Advances(a, a)
BY DEF Advances

\* The bookkeeping after a step.
LEMMA OwnAfter ==
  ASSUME Sound, NEW r, NEW t, NEW gone, NEW out, Goes(r, t, gone, out), NEW id
  PROVE  /\ Led(id)' <=> LedThen(r, t, id)
         /\ id \in Ids => Own(id)' = OwnThen(r, t, id)
<1>1. /\ r \in Replicas /\ node' = [node EXCEPT ![r] = t] /\ group' = group /\ DOMAIN node = Replicas
      /\ Ids' = Ids
  BY SameGroup DEF Goes, Sound, Nodes
<1>2. id \in Ids => Row(id) \in Replicas
  BY IdIs
<1> QED
  BY <1>1, <1>2 DEF Led, Own, LedThen, OwnThen

\* Nothing is taken back.
LEMMA OwnAdvances ==
  ASSUME Sound, NEW r, NEW t, NEW gone, NEW out, Goes(r, t, gone, out), Sane(r, t, out), NEW id, Led(id)
  PROVE  Led(id)' /\ Advances(Own(id), Own(id)')
<1>1. id \in Ids
  BY DEF Led
<1>2. (Led(id)' <=> LedThen(r, t, id)) /\ Own(id)' = OwnThen(r, t, id)
  BY <1>1, OwnAfter
<1>3. CASE Row(id) = r
  <2>1. Own(id)' = t.lb[id] /\ Own(id) = node[r].lb[id] /\ id \in DOMAIN node[r].lb
    BY <1>2, <1>3 DEF OwnThen, Own, Led
  <2>2. id \in DOMAIN t.lb /\ Advances(node[r].lb[id], t.lb[id])
    BY <2>1 DEF Sane
  <2> QED
    BY <1>1, <1>2, <1>3, <2>1, <2>2 DEF LedThen
<1>4. CASE Row(id) # r
  BY <1>2, <1>4, Same DEF LedThen, OwnThen
<1> QED
  BY <1>3, <1>4

\* A sane step preserves the invariant.
LEMMA SaneSound ==
  ASSUME Sound, NEW r, NEW t, NEW gone, NEW out, Goes(r, t, gone, out), Sane(r, t, out)
  PROVE  Sound'
<1>1. /\ r \in Replicas /\ node' = [node EXCEPT ![r] = t] /\ group' = group /\ crashed' = crashed
      /\ NodeTyped(t) /\ Ballots(t) /\ NetTyped' /\ Flying' \subseteq Flying \cup out
  BY DEF Goes
<1>2. /\ Replicas' = Replicas /\ Ids' = Ids /\ Channels' = Channels /\ Proposals' = Proposals /\ Replies' = Replies
      /\ Attributes' = Attributes /\ Answers' = Answers /\ InGroup' = InGroup /\ NoRecovery' = NoRecovery
      /\ Dependencies' = Dependencies
  BY <1>1, SameGroup
<1>3. DOMAIN node = Replicas /\ node'[r] = t /\ \A q \in Replicas \ {r} : node'[q] = node[q]
  BY <1>1 DEF Sound, Nodes
<1>4. Nodes'
  <2>1. ASSUME NEW q \in Replicas
        PROVE  NodeTyped(node[q])' /\ Ballots(node[q])'
    <3>1. NodeTyped(node'[q]) /\ Ballots(node'[q])
      BY <1>1, <1>3, <2>1 DEF Sound, Nodes
    <3> DEFINE x == node'[q]
    <3> HIDE DEF x
    <3>2. node'[q] = x /\ NodeTyped(x) /\ Ballots(x)
      BY <3>1 DEF x
    <3> QED
      BY <1>1, <3>2, TypedAgain
  <2>2. DOMAIN node' = Replicas
    BY <1>1, <1>3
  <2> QED
    BY <1>2, <2>1, <2>2 DEF Nodes
<1>5. Rows'
  <2>1. \A q \in Replicas : RowOf(q, node'[q])
    BY <1>3 DEF Sound, Rows, Sane
  <2> QED
    BY <1>2, <2>1 DEF Rows, RowOf
<1>6. Owners'
  <2>1. \A q \in Replicas : \A id \in DOMAIN node'[q].lb : OwnerOf(node'[q], id)
    BY <1>3 DEF Sound, Owners, Sane
  <2> QED
    BY <1>2, <2>1 DEF Owners, OwnerOf, OwnerAt, SameInstance
<1>7. Copies'
  <2>1. ASSUME NEW q \in Replicas, NEW id \in DOMAIN node'[q].inst
        PROVE  Led(id)' /\ (q # Row(id) => CopyAt(node'[q].inst[id], Own(id)'))
    <3>1. CASE q = r
      <4>1. id \in DOMAIN t.inst /\ node'[q].inst[id] = t.inst[id]
        BY <1>3, <2>1, <3>1
      <4>2. LedThen(r, t, id) /\ (Row(id) # r => CopyAt(t.inst[id], Own(id)))
        BY <4>1 DEF Sane
      <4>3. Led(id)'
        BY <4>2, OwnAfter
      <4>4. id \in Ids
        BY <4>2 DEF LedThen, Led
      <4>5. Row(id) # r => Own(id)' = Own(id)
        BY <4>4, OwnAfter DEF OwnThen
      <4> QED
        BY <3>1, <4>1, <4>2, <4>3, <4>5
    <3>2. CASE q # r
      <4>1. id \in DOMAIN node[q].inst /\ node'[q].inst[id] = node[q].inst[id]
        BY <1>3, <2>1, <3>2
      <4>2. Led(id) /\ (q # Row(id) => CopyAt(node[q].inst[id], Own(id)))
        BY <4>1 DEF Sound, Copies, CopyOf
      <4>3. Led(id)' /\ Advances(Own(id), Own(id)')
        BY <4>2, OwnAdvances
      <4> DEFINE i == node[q].inst[id]
                 a == Own(id)
                 b == Own(id)'
      <4> HIDE DEF i, a, b
      <4>4. CopyAt(i, a) /\ Advances(a, b) => CopyAt(i, b)
        BY CopyLater
      <4> QED
        BY <4>1, <4>2, <4>3, <4>4 DEF i, a, b
    <3> QED
      BY <3>1, <3>2
  <2>2. ASSUME NEW q \in Replicas, NEW id \in DOMAIN node'[q].inst
        PROVE  CopyOf(q, id)'
    BY <2>1 DEF CopyOf, CopyAt, SameInstance
  <2> QED
    BY <1>2, <2>2 DEF Copies
<1>8. Mail'
  <2>1. ASSUME NEW f \in Flying'
        PROVE  Addressed(f[1], f[2]) /\ Led(f[2].id)' /\ MailAt(f[1].type, f[2], Own(f[2].id)')
    <3>1. CASE f \in out
      <4>1. /\ Addressed(f[1], f[2]) /\ LedThen(r, t, f[2].id)
            /\ MailAt(f[1].type, f[2], OwnThen(r, t, f[2].id))
        BY <3>1 DEF Sane
      <4>2. f[2].id \in Ids
        BY <4>1 DEF LedThen, Led
      <4> QED
        BY <4>1, <4>2, OwnAfter
    <3>2. CASE f \in Flying
      <4>1. Addressed(f[1], f[2]) /\ Led(f[2].id) /\ MailAt(f[1].type, f[2], Own(f[2].id))
        BY <3>2 DEF Sound, Mail, MailOf
      <4>2. Led(f[2].id)' /\ Advances(Own(f[2].id), Own(f[2].id)')
        BY <4>1, OwnAdvances
      <4> DEFINE a == Own(f[2].id)
                 b == Own(f[2].id)'
      <4> HIDE DEF a, b
      <4>3. MailAt(f[1].type, f[2], a) /\ Advances(a, b) => MailAt(f[1].type, f[2], b)
        BY MailLater
      <4> QED
        BY <4>1, <4>2, <4>3 DEF a, b
    <3> QED
      BY <1>1, <3>1, <3>2
  <2>2. ASSUME NEW f \in Flying'
        PROVE  MailOf(f[1], f[2])'
    <3>1. Addressed(f[1], f[2])'
      BY <1>2, <2>1, <2>2 DEF Addressed, Letter, Outward
    <3>2. MailAt(f[1].type, f[2], Own(f[2].id))'
      BY <1>2, <2>1, <2>2 DEF MailAt, IsReply, SameInstance, IsPreAccepting
    <3> QED
      BY <2>1, <2>2, <3>1, <3>2 DEF MailOf
  <2> QED
    BY <2>2 DEF Mail
<1>9. (crashed \subseteq group.mayCrash)'
  BY <1>1 DEF Sound
<1>10. InGroup' /\ NoRecovery' /\ NetTyped'
  BY <1>1, <1>2 DEF Sound
<1> QED
  BY <1>4, <1>5, <1>6, <1>7, <1>8, <1>9, <1>10 DEF Sound

(***************************************************************************)
(* The steps.                                                              *)
(***************************************************************************)
\* What a replica has of the instances before a step.
LEMMA Before ==
  ASSUME Sound, NEW r \in Replicas
  PROVE  LET n == node[r]
         IN  /\ InGroup /\ NodeTyped(n) /\ Ballots(n) /\ RowOf(r, n)
             /\ \A id \in DOMAIN n.lb : /\ id \in Ids /\ Row(id) = r /\ OwnerOf(n, id) /\ Led(id)
                                        /\ Own(id) = n.lb[id] /\ Own(id) \in Leaders
             /\ \A id \in DOMAIN n.inst : /\ id \in Ids /\ Led(id) /\ n.inst[id] \in Instances
                                          /\ Row(id) = r => id \in DOMAIN n.lb
                                          /\ Row(id) # r => CopyAt(n.inst[id], Own(id))
             /\ DOMAIN n.lb \subseteq DOMAIN n.inst
<1> DEFINE n == node[r]
<1>1. InGroup /\ NodeTyped(n) /\ Ballots(n) /\ RowOf(r, n)
  BY DEF Sound, Nodes, Rows
<1>2. ASSUME NEW id \in DOMAIN n.lb
      PROVE  /\ id \in Ids /\ Row(id) = r /\ OwnerOf(n, id) /\ Led(id)
             /\ Own(id) = n.lb[id] /\ Own(id) \in Leaders
  <2>1. id \in Ids /\ n.lb[id] \in Leaders
    BY <1>1 DEF NodeTyped, FieldsTyped, IsMap
  <2>2. Row(id) = r
    BY <1>1, <1>2 DEF RowOf, Row
  <2>3. OwnerOf(n, id)
    BY <1>2 DEF Sound, Owners
  <2> QED
    BY <1>2, <2>1, <2>2, <2>3 DEF Led, Own
<1>3. ASSUME NEW id \in DOMAIN n.inst
      PROVE  /\ id \in Ids /\ Led(id) /\ n.inst[id] \in Instances
             /\ Row(id) = r => id \in DOMAIN n.lb
             /\ Row(id) # r => CopyAt(n.inst[id], Own(id))
  <2>1. id \in Ids /\ n.inst[id] \in Instances
    BY <1>1 DEF NodeTyped, FieldsTyped, IsMap
  <2>2. Led(id) /\ (Row(id) # r => CopyAt(n.inst[id], Own(id)))
    BY <1>3 DEF Sound, Copies, CopyOf
  <2> QED
    BY <2>1, <2>2 DEF Led
<1>4. DOMAIN n.lb \subseteq DOMAIN n.inst
  BY <1>1 DEF NodeTyped, Linked
<1> QED
  BY <1>1, <1>2, <1>3, <1>4

\* An instance that is executed is still that of its owner,
LEMMA LaterOwner ==
  ASSUME NEW row, NEW lb, NEW i, NEW j, OwnerAt(row, lb, i), Later(i, j)
  PROVE  OwnerAt(row, lb, j)
BY DEF OwnerAt, Later, SameInstance, IsPreAccepting, PREACCEPTED, PREACCEPTED_EQ, ACCEPTED, COMMITTED, EXECUTED

\* and still a copy of its owner's.
LEMMA LaterCopy ==
  ASSUME NEW i, NEW j, NEW lb, CopyAt(i, lb), Later(i, j)
  PROVE  CopyAt(j, lb)
BY DEF CopyAt, Later, SameInstance, NONE, PREACCEPTED, ACCEPTED, COMMITTED, EXECUTED

\* A sequence is a prefix of itself.
LEMMA SamePrefix ==
  ASSUME NEW S, NEW s \in Seq(S)
  PROVE  IsPrefix(s, s)
BY DEF IsPrefix

\* Neither the instances nor the bookkeeping change.
LEMMA IdleSane ==
  ASSUME Sound, NEW r \in Replicas, NEW t, Idle(r, t)
  PROVE  Sane(r, t, {})
<1> DEFINE n == node[r]
<1>1. /\ NodeTyped(n) /\ RowOf(r, n)
      /\ \A id \in DOMAIN n.lb : /\ id \in Ids /\ Row(id) = r /\ OwnerOf(n, id) /\ Led(id)
      /\ \A id \in DOMAIN n.inst : /\ Led(id)
                                   /\ Row(id) = r => id \in DOMAIN n.lb
                                   /\ Row(id) # r => CopyAt(n.inst[id], Own(id))
  BY Before
<1>2. Rest(n, t, {"maxRecvBallot", "asleep"})
  BY DEF Idle
<1> HIDE DEF n
<1>3. t.inst = n.inst /\ t.lb = n.lb /\ t.crtInstance = n.crtInstance /\ t.executed = n.executed
  BY <1>2 DEF Rest, Fields
<1>4. n.executed \in Seq(Ids)
  BY <1>1 DEF NodeTyped, FieldsTyped
<1>5. Keeps(n, t)
  BY <1>3, <1>4, SamePrefix DEF Keeps, SameInstance
<1>6. RowOf(r, t) /\ \A id \in DOMAIN t.lb : OwnerOf(t, id)
  BY <1>1, <1>3 DEF RowOf, OwnerOf
<1>7. \A id \in DOMAIN n.lb : id \in DOMAIN t.lb /\ Advances(n.lb[id], t.lb[id])
  BY <1>3, Same
<1>8. \A id \in DOMAIN t.inst : LedThen(r, t, id) /\ (Row(id) # r => CopyAt(t.inst[id], Own(id)))
  BY <1>1, <1>3 DEF LedThen, Led
<1> QED
  BY <1>5, <1>6, <1>7, <1>8 DEF Sane, n

\* Executing is sane.
LEMMA ExecutingSane ==
  ASSUME Sound, NEW r \in Replicas, NEW t, Executing(r, t)
  PROVE  Sane(r, t, {})
<1> DEFINE n == node[r]
<1>1. /\ NodeTyped(n) /\ RowOf(r, n)
      /\ \A id \in DOMAIN n.lb : /\ id \in Ids /\ Row(id) = r /\ OwnerOf(n, id) /\ Led(id)
      /\ \A id \in DOMAIN n.inst : /\ Led(id)
                                   /\ Row(id) = r => id \in DOMAIN n.lb
                                   /\ Row(id) # r => CopyAt(n.inst[id], Own(id))
  BY Before
<1>2. /\ Rest(n, t, {"inst", "executed", "torn", "asleep"}) /\ DOMAIN t.inst = DOMAIN n.inst
      /\ \A e \in DOMAIN n.inst : Later(n.inst[e], t.inst[e])
      /\ IsPrefix(n.executed, t.executed)
  BY DEF Executing
<1> HIDE DEF n
<1>3. t.lb = n.lb /\ t.crtInstance = n.crtInstance
  BY <1>2 DEF Rest, Fields
<1>5. Keeps(n, t)
  BY <1>2 DEF Keeps, Later, COMMITTED, EXECUTED
<1>6. RowOf(r, t)
  BY <1>1, <1>3 DEF RowOf
<1>7. \A id \in DOMAIN n.lb : id \in DOMAIN t.lb /\ Advances(n.lb[id], t.lb[id])
  BY <1>3, Same
<1>8. \A id \in DOMAIN t.inst : LedThen(r, t, id) /\ (Row(id) # r => CopyAt(t.inst[id], Own(id)))
  BY <1>1, <1>2, <1>3, LaterCopy DEF LedThen, Led
<1>9. ASSUME NEW id \in DOMAIN t.lb
      PROVE  OwnerOf(t, id)
  <2>1. id \in DOMAIN n.inst /\ OwnerAt(Row(id), n.lb[id], n.inst[id])
    BY <1>1, <1>3, <1>9 DEF OwnerOf
  <2>2. OwnerAt(Row(id), n.lb[id], t.inst[id])
    BY <1>2, <2>1, LaterOwner
  <2> QED
    BY <1>2, <1>3, <2>1, <2>2 DEF OwnerOf
<1> QED
  BY <1>5, <1>6, <1>7, <1>8, <1>9 DEF Sane, n

\* The bookkeeping of one instance changes.
LEMMA CountingSane ==
  ASSUME Sound, NEW r \in Replicas, NEW t, NEW a, NEW l, Counting(r, t, a, l), Advances(Own(a), l),
         OwnerAt(r, l, node[r].inst[a])
  PROVE  Sane(r, t, {})
<1> DEFINE n == node[r]
<1>1. /\ NodeTyped(n) /\ RowOf(r, n)
      /\ \A id \in DOMAIN n.lb : /\ id \in Ids /\ Row(id) = r /\ OwnerOf(n, id) /\ Led(id)
                                 /\ Own(id) = n.lb[id]
      /\ \A id \in DOMAIN n.inst : /\ Led(id)
                                   /\ Row(id) = r => id \in DOMAIN n.lb
                                   /\ Row(id) # r => CopyAt(n.inst[id], Own(id))
      /\ DOMAIN n.lb \subseteq DOMAIN n.inst
  BY Before
<1>2. /\ Rest(n, t, {"lb", "maxRecvBallot", "asleep"})
      /\ a \in DOMAIN n.lb /\ t.lb = With(n.lb, a, l)
  BY DEF Counting
<1>3. OwnerAt(r, l, n.inst[a])
  OBVIOUS
<1> HIDE DEF n
<1>4. t.inst = n.inst /\ t.crtInstance = n.crtInstance /\ t.executed = n.executed
  BY <1>2 DEF Rest, Fields
<1>5. DOMAIN t.lb = DOMAIN n.lb /\ t.lb[a] = l /\ \A id \in DOMAIN n.lb \ {a} : t.lb[id] = n.lb[id]
  BY <1>2 DEF With
<1>6. n.executed \in Seq(Ids)
  BY <1>1 DEF NodeTyped, FieldsTyped
<1>7. Keeps(n, t)
  BY <1>4, <1>6, SamePrefix DEF Keeps, SameInstance
<1>8. RowOf(r, t)
  BY <1>1, <1>4, <1>5 DEF RowOf
<1>9. ASSUME NEW id \in DOMAIN t.lb
      PROVE  OwnerOf(t, id)
  BY <1>1, <1>2, <1>3, <1>4, <1>5, <1>9 DEF OwnerOf
<1>10. \A id \in DOMAIN n.lb : id \in DOMAIN t.lb /\ Advances(n.lb[id], t.lb[id])
  BY <1>1, <1>2, <1>5, Same
<1>11. \A id \in DOMAIN t.inst : LedThen(r, t, id) /\ (Row(id) # r => CopyAt(t.inst[id], Own(id)))
  BY <1>1, <1>4, <1>5 DEF LedThen, Led
<1> QED
  BY <1>7, <1>8, <1>9, <1>10, <1>11 DEF Sane, n

\* A decision is taken over.
LEMMA TakingSane ==
  ASSUME Sound, NEW r \in Replicas, NEW t, NEW a, NEW l, NEW out, Taking(r, t, a, l, out), Advances(Own(a), l),
         Own(a).status # COMMITTED, l.lastTriedBallot = r
  PROVE  Sane(r, t, out) /\ Settles(r, a, l, out)
<1> DEFINE n == node[r]
<1>1. /\ InGroup /\ NodeTyped(n) /\ RowOf(r, n)
      /\ \A id \in DOMAIN n.lb : /\ id \in Ids /\ Row(id) = r /\ OwnerOf(n, id) /\ Led(id)
                                 /\ Own(id) = n.lb[id]
      /\ \A id \in DOMAIN n.inst : /\ Led(id)
                                   /\ Row(id) = r => id \in DOMAIN n.lb
                                   /\ Row(id) # r => CopyAt(n.inst[id], Own(id))
      /\ DOMAIN n.lb \subseteq DOMAIN n.inst
  BY Before
<1>2. /\ Rest(n, t, {"inst", "lb", "executed", "torn", "maxRecvBallot", "asleep"})
      /\ a \in DOMAIN n.lb /\ l \in Leaders /\ l.status \in {ACCEPTED, COMMITTED} /\ l.ballot = r
      /\ DOMAIN t.inst = DOMAIN n.inst /\ t.lb = With(n.lb, a, l)
      /\ \A e \in DOMAIN n.inst \ {a} : Later(n.inst[e], t.inst[e])
      /\ SameInstance(l, t.inst[a])
      /\ t.inst[a].status = l.status \/ (l.status = COMMITTED /\ t.inst[a].status = EXECUTED)
      /\ IsPrefix(n.executed, t.executed)
      /\ \E dead \in SUBSET crashed : out = Out(t, r, a, l, dead)
  BY DEF Taking
<1> HIDE DEF n
<1>3. t.crtInstance = n.crtInstance
  BY <1>2 DEF Rest, Fields
<1>4. DOMAIN t.lb = DOMAIN n.lb /\ t.lb[a] = l /\ \A id \in DOMAIN n.lb \ {a} : t.lb[id] = n.lb[id]
  BY <1>2 DEF With
<1>5. a \in Ids /\ Row(a) = r /\ OwnerAt(r, n.lb[a], n.inst[a]) /\ a \in DOMAIN n.inst /\ Own(a) = n.lb[a]
  BY <1>1, <1>2 DEF OwnerOf
<1>6. ~(n.inst[a].status >= COMMITTED)
  <2>1. n.inst[a].status \in {PREACCEPTED, ACCEPTED}
    <3>1. n.lb[a] \in Leaders
      BY <1>1, <1>2 DEF NodeTyped, FieldsTyped, IsMap
    <3>2. n.lb[a].status \in PREACCEPTED .. COMMITTED
      BY <3>1 DEF Leaders
    <3>3. n.lb[a].status \in {PREACCEPTED, PREACCEPTED_EQ, ACCEPTED}
      BY <1>5, <3>2 DEF PREACCEPTED, PREACCEPTED_EQ, ACCEPTED, COMMITTED
    <3> QED
      BY <1>5, <3>3 DEF OwnerAt, IsPreAccepting
  <2> QED
    BY <2>1 DEF PREACCEPTED, ACCEPTED, COMMITTED
<1>7. Keeps(n, t)
  <2> SUFFICES ASSUME NEW id \in DOMAIN n.inst, n.inst[id].status >= COMMITTED
               PROVE  t.inst[id].status >= COMMITTED /\ SameInstance(n.inst[id], t.inst[id])
    BY <1>2 DEF Keeps
  <2>1. id # a
    BY <1>6 DEF COMMITTED
  <2> QED
    BY <1>2, <2>1 DEF Later, COMMITTED, EXECUTED
<1>8. RowOf(r, t)
  BY <1>1, <1>3, <1>4 DEF RowOf
<1>9. OwnerAt(r, l, t.inst[a])
  BY <1>2 DEF OwnerAt, SameInstance, IsPreAccepting, PREACCEPTED, PREACCEPTED_EQ, ACCEPTED, COMMITTED, EXECUTED
<1>10. ASSUME NEW id \in DOMAIN t.lb
       PROVE  OwnerOf(t, id)
  <2>1. CASE id = a
    BY <1>2, <1>4, <1>5, <1>9, <2>1 DEF OwnerOf
  <2>2. CASE id # a
    <3>1. id \in DOMAIN n.inst /\ OwnerAt(Row(id), n.lb[id], n.inst[id])
      BY <1>1, <1>4, <1>10 DEF OwnerOf
    <3>2. OwnerAt(Row(id), n.lb[id], t.inst[id])
      BY <1>2, <2>2, <3>1, LaterOwner
    <3> QED
      BY <1>2, <1>4, <1>10, <2>2, <3>1, <3>2 DEF OwnerOf
  <2> QED
    BY <2>1, <2>2
<1>11. \A id \in DOMAIN n.lb : id \in DOMAIN t.lb /\ Advances(n.lb[id], t.lb[id])
  BY <1>1, <1>2, <1>4, <1>5, Same
<1>12. ASSUME NEW id \in DOMAIN t.inst
       PROVE  LedThen(r, t, id) /\ (Row(id) # r => CopyAt(t.inst[id], Own(id)))
  <2>1. Row(id) # r => id # a
    BY <1>5
  <2> QED
    BY <1>1, <1>2, <1>4, <1>12, <2>1, LaterCopy DEF LedThen, Led
<1>13. Settles(r, a, l, out)
  <2>1. PICK dead \in SUBSET crashed : out = Out(t, r, a, l, dead)
    BY <1>2
  <2>2. t.lb[a] \in Leaders /\ t.lb[a].ballot = r /\ t.lb[a].lastTriedBallot = r
        /\ t.lb[a].cmds = l.cmds /\ t.lb[a].seq = l.seq /\ t.lb[a].deps = l.deps
    BY <1>2, <1>4
  <2> QED
    BY <1>1, <1>2, <1>5, <2>1, <2>2, OutIs
<1>14. ASSUME NEW o \in out
       PROVE  /\ Addressed(o[1], o[2]) /\ LedThen(r, t, o[2].id)
              /\ MailAt(o[1].type, o[2], OwnThen(r, t, o[2].id))
  <2>1. /\ o[1] \in Channels /\ o[1].type = (IF l.status = COMMITTED THEN "Commit" ELSE "Accept")
        /\ o[1].from = r /\ o[1].to # r
        /\ o[2].id = a /\ o[2].ballot = r /\ o[2].seq = l.seq /\ o[2].deps = l.deps
        /\ l.status = COMMITTED => o[2] \in Proposals /\ o[2].cmds = l.cmds
        /\ l.status # COMMITTED => o[2] \in Attributes
    BY <1>13, <1>14 DEF Settles
  <2>2. LedThen(r, t, o[2].id) /\ OwnThen(r, t, o[2].id) = l
    BY <1>2, <1>4, <1>5, <2>1 DEF LedThen, OwnThen
  <2>3. Addressed(o[1], o[2])
    BY <1>5, <2>1 DEF Addressed, Letter, Outward
  <2>4. MailAt(o[1].type, o[2], l)
    BY <1>2, <2>1 DEF MailAt, SameInstance, IsPreAccepting, PREACCEPTED, PREACCEPTED_EQ, ACCEPTED, COMMITTED
  <2> QED
    BY <2>2, <2>3, <2>4
<1> QED
  BY <1>7, <1>8, <1>10, <1>11, <1>12, <1>13, <1>14 DEF Sane, n

\* A leader that counts an answer advances.
LEMMA DecidingAdvances ==
  ASSUME NEW r, NEW lb, NEW m, NEW l, Tallied(r, lb, m, l), IsPreAccepting(lb)
  PROVE  Advances(lb, l) /\ lb.status # COMMITTED
BY DEF Tallied, Advances, IsPreAccepting, PREACCEPTED, PREACCEPTED_EQ, COMMITTED

\* A record of another replica's instance is written.
LEMMA WrittenSane ==
  ASSUME Sound, NEW r \in Replicas, NEW t, NEW a \in Ids, Row(a) # r, Led(a), NEW i, Written(r, t, a, i),
         CopyAt(i, Own(a)),
         a \in DOMAIN node[r].inst /\ node[r].inst[a].status >= COMMITTED =>
           i.status >= COMMITTED /\ SameInstance(node[r].inst[a], i)
  PROVE  Sane(r, t, {})
<1> DEFINE n == node[r]
<1>1. /\ NodeTyped(n) /\ RowOf(r, n)
      /\ \A id \in DOMAIN n.lb : /\ id \in Ids /\ Row(id) = r /\ OwnerOf(n, id) /\ Led(id)
      /\ \A id \in DOMAIN n.inst : /\ Led(id)
                                   /\ Row(id) = r => id \in DOMAIN n.lb
                                   /\ Row(id) # r => CopyAt(n.inst[id], Own(id))
  BY Before
<1>2. /\ Rest(n, t, {"inst", "created", "last", "lastWrite", "maxSeqPerKey", "maxRecvBallot", "crtInstance", "asleep"})
      /\ t.inst = With(n.inst, a, i)
      /\ \A q \in Replicas : t.crtInstance[q] = n.crtInstance[q] \/ (q = Row(a) /\ t.crtInstance[q] = Number(a))
  BY DEF Written
<1>3. a \in DOMAIN n.inst /\ n.inst[a].status >= COMMITTED => i.status >= COMMITTED /\ SameInstance(n.inst[a], i)
  OBVIOUS
<1> HIDE DEF n
<1>4. t.lb = n.lb /\ t.executed = n.executed /\ t.crtInstance[r] = n.crtInstance[r]
  BY <1>2 DEF Rest, Fields
<1>5. DOMAIN t.inst = DOMAIN n.inst \cup {a} /\ t.inst[a] = i /\ \A id \in DOMAIN n.inst \ {a} : t.inst[id] = n.inst[id]
  BY <1>2 DEF With
<1>6. n.executed \in Seq(Ids)
  BY <1>1 DEF NodeTyped, FieldsTyped
<1>7. Keeps(n, t)
  <2>1. IsPrefix(n.executed, t.executed)
    BY <1>4, <1>6, SamePrefix
  <2>2. ASSUME NEW id \in DOMAIN n.inst, n.inst[id].status >= COMMITTED
        PROVE  id \in DOMAIN t.inst /\ t.inst[id].status >= COMMITTED /\ SameInstance(n.inst[id], t.inst[id])
    BY <1>3, <1>5, <2>2 DEF SameInstance
  <2> QED
    BY <2>1, <2>2 DEF Keeps
<1>8. RowOf(r, t)
  BY <1>1, <1>4 DEF RowOf
<1>9. ASSUME NEW id \in DOMAIN t.lb
      PROVE  OwnerOf(t, id)
  <2>1. Row(id) = r /\ OwnerOf(n, id)
    BY <1>1, <1>4, <1>9
  <2> QED
    BY <1>4, <1>5, <2>1 DEF OwnerOf
<1>10. \A id \in DOMAIN n.lb : id \in DOMAIN t.lb /\ Advances(n.lb[id], t.lb[id])
  BY <1>4, Same
<1>11. \A id \in DOMAIN t.inst : LedThen(r, t, id) /\ (Row(id) # r => CopyAt(t.inst[id], Own(id)))
  BY <1>1, <1>4, <1>5 DEF LedThen, Led
<1> QED
  BY <1>7, <1>8, <1>9, <1>10, <1>11 DEF Sane, n

\* An answer may go with it.
LEMMA WithAnswer ==
  ASSUME NEW r, NEW t, Sane(r, t, {}), NEW o, Addressed(o[1], o[2]), Row(o[2].id) # r, Led(o[2].id),
         MailAt(o[1].type, o[2], Own(o[2].id))
  PROVE  Sane(r, t, {o})
BY DEF Sane, LedThen, OwnThen

\* A command is proposed.
LEMMA ProposingSane ==
  ASSUME Sound, NEW r \in Replicas, NEW t, NEW out, Proposing(r, t, out)
  PROVE  Sane(r, t, out)
<1> DEFINE n == node[r]
           a == NextId(n, r)
           cmd == Head(n.todo)
<1>1. /\ NodeTyped(n) /\ RowOf(r, n) /\ InGroup
      /\ \A id \in DOMAIN n.lb : /\ id \in Ids /\ Row(id) = r /\ OwnerOf(n, id) /\ Led(id)
      /\ \A id \in DOMAIN n.inst : /\ Led(id)
                                   /\ Row(id) = r => id \in DOMAIN n.lb
                                   /\ Row(id) # r => CopyAt(n.inst[id], Own(id))
      /\ DOMAIN n.lb \subseteq DOMAIN n.inst
  BY Before
<1>2. /\ Rest(n, t, {"todo", "inst", "lb", "created", "crtInstance", "last", "lastWrite", "maxSeqPerKey", "asleep"})
      /\ a \in Ids /\ cmd \in Commands /\ t.crtInstance = [n.crtInstance EXCEPT ![r] = @ + 1]
  BY DEF Proposing
<1>3. PICK attr : /\ t.inst = With(n.inst, a, FirstInstance(r, a, cmd, attr))
                  /\ t.lb = With(n.lb, a, FirstLb(r, cmd, attr))
                  /\ attr.seq \in Int /\ attr.deps \in Dependencies
                  /\ Asks(r, a, cmd, attr.deps, out)
  BY DEF Proposing
<1>4. Row(a) = r /\ a = <<r, n.crtInstance[r] + 1>> /\ Number(a) = n.crtInstance[r] + 1
  BY DEF NextId, Row, Number
<1> HIDE DEF n, a, cmd
<1>5. n.crtInstance \in Dependencies /\ n.crtInstance[r] \in {-1} \cup Nat /\ t.crtInstance[r] = n.crtInstance[r] + 1
  BY <1>1, <1>2 DEF NodeTyped, FieldsTyped, Dependencies
<1>6. a \notin DOMAIN n.inst
  <2>1. \A e \in DOMAIN n.inst : Number(e) <= n.crtInstance[Row(e)]
    BY <1>1 DEF NodeTyped, Linked
  <2> QED
    BY <1>4, <1>5, <2>1
<1>7. t.executed = n.executed /\ n.executed \in Seq(Ids)
  BY <1>1, <1>2 DEF Rest, Fields, NodeTyped, FieldsTyped
<1> DEFINE i == FirstInstance(r, a, cmd, attr)
           l == FirstLb(r, cmd, attr)
<1>8. OwnerAt(r, l, i) /\ l.cmds = cmd /\ IsPreAccepting(l)
  BY DEF FirstInstance, FirstLb, NewInstance, NewLeaderBookkeeping, OwnerAt, IsPreAccepting, SameInstance,
         PREACCEPTED, PREACCEPTED_EQ, ACCEPTED, COMMITTED
<1> HIDE DEF i, l
<1>9. /\ DOMAIN t.inst = DOMAIN n.inst \cup {a} /\ t.inst[a] = i /\ \A id \in DOMAIN n.inst : t.inst[id] = n.inst[id]
      /\ DOMAIN t.lb = DOMAIN n.lb \cup {a} /\ t.lb[a] = l /\ \A id \in DOMAIN n.lb : t.lb[id] = n.lb[id]
  BY <1>1, <1>3, <1>6 DEF With, i, l
<1>10. Keeps(n, t)
  BY <1>7, <1>9, SamePrefix DEF Keeps, SameInstance
<1>11. RowOf(r, t)
  <2>1. DOMAIN t.lb = {<<r, k>> : k \in 0 .. n.crtInstance[r]} \cup {<<r, n.crtInstance[r] + 1>>}
    BY <1>1, <1>4, <1>9 DEF RowOf
  <2>2. 0 .. (n.crtInstance[r] + 1) = (0 .. n.crtInstance[r]) \cup {n.crtInstance[r] + 1}
    BY <1>5
  <2> QED
    BY <1>5, <2>1, <2>2 DEF RowOf
<1>12. ASSUME NEW id \in DOMAIN t.lb
       PROVE  OwnerOf(t, id)
  <2>1. CASE id = a
    BY <1>4, <1>8, <1>9, <2>1 DEF OwnerOf
  <2>2. CASE id # a
    BY <1>1, <1>9, <1>12, <2>2 DEF OwnerOf
  <2> QED
    BY <2>1, <2>2
<1>13. \A id \in DOMAIN n.lb : id \in DOMAIN t.lb /\ Advances(n.lb[id], t.lb[id])
  BY <1>9, Same
<1>14. \A id \in DOMAIN t.inst : LedThen(r, t, id) /\ (Row(id) # r => CopyAt(t.inst[id], Own(id)))
  BY <1>1, <1>2, <1>4, <1>9 DEF LedThen, Led
<1>15. ASSUME NEW o \in out
       PROVE  /\ Addressed(o[1], o[2]) /\ LedThen(r, t, o[2].id)
              /\ MailAt(o[1].type, o[2], OwnThen(r, t, o[2].id))
  <2>1. /\ o[1] \in Channels /\ o[1].type = "PreAccept" /\ o[1].from = r /\ o[1].to # r
        /\ o[2] \in Proposals /\ o[2].id = a /\ o[2].ballot = r /\ o[2].cmds = cmd
    BY <1>3, <1>15 DEF Asks
  <2>2. LedThen(r, t, o[2].id) /\ OwnThen(r, t, o[2].id) = l
    BY <1>2, <1>4, <1>9, <2>1 DEF LedThen, OwnThen
  <2>3. Addressed(o[1], o[2])
    BY <1>4, <2>1 DEF Addressed, Letter, Outward
  <2>4. MailAt(o[1].type, o[2], l)
    BY <1>8, <2>1 DEF MailAt
  <2> QED
    BY <2>2, <2>3, <2>4
<1> QED
  BY <1>10, <1>11, <1>12, <1>13, <1>14, <1>15 DEF Sane, n

\* What is known when a message about another replica's instance is received.
LEMMA Another ==
  ASSUME Sound, NEW r \in Replicas, NEW c \in DOMAIN net, c.to = r, c.type \in Outward
  PROVE  LET m == Head(net[c])
             i == Inst(node[r], m.id)
         IN  /\ <<c, m>> \in Flying
             /\ m.id \in Ids /\ m.ballot = Row(m.id) /\ Row(m.id) # r /\ Led(m.id) /\ c.from = Row(m.id)
             /\ MailAt(c.type, m, Own(m.id)) /\ Letter(c, m) /\ Own(m.id) \in Leaders
             /\ i.status \in NONE .. EXECUTED /\ i.status # ACCEPTED
             /\ i.status # NONE => m.id \in DOMAIN node[r].inst
             /\ m.id \in DOMAIN node[r].inst => i = node[r].inst[m.id] /\ CopyAt(i, Own(m.id))
             /\ m.id \notin DOMAIN node[r].inst => i.status = NONE
<1> DEFINE m == Head(net[c])
           n == node[r]
           i == Inst(n, m.id)
<1>1. <<c, m>> \in Flying /\ MailOf(c, m) /\ m.id \in Ids /\ m.ballot = Row(m.id)
  BY Received
<1>2. /\ InGroup /\ NodeTyped(n)
      /\ \A id \in DOMAIN n.inst : Row(id) # r => CopyAt(n.inst[id], Own(id))
  BY Before
<1> HIDE DEF m, n
<1>3. /\ Row(m.id) # r /\ Led(m.id) /\ c.from = Row(m.id) /\ MailAt(c.type, m, Own(m.id)) /\ Letter(c, m)
  BY <1>1 DEF MailOf, Addressed
<1>4. Own(m.id) \in Leaders
  BY <1>3, OwnIs
<1>5. /\ i.status \in NONE .. EXECUTED
      /\ i.status >= PREACCEPTED => m.id \in DOMAIN n.inst
      /\ m.id \in DOMAIN n.inst => i = n.inst[m.id]
      /\ m.id \notin DOMAIN n.inst => i.status = NONE
  BY <1>1, <1>2, InstIs
<1>6. m.id \in DOMAIN n.inst => CopyAt(i, Own(m.id))
  BY <1>2, <1>3, <1>5
<1> HIDE DEF i
<1>7. i.status # ACCEPTED
  BY <1>5, <1>6 DEF CopyAt, ACCEPTED, NONE
<1>8. i.status # NONE => m.id \in DOMAIN n.inst
  BY <1>5 DEF NONE, EXECUTED, PREACCEPTED
<1> QED
  BY <1>1, <1>3, <1>4, <1>5, <1>6, <1>7, <1>8 DEF m, n, i

\* handlePreAccept() is sane.
LEMMA PreAcceptingSane ==
  ASSUME Sound, NEW r \in Replicas, NEW c \in DOMAIN net, c.to = r, c.type = "PreAccept", NEW t, NEW gone, NEW out,
         Goes(r, t, gone, out), PreAccepting(r, t, c, Head(net[c]), out)
  PROVE  Sane(r, t, out)
<1> DEFINE m == Head(net[c])
           n == node[r]
           i == Inst(n, m.id)
           lb == Own(m.id)
           o == <<Channel("PreAcceptReply", r, c.from), PreAcceptReply(t, m.id)>>
<1>1. /\ m.id \in Ids /\ m.ballot = Row(m.id) /\ Row(m.id) # r /\ Led(m.id) /\ c.from = Row(m.id)
      /\ MailAt(c.type, m, lb) /\ lb \in Leaders
      /\ i.status \in NONE .. EXECUTED /\ i.status # ACCEPTED
      /\ i.status # NONE => m.id \in DOMAIN n.inst
      /\ m.id \in DOMAIN n.inst => i = n.inst[m.id] /\ CopyAt(i, lb)
      /\ m.id \notin DOMAIN n.inst => i.status = NONE
  BY Another DEF Outward
<1>2. /\ PreAccepting(r, t, c, m, out) /\ NodeTyped(t) /\ Ballots(t)
  BY DEF Goes
<1> HIDE DEF m, n, lb
<1>3. PICK j : Written(r, t, m.id, j) /\ CopyAt(j, lb) /\ (i.status >= COMMITTED => j = i)
  <2>1. CASE i.status >= ACCEPTED
    <3> HIDE DEF i
    <3>1. m.id \in DOMAIN n.inst
      BY <1>1, <2>1 DEF ACCEPTED, NONE
    <3> QED
      BY <1>1, <1>2, <2>1, <3>1 DEF PreAccepting, i, n
  <2>2. CASE ~(i.status >= ACCEPTED)
    <3>1. PICK attr, status :
               /\ status \in {PREACCEPTED, PREACCEPTED_EQ}
               /\ Written(r, t, m.id, NewInstance(m.cmds, m.ballot, status, attr.seq, attr.deps))
      BY <1>2, <2>2 DEF PreAccepting, n
    <3> DEFINE j == NewInstance(m.cmds, m.ballot, status, attr.seq, attr.deps)
    <3>2. j.cmds = m.cmds /\ j.status = status
      BY DEF NewInstance
    <3> HIDE DEF j, i
    <3>3. m.cmds = lb.cmds
      BY <1>1 DEF MailAt
    <3>4. CopyAt(j, lb)
      BY <3>1, <3>2, <3>3 DEF CopyAt, PREACCEPTED, PREACCEPTED_EQ, ACCEPTED, NONE, COMMITTED
    <3>5. ~(i.status >= COMMITTED)
      BY <1>1, <2>2 DEF ACCEPTED, COMMITTED, NONE, EXECUTED
    <3> QED
      BY <3>1, <3>4, <3>5 DEF j
  <2> QED
    BY <2>1, <2>2
<1>4. Sane(r, t, {})
  <2> HIDE DEF i
  <2>1. m.id \in DOMAIN node[r].inst /\ node[r].inst[m.id].status >= COMMITTED =>
          j.status >= COMMITTED /\ SameInstance(node[r].inst[m.id], j)
    BY <1>1, <1>3 DEF n, SameInstance
  <2> QED
    BY <1>1, <1>3, <2>1, WrittenSane DEF lb
<1> HIDE DEF i
<1>5. t.inst[m.id] = j /\ m.id \in DOMAIN t.inst /\ j \in Instances /\ j.bal = Row(m.id) /\ j.vbal = Row(m.id)
  <2>1. t.inst[m.id] = j /\ m.id \in DOMAIN t.inst
    BY <1>3 DEF Written, With
  <2> QED
    BY <1>2, <2>1 DEF NodeTyped, FieldsTyped, IsMap, Ballots
<1>6. /\ o[1] = Channel("PreAcceptReply", r, Row(m.id)) /\ o[2] \in Replies /\ o[2].id = m.id
      /\ o[2].ballot = Row(m.id) /\ o[2].vballot = Row(m.id) /\ o[2].status = j.status /\ o[2].seq = j.seq
      /\ o[2].deps = j.deps
  BY <1>1, <1>5 DEF PreAcceptReply, Replies, Instances
<1>7. out = {o}
  BY <1>2 DEF PreAccepting
<1> HIDE DEF o
<1>8. Row(m.id) \in Replicas
  BY <1>1, IdIs
<1>9. Addressed(o[1], o[2])
  BY <1>1, <1>6, <1>8 DEF Addressed, Letter, Channel, Channels, Outward, Types
<1>10. MailAt(o[1].type, o[2], lb)
  <2>1. IsPreAccepting(lb) => j.status \in {PREACCEPTED, PREACCEPTED_EQ}
    BY <1>3, <1>5 DEF CopyAt, IsPreAccepting, Instances, NONE, PREACCEPTED, PREACCEPTED_EQ, ACCEPTED, COMMITTED, EXECUTED
  <2>2. j.seq \in Int /\ j.deps \in Dependencies
    BY <1>5 DEF Instances
  <2>3. IsPreAccepting(lb) => IsReply(o[2], Row(o[2].id))
    BY <1>6, <2>1, <2>2 DEF IsReply
  <2>4. o[1].type = "PreAcceptReply"
    BY <1>6 DEF Channel
  <2> QED
    BY <2>3, <2>4 DEF MailAt
<1>11. Sane(r, t, {o})
  BY <1>1, <1>4, <1>6, <1>9, <1>10, WithAnswer DEF lb
<1> QED
  BY <1>7, <1>11

\* handleAccept() is sane.
LEMMA AcceptingSane ==
  ASSUME Sound, NEW r \in Replicas, NEW c \in DOMAIN net, c.to = r, c.type = "Accept", NEW t, NEW gone, NEW out,
         Goes(r, t, gone, out), Accepting(r, t, c, Head(net[c]), out)
  PROVE  Sane(r, t, out)
<1> DEFINE m == Head(net[c])
           n == node[r]
           i == Inst(n, m.id)
           lb == Own(m.id)
           j == IF i.status >= COMMITTED THEN i ELSE NewInstance(i.cmds, m.ballot, i.status, m.seq, m.deps)
           o == <<Channel("AcceptReply", r, c.from), AcceptReply(t, m.id)>>
<1>1. /\ m.id \in Ids /\ m.ballot = Row(m.id) /\ Row(m.id) # r /\ Led(m.id) /\ c.from = Row(m.id)
      /\ MailAt(c.type, m, lb) /\ lb \in Leaders
      /\ i.status \in NONE .. EXECUTED /\ i.status # ACCEPTED
      /\ i.status # NONE => m.id \in DOMAIN n.inst
      /\ m.id \in DOMAIN n.inst => i = n.inst[m.id] /\ CopyAt(i, lb)
      /\ m.id \notin DOMAIN n.inst => i.status = NONE
  BY Another DEF Outward
<1>2. /\ Written(r, t, m.id, j) /\ out = {o} /\ NodeTyped(t) /\ Ballots(t)
  BY DEF Goes, Accepting
<1> HIDE DEF m, n, lb, i
<1>3. ~IsPreAccepting(lb)
  BY <1>1 DEF MailAt
<1>4. CopyAt(j, lb) /\ (i.status >= COMMITTED => j = i)
  <2>1. CASE i.status >= COMMITTED
    <3>1. m.id \in DOMAIN n.inst
      BY <1>1, <2>1 DEF COMMITTED, NONE
    <3> QED
      BY <1>1, <2>1, <3>1
  <2>2. CASE ~(i.status >= COMMITTED)
    <3>1. j.cmds = i.cmds /\ j.status = i.status
      BY <2>2 DEF NewInstance
    <3> HIDE DEF j
    <3>2. i.status >= PREACCEPTED => i.cmds = lb.cmds
      BY <1>1 DEF CopyAt, PREACCEPTED, NONE
    <3>3. CopyAt(j, lb)
      BY <1>1, <1>3, <2>2, <3>1, <3>2 DEF CopyAt
    <3> QED
      BY <2>2, <3>3
  <2> QED
    BY <2>1, <2>2
<1> HIDE DEF j
<1>5. Sane(r, t, {})
  <2>1. m.id \in DOMAIN node[r].inst /\ node[r].inst[m.id].status >= COMMITTED =>
          j.status >= COMMITTED /\ SameInstance(node[r].inst[m.id], j)
    BY <1>1, <1>4 DEF n, SameInstance
  <2> QED
    BY <1>1, <1>2, <1>4, <2>1, WrittenSane DEF lb
<1>6. t.inst[m.id] = j /\ j.bal = Row(m.id)
  <2>1. t.inst[m.id] = j /\ m.id \in DOMAIN t.inst
    BY <1>2 DEF Written, With
  <2> QED
    BY <1>2, <2>1 DEF Ballots
<1>7. Row(m.id) \in Replicas /\ Row(m.id) \in Nat
  <2>1. Row(m.id) \in Replicas
    BY <1>1, IdIs
  <2> QED
    BY <2>1, GroupIs DEF Sound
<1>8. /\ o[1] = Channel("AcceptReply", r, Row(m.id)) /\ o[2] \in Answers /\ o[2].id = m.id /\ o[2].ballot = Row(m.id)
  BY <1>1, <1>6, <1>7 DEF AcceptReply, Answers
<1>9. out = {o}
  BY <1>2
<1> HIDE DEF o
<1>10. Addressed(o[1], o[2])
  BY <1>1, <1>7, <1>8 DEF Addressed, Letter, Channel, Channels, Outward, Types
<1>11. MailAt(o[1].type, o[2], lb)
  BY <1>3, <1>8 DEF MailAt, Channel
<1>12. Sane(r, t, {o})
  BY <1>1, <1>5, <1>8, <1>10, <1>11, WithAnswer DEF lb
<1> QED
  BY <1>9, <1>12

\* handleCommit() is sane.
LEMMA CommittingSane ==
  ASSUME Sound, NEW r \in Replicas, NEW c \in DOMAIN net, c.to = r, c.type = "Commit", NEW t, NEW out,
         Committing(r, t, Head(net[c]), out)
  PROVE  Sane(r, t, out)
<1> DEFINE m == Head(net[c])
           n == node[r]
           i == Inst(n, m.id)
           lb == Own(m.id)
<1>1. /\ m.id \in Ids /\ m.ballot = Row(m.id) /\ Row(m.id) # r /\ Led(m.id)
      /\ MailAt(c.type, m, lb)
      /\ i.status # NONE => m.id \in DOMAIN n.inst
      /\ m.id \in DOMAIN n.inst => i = n.inst[m.id] /\ CopyAt(i, lb)
  BY Another DEF Outward
<1>2. out = {}
  BY DEF Committing
<1>3. Committing(r, t, m, out)
  OBVIOUS
<1> HIDE DEF m, n, lb
<1>4. CASE i.status >= COMMITTED
  <2>1. Written(r, t, m.id, i)
    BY <1>3, <1>4 DEF Committing, n
  <2> HIDE DEF i
  <2>2. m.id \in DOMAIN n.inst
    BY <1>1, <1>4 DEF COMMITTED, NONE
  <2>3. m.id \in DOMAIN node[r].inst /\ node[r].inst[m.id].status >= COMMITTED =>
          i.status >= COMMITTED /\ SameInstance(node[r].inst[m.id], i)
    BY <1>1, <1>4 DEF n, SameInstance
  <2>4. Sane(r, t, {})
    BY <1>1, <2>1, <2>2, <2>3, WrittenSane DEF lb
  <2> QED
    BY <1>2, <2>4
<1>5. CASE ~(i.status >= COMMITTED)
  <2> DEFINE j == NewInstance(m.cmds, m.ballot, COMMITTED, m.seq, m.deps)
  <2>1. Written(r, t, m.id, j)
    BY <1>3, <1>5 DEF Committing, n
  <2>2. j.status = COMMITTED /\ SameInstance(j, m)
    BY DEF NewInstance, SameInstance
  <2> HIDE DEF j, i
  <2>3. CopyAt(j, lb)
    BY <1>1, <2>2 DEF MailAt, CopyAt, SameInstance, ACCEPTED, COMMITTED, NONE
  <2>4. m.id \in DOMAIN node[r].inst /\ node[r].inst[m.id].status >= COMMITTED =>
          j.status >= COMMITTED /\ SameInstance(node[r].inst[m.id], j)
    BY <1>1, <1>5 DEF n
  <2>5. Sane(r, t, {})
    BY <1>1, <2>1, <2>3, <2>4, WrittenSane DEF lb
  <2> QED
    BY <1>2, <2>5
<1> QED
  BY <1>4, <1>5

\* handlePreAcceptReply() is sane.
LEMMA PreAcceptAnsweredSane ==
  ASSUME Sound, NEW r \in Replicas, NEW c \in DOMAIN net, c.to = r, c.type = "PreAcceptReply", NEW t, NEW out,
         PreAcceptAnswered(r, t, Head(net[c]), out)
  PROVE  Sane(r, t, out)
<1> DEFINE m == Head(net[c])
           a == m.id
           n == node[r]
           lb == Own(a)
<1>1. Row(a) = r /\ Led(a) /\ lb.lastTriedBallot = m.ballot /\ m.ballot = Row(a)
  BY OwnReceived, Received
<1>2. a \in DOMAIN n.inst /\ OwnerAt(r, lb, n.inst[a]) /\ lb \in Leaders
  BY <1>1, OwnIs
<1>3. PreAcceptAnswered(r, t, m, out)
  OBVIOUS
<1> HIDE DEF m
<1>4. CASE ~Open(a) /\ Idle(r, t) /\ out = {}
  BY <1>4, IdleSane
<1>5. CASE Open(a) /\ \E l : /\ Tallied(r, lb, m, l)
                            /\ \/ IsPreAccepting(l) /\ Counting(r, t, a, l) /\ out = {}
                               \/ Taking(r, t, a, l, out)
  <2>1. PICK l : /\ Tallied(r, lb, m, l)
                 /\ \/ IsPreAccepting(l) /\ Counting(r, t, a, l) /\ out = {}
                    \/ Taking(r, t, a, l, out)
    BY <1>5
  <2>2. IsPreAccepting(lb)
    BY <1>5 DEF Open
  <2> HIDE DEF lb, a, n
  <2>3. Advances(lb, l) /\ lb.status # COMMITTED
    BY <2>1, <2>2, DecidingAdvances
  <2>4. l.ballot = r /\ l.cmds = lb.cmds /\ l.lastTriedBallot = r
    BY <1>1, <2>1 DEF Tallied
  <2>5. CASE IsPreAccepting(l) /\ Counting(r, t, a, l) /\ out = {}
    <3>1. n.inst[a].status = PREACCEPTED /\ n.inst[a].cmds = lb.cmds
      BY <1>2, <2>2 DEF OwnerAt
    <3>2. OwnerAt(r, l, n.inst[a])
      BY <2>4, <2>5, <3>1 DEF OwnerAt, IsPreAccepting, PREACCEPTED, PREACCEPTED_EQ, ACCEPTED, COMMITTED
    <3>3. Advances(Own(a), l) /\ OwnerAt(r, l, node[r].inst[a])
      BY <2>3, <3>2 DEF lb, n
    <3>4. Sane(r, t, {})
      BY <2>5, <3>3, CountingSane
    <3> QED
      BY <2>5, <3>4
  <2>6. CASE Taking(r, t, a, l, out)
    <3>1. Advances(Own(a), l) /\ Own(a).status # COMMITTED
      BY <2>3 DEF lb
    <3> QED
      BY <2>4, <2>6, <3>1, TakingSane
  <2> QED
    BY <2>1, <2>5, <2>6
<1> QED
  BY <1>3, <1>4, <1>5 DEF PreAcceptAnswered

\* handleAcceptReply() is sane.
LEMMA AcceptAnsweredSane ==
  ASSUME Sound, NEW r \in Replicas, NEW c \in DOMAIN net, c.to = r, c.type = "AcceptReply", NEW t, NEW out,
         AcceptAnswered(r, t, Head(net[c]), out)
  PROVE  Sane(r, t, out)
<1> DEFINE m == Head(net[c])
           a == m.id
           n == node[r]
           lb == Own(a)
<1>1. Row(a) = r /\ Led(a) /\ lb.lastTriedBallot = m.ballot /\ m.ballot = Row(a)
  BY OwnReceived, Received
<1>2. a \in DOMAIN n.inst /\ OwnerAt(r, lb, n.inst[a]) /\ lb \in Leaders
  BY <1>1, OwnIs
<1>3. AcceptAnswered(r, t, m, out)
  OBVIOUS
<1> HIDE DEF m
<1>4. CASE Idle(r, t) /\ out = {}
  BY <1>4, IdleSane
<1>5. CASE lb.status = ACCEPTED /\ \E l : /\ SameAttributes(l, lb)
                                         /\ \/ l.status = ACCEPTED /\ Counting(r, t, a, l) /\ out = {}
                                            \/ l.status = COMMITTED /\ Taking(r, t, a, l, out)
  <2>1. PICK l : /\ SameAttributes(l, lb)
                 /\ \/ l.status = ACCEPTED /\ Counting(r, t, a, l) /\ out = {}
                    \/ l.status = COMMITTED /\ Taking(r, t, a, l, out)
    BY <1>5
  <2> HIDE DEF lb, a, n
  <2>2. Advances(lb, l) /\ lb.status # COMMITTED
    BY <1>5, <2>1 DEF SameAttributes, Advances, IsPreAccepting, ACCEPTED, COMMITTED, PREACCEPTED, PREACCEPTED_EQ
  <2>3. l.lastTriedBallot = r
    BY <1>1, <2>1 DEF SameAttributes
  <2>4. CASE l.status = ACCEPTED /\ Counting(r, t, a, l) /\ out = {}
    <3>1. OwnerAt(r, l, n.inst[a])
      BY <1>2, <1>5, <2>1, <2>4 DEF OwnerAt, SameAttributes, SameInstance, IsPreAccepting, ACCEPTED, COMMITTED, PREACCEPTED, PREACCEPTED_EQ
    <3>2. Advances(Own(a), l) /\ OwnerAt(r, l, node[r].inst[a])
      BY <2>2, <3>1 DEF lb, n
    <3>3. Sane(r, t, {})
      BY <2>4, <3>2, CountingSane
    <3> QED
      BY <2>4, <3>3
  <2>5. CASE Taking(r, t, a, l, out)
    <3>1. Advances(Own(a), l) /\ Own(a).status # COMMITTED
      BY <2>2 DEF lb
    <3> QED
      BY <2>3, <2>5, <3>1, TakingSane
  <2> QED
    BY <2>1, <2>4, <2>5
<1> QED
  BY <1>3, <1>4, <1>5 DEF AcceptAnswered

\* Whatever a replica does is sane.
LEMMA ActsSane ==
  ASSUME Sound, NEW r \in Replicas, NEW t, NEW gone, NEW out, Goes(r, t, gone, out), Acts(r, t, gone, out)
  PROVE  Sane(r, t, out)
<1>1. CASE Proposing(r, t, out)
  BY <1>1, ProposingSane
<1>2. CASE out = {} /\ Executing(r, t)
  BY <1>2, ExecutingSane
<1>3. CASE out = {} /\ Idle(r, t)
  BY <1>3, IdleSane
<1>4. ASSUME NEW c \in DOMAIN net, c.to = r, Handled(r, t, c, Head(net[c]), out)
      PROVE  Sane(r, t, out)
  BY <1>4, PreAcceptingSane, PreAcceptAnsweredSane, AcceptingSane, AcceptAnsweredSane, CommittingSane DEF Handled
<1> QED
  BY <1>1, <1>2, <1>3, <1>4 DEF Acts

(***************************************************************************)
(* The invariant.                                                          *)
(***************************************************************************)
LEMMA FirstNode ==
  ASSUME InGroup, NEW r \in Replicas
  PROVE  LET n == NewNode(group.proposals[r])
         IN  NodeTyped(n) /\ Ballots(n) /\ n.lb = <<>> /\ n.inst = <<>> /\ n.crtInstance[r] = -1
<1> DEFINE n == NewNode(group.proposals[r])
<1>1. group.proposals[r] \in Seq(Commands)
  BY GroupsAssumption DEF InGroup, Replicas
<1>2. /\ DOMAIN n = Fields /\ n.todo = group.proposals[r] /\ n.inst = <<>> /\ n.lb = <<>> /\ n.crtInstance = NilDeps
      /\ n.last = [k \in Keys |-> NilDeps] /\ n.lastWrite = [k \in Keys |-> NilDeps]
      /\ n.maxSeqPerKey = [k \in Keys |-> NoSeq] /\ n.maxRecvBallot = -1 /\ n.created = <<>> /\ n.executed = <<>>
      /\ n.recoveries = 0 /\ n.asleep = FALSE /\ n.torn = FALSE
  BY DEF NewNode, Fields
<1> HIDE DEF n
<1>3. NilDeps \in Dependencies /\ \A q \in Replicas : NilDeps[q] = -1
  BY DEF NilDeps, Dependencies
<1>4. FieldsTyped(n)
  <2>1. IsMap(n.inst, Ids, Instances) /\ IsMap(n.lb, Ids, Leaders)
    BY <1>2, EmptyMaps
  <2>2. n.last \in [Keys -> Dependencies] /\ n.lastWrite \in [Keys -> Dependencies] /\ n.maxSeqPerKey \in [Keys -> Int]
    BY <1>2, <1>3 DEF NoSeq
  <2>3. n.executed \in Seq(Ids) /\ n.maxRecvBallot \in Int
    BY <1>2
  <2> QED
    BY <1>1, <1>2, <1>3, <2>1, <2>2, <2>3 DEF FieldsTyped
<1>5. Timed(n)
  BY <1>2, EmptyMaps, FS_EmptySet DEF Timed
<1>6. Listed(n)
  BY <1>2 DEF Listed, IsInjective, ToSet
<1>7. Linked(n) /\ Ballots(n)
  BY <1>2, <1>3 DEF Linked, Ballots
<1> QED
  BY <1>2, <1>3, <1>4, <1>5, <1>6, <1>7 DEF NodeTyped, n

\* The invariant holds at first.
LEMMA InitSound == Init /\ NoRecovery => Sound
<1> SUFFICES ASSUME Init, NoRecovery
             PROVE  Sound
  OBVIOUS
<1>1. InGroup /\ node = [r \in Replicas |-> NewNode(group.proposals[r])] /\ net = <<>> /\ crashed = {}
  BY DEF Init, InGroup
<1>2. \A r \in Replicas : /\ NodeTyped(node[r]) /\ Ballots(node[r]) /\ node[r].lb = <<>> /\ node[r].inst = <<>>
                          /\ node[r].crtInstance[r] = -1
  BY <1>1, FirstNode
<1>3. NetTyped /\ Flying = {}
  BY <1>1 DEF NetTyped, QueuesOf, Flying, FlyingIn
<1>4. Rows
  BY <1>2 DEF Rows, RowOf
<1> QED
  BY <1>1, <1>2, <1>3, <1>4 DEF Sound, Nodes, Owners, Copies, Mail

\* A step that changes neither replicas nor messages preserves it.
LEMMA UnchangedSound ==
  ASSUME Sound, node' = node, net' = net, group' = group, crashed' \subseteq group.mayCrash
  PROVE  Sound'
<1>1. node' = node /\ net' = net /\ group' = group /\ crashed' \subseteq group.mayCrash
  OBVIOUS
<1>2. /\ Replicas' = Replicas /\ Ids' = Ids /\ Channels' = Channels /\ Proposals' = Proposals /\ Replies' = Replies
      /\ Attributes' = Attributes /\ Answers' = Answers /\ Letters' = Letters /\ InGroup' = InGroup
      /\ NoRecovery' = NoRecovery /\ Dependencies' = Dependencies
  BY <1>1, SameGroup
<1>3. NetTyped' /\ Flying' = Flying
  BY <1>1, <1>2 DEF Sound, NetTyped, QueuesOf, Flying, FlyingIn
<1>4. Nodes'
  <2>1. \A q \in Replicas : node'[q] = node[q] /\ NodeTyped(node[q]) /\ Ballots(node[q])
    BY <1>1 DEF Sound, Nodes
  <2>2. ASSUME NEW q \in Replicas
        PROVE  NodeTyped(node[q])' /\ Ballots(node[q])'
    BY <1>1, <2>1, TypedAgain
  <2> QED
    BY <1>1, <1>2, <2>2 DEF Sound, Nodes
<1>5. Rows'
  BY <1>1, <1>2 DEF Sound, Rows, RowOf
<1>6. Owners'
  BY <1>1, <1>2 DEF Sound, Owners, OwnerOf, OwnerAt, SameInstance
<1>7. \A id : (Led(id)' <=> Led(id)) /\ Own(id)' = Own(id)
  BY <1>1, <1>2 DEF Led, Own
<1>8. Copies'
  BY <1>1, <1>2, <1>7 DEF Sound, Copies, CopyOf, CopyAt, SameInstance
<1>9. Mail'
  <2>1. ASSUME NEW f \in Flying
        PROVE  MailOf(f[1], f[2])'
    <3>1. Addressed(f[1], f[2]) /\ Led(f[2].id) /\ MailAt(f[1].type, f[2], Own(f[2].id))
      BY DEF Sound, Mail, MailOf
    <3>2. Addressed(f[1], f[2])'
      BY <1>2, <3>1 DEF Addressed, Letter, Outward
    <3>3. MailAt(f[1].type, f[2], Own(f[2].id))'
      BY <1>2, <1>7, <3>1 DEF MailAt, IsReply, SameInstance, IsPreAccepting
    <3> QED
      BY <1>7, <3>1, <3>2, <3>3 DEF MailOf
  <2> QED
    BY <1>3, <2>1 DEF Mail
<1> QED
  BY <1>1, <1>2, <1>3, <1>4, <1>5, <1>6, <1>8, <1>9 DEF Sound

\* A replica that crashes preserves it.
LEMMA CrashSound ==
  ASSUME Sound, NEW r, Crash(r)
  PROVE  Sound'
<1>1. node' = node /\ net' = net /\ group' = group /\ crashed' \subseteq group.mayCrash
  BY DEF Crash, Sound
<1> QED
  BY <1>1, UnchangedSound

\* Every step preserves it.
LEMMA SoundSteps == Sound /\ [Next]_vars => Sound'
<1> SUFFICES ASSUME Sound, [Next]_vars
             PROVE  Sound'
  OBVIOUS
<1>1. CASE Next
  <2>1. PICK r \in Replicas : Step(r)
    BY <1>1 DEF Next
  <2>2. CASE Crash(r)
    BY <2>2, CrashSound
  <2>3. CASE \E t, gone, out : Goes(r, t, gone, out) /\ Acts(r, t, gone, out)
    BY <2>3, ActsSane, SaneSound
  <2> QED
    BY <2>1, <2>2, <2>3, StepIs
<1>2. CASE UNCHANGED vars
  <2>1. node' = node /\ net' = net /\ group' = group /\ crashed' = crashed
    BY <1>2 DEF vars
  <2> QED
    BY <2>1, UnchangedSound DEF Sound
<1> QED
  BY <1>1, <1>2

\* The first invariant of EPaxos, whatever is proposed, lost to a crash, delayed
\* or executed: the copies of an instance and the messages about it never claim
\* more than its owner has decided.
THEOREM Invariance == Spec /\ NoRecovery => []Sound
BY InitSound, SoundSteps, PTL DEF Spec

\* The invariant gives the state its type.
LEMMA SoundTypes == Sound => TypeOK
<1> SUFFICES ASSUME Sound
             PROVE  TypeOK
  OBVIOUS
<1>1. group \in Groups /\ crashed \subseteq group.mayCrash
  BY DEF Sound, InGroup
<1>2. ASSUME NEW r \in Replicas
      PROVE  LET n == node[r]
             IN  /\ \A id \in DOMAIN n.inst : InstanceTyped(n.inst[id])
                 /\ DOMAIN n.lb \subseteq DOMAIN n.inst
                 /\ ToSet(n.executed) = {id \in DOMAIN n.inst : n.inst[id].status = EXECUTED}
  <2> DEFINE n == node[r]
  <2>1. NodeTyped(n)
    BY DEF Sound, Nodes
  <2> HIDE DEF n
  <2>2. ASSUME NEW id \in DOMAIN n.inst
        PROVE  InstanceTyped(n.inst[id])
    <3>1. n.inst[id] \in Instances /\ (n.inst[id].status >= PREACCEPTED => n.inst[id].cmds # Nil)
      BY <2>1 DEF NodeTyped, FieldsTyped, IsMap, Linked
    <3> DEFINE i == n.inst[id]
    <3> HIDE DEF i
    <3>2. i \in Instances /\ (i.status >= PREACCEPTED => i.cmds # Nil)
      BY <3>1 DEF i
    <3>3. /\ i.status \in NONE .. EXECUTED /\ i.deps \in Dependencies
          /\ i.bal \in {-1} \cup Nat /\ i.vbal \in {-1} \cup Nat
      BY <3>2 DEF Instances
    <3>4. \A q \in Replicas : i.deps[q] >= -1
      BY <3>3 DEF Dependencies
    <3>5. i.bal >= -1 /\ i.vbal >= -1
      BY <3>3
    <3>6. InstanceTyped(i)
      BY <3>2, <3>3, <3>4, <3>5 DEF InstanceTyped
    <3> QED
      BY <3>6 DEF i
  <2> QED
    BY <2>1, <2>2 DEF NodeTyped, Linked, Listed, n
<1> QED
  BY <1>1, <1>2 DEF TypeOK

\* The replicas' logs, the leaders' counts and the network have their types
\* throughout.
THEOREM TypeCorrect == Spec /\ NoRecovery => []TypeOK
BY Invariance, SoundTypes, PTL

\* A committed record has the attributes that the owner decided.
LEMMA CommittedIsOwn ==
  ASSUME Sound, NEW r \in Replicas, NEW id \in CommittedAt(r)
  PROVE  Led(id) /\ ~Open(id) /\ SameInstance(Own(id), node[r].inst[id]) /\ id \in DOMAIN node[r].inst
<1> DEFINE n == node[r]
           i == n.inst[id]
           lb == Own(id)
<1>1. id \in DOMAIN n.inst /\ i.status >= COMMITTED
  BY DEF CommittedAt
<1>2. Led(id) /\ (Row(id) # r => CopyAt(i, lb))
  BY <1>1, Before
<1>3. Row(id) = r => OwnerAt(r, lb, i) /\ lb \in Leaders
  BY <1>2, OwnIs
<1> HIDE DEF n, i, lb
<1>4. SameInstance(lb, i) /\ ~IsPreAccepting(lb)
  <2>1. CASE Row(id) # r
    BY <1>1, <1>2, <2>1 DEF CopyAt, IsPreAccepting, COMMITTED, PREACCEPTED, PREACCEPTED_EQ
  <2>2. CASE Row(id) = r
    BY <1>1, <1>3, <2>2 DEF OwnerAt, IsPreAccepting, COMMITTED, PREACCEPTED, PREACCEPTED_EQ
  <2> QED
    BY <2>1, <2>2
<1> QED
  BY <1>1, <1>2, <1>4 DEF Open, n, i, lb

\* Two replicas that have committed an instance have its owner's.
LEMMA SoundAgreement == Sound => Agreement
<1> SUFFICES ASSUME Sound, NEW r \in Replicas, NEW s \in Replicas, NEW id \in CommittedAt(r) \cap CommittedAt(s)
             PROVE  SameInstance(node[r].inst[id], node[s].inst[id])
  BY DEF Agreement
<1>1. SameInstance(Own(id), node[r].inst[id]) /\ SameInstance(Own(id), node[s].inst[id])
  BY CommittedIsOwn
<1> QED
  BY <1>1 DEF SameInstance

\* Two replicas that have committed an instance have the same commands,
\* sequence number and dependencies for it, by the fast path or the slow one.
THEOREM AgreementHolds == Spec /\ NoRecovery => []Agreement
BY Invariance, SoundAgreement, PTL

\* What a replica has committed and executed after a step.
StaysFinal(n, t) ==
  /\ \A id \in DOMAIN n.inst : n.inst[id].status >= COMMITTED =>
       id \in DOMAIN t.inst /\ t.inst[id].status >= COMMITTED /\ SameInstance(n.inst[id], t.inst[id])
  /\ IsPrefix(n.executed, t.executed) /\ IsInjective(t.executed)

\* What a replica has committed stays in a step.
LEMMA StepFinal ==
  ASSUME Sound, [Next]_vars, NEW q \in Replicas
  PROVE  Replicas' = Replicas /\ StaysFinal(node[q], node'[q])
<1> DEFINE n == node[q]
<1>1. NodeTyped(n) /\ DOMAIN node = Replicas
  BY DEF Sound, Nodes
<1>2. n.executed \in Seq(Ids) /\ IsInjective(n.executed)
  BY <1>1 DEF NodeTyped, FieldsTyped, Listed
<1>3. IsPrefix(n.executed, n.executed)
  BY <1>2, SamePrefix
<1>4. StaysFinal(n, n)
  <2> HIDE DEF n
  <2> QED
    BY <1>2, <1>3 DEF StaysFinal, SameInstance
<1>5. ASSUME NEW r, NEW t, NEW gone, NEW out, Goes(r, t, gone, out), Acts(r, t, gone, out)
      PROVE  Replicas' = Replicas /\ StaysFinal(n, node'[q])
  <2>1. /\ r \in Replicas /\ node' = [node EXCEPT ![r] = t] /\ group' = group /\ NodeTyped(t)
    BY <1>5 DEF Goes
  <2>2. Keeps(node[r], t)
    BY <1>5, <2>1, ActsSane DEF Sane
  <2>3. IsInjective(t.executed)
    BY <2>1 DEF NodeTyped, Listed
  <2>4. CASE q = r
    BY <1>1, <2>1, <2>2, <2>3, <2>4 DEF Keeps, StaysFinal, Replicas
  <2>5. CASE q # r
    <3>1. node'[q] = n
      BY <1>1, <2>1, <2>5
    <3> HIDE DEF n
    <3> QED
      BY <1>4, <2>1, <3>1 DEF Replicas
  <2> QED
    BY <2>4, <2>5
<1>6. CASE node' = node /\ group' = group
  BY <1>4, <1>6 DEF Replicas
<1>7. CASE Next
  <2>1. PICK r \in Replicas : Step(r)
    BY <1>7 DEF Next
  <2>2. CASE Crash(r)
    BY <1>6, <2>2 DEF Crash
  <2> QED
    BY <1>5, <2>1, <2>2, StepIs
<1> QED
  BY <1>6, <1>7 DEF vars

\* No step takes back or rewrites what a replica has committed or executed, and
\* executeCommand() executes no instance twice.
THEOREM FinalHolds == Spec /\ NoRecovery => Final
<1> DEFINE A == \A r \in Replicas : \A id \in CommittedAt(r) :
                  /\ id \in CommittedAt(r)'
                  /\ SameInstance(node[r].inst[id], node'[r].inst[id])
                  /\ IsPrefix(node[r].executed, node'[r].executed)
                  /\ IsInjective(node'[r].executed)
<1>1. Sound /\ [Next]_vars => [A]_vars
  <2> SUFFICES ASSUME Sound, [Next]_vars
               PROVE  A
    OBVIOUS
  <2> SUFFICES ASSUME NEW r \in Replicas, NEW id \in CommittedAt(r)
               PROVE  /\ id \in CommittedAt(r)'
                      /\ SameInstance(node[r].inst[id], node'[r].inst[id])
                      /\ IsPrefix(node[r].executed, node'[r].executed)
                      /\ IsInjective(node'[r].executed)
    OBVIOUS
  <2>1. StaysFinal(node[r], node'[r])
    BY StepFinal
  <2>2. id \in DOMAIN node[r].inst /\ node[r].inst[id].status >= COMMITTED
    BY DEF CommittedAt
  <2>3. /\ id \in DOMAIN node'[r].inst /\ node'[r].inst[id].status >= COMMITTED
        /\ SameInstance(node[r].inst[id], node'[r].inst[id])
        /\ IsPrefix(node[r].executed, node'[r].executed) /\ IsInjective(node'[r].executed)
    BY <2>1, <2>2 DEF StaysFinal
  <2> QED
    BY <2>3 DEF CommittedAt
<1>2. Spec /\ NoRecovery => [][A]_vars
  BY <1>1, Invariance, PTL DEF Spec
<1> QED
  BY <1>2 DEF Final

(***************************************************************************)
(* The opinions about an instance: what a replica that has it holds of its *)
(* dependencies is in its reply, and in the leader's bookkeeping after it. *)
(***************************************************************************)
RepliesTo(q, id) == {f \in Flying : f[1] = Channel("PreAcceptReply", q, Row(id)) /\ f[2].id = id}

Has(q, id) == id \in DOMAIN node[q].inst
Answerers(id) == {q \in Replicas \ {Row(id)} : Has(q, id) /\ RepliesTo(q, id) = {}}

AwareOf(n) == \A id \in DOMAIN n.inst : n.inst[id].status >= PREACCEPTED => Knows(n, id, n.inst[id].cmds)
Aware == \A q \in Replicas : AwareOf(node[q])

\* Until the first reply, the leader has no more than it asked with.
Covers(m) == Own(m.id).ballot = -1 => \A q \in Replicas : Own(m.id).deps[q] <= m.deps[q]

AskingOf(f) ==
  f[1].type = "PreAccept" /\ Open(f[2].id) => ~Has(f[1].to, f[2].id) /\ Covers(f[2])
Asking == \A f \in Flying : AskingOf(f)

ReplyingOf(f) ==
  f[1].type = "PreAcceptReply" => Has(f[1].from, f[2].id) /\ (Open(f[2].id) => Covers(f[2]))
Replying == \A f \in Flying : ReplyingOf(f)

\* A replica has not answered what it is still to receive.
Answering(f, g) ==
  /\ <<f[1].type, g[1].type>> \in {<<"PreAccept", "PreAcceptReply">>, <<"Accept", "AcceptReply">>}
  /\ f[1].to = g[1].from
Single == \A f, g \in Flying : Answering(f, g) => f[2].id # g[2].id

Tidy == Distinct /\ Aware /\ Asking /\ Replying /\ Single

DependsOn(id, b) == Own(id).deps[Row(b)] >= Number(b)
Says(q, a, b) ==
  /\ \A f \in RepliesTo(q, a) : f[2].deps[Row(b)] >= Number(b)
  /\ RepliesTo(q, a) = {} => DependsOn(a, b)

Conflicting(a, b) == Row(a) # Row(b) /\ Interfere(Own(a).cmds, Own(b).cmds)

\* A leader counts no more replies than there are replicas that answered.
CountOf(id) == Open(id) => Own(id).preAcceptOKs <= Cardinality(Answerers(id))
Counts == \A id : CountOf(id)

\* Of two instances in conflict that a replica has, it says that one depends on the other.
MeetAt(q, a, b) ==
  Has(q, a) /\ Has(q, b) /\ Open(a) /\ Open(b) /\ Conflicting(a, b) => Says(q, a, b) \/ Says(q, b, a)
MeetsOpen == \A q \in Replicas : \A a, b : MeetAt(q, a, b)

\* A replica that stands for the dependencies of a settled instance.
VotedAt(a, q, b) == Has(q, b) /\ Open(b) /\ Conflicting(a, b) => DependsOn(a, b) \/ Says(q, b, a)
Voted(a, q) == Knows(node[q], a, Own(a).cmds) /\ \A b : VotedAt(a, q, b)
Settled(a) == \E Q \in SUBSET Replicas : Cardinality(Q) >= FastQuorumSize /\ \A q \in Q : Voted(a, q)
Meets == \A a : Led(a) /\ ~Open(a) => Settled(a)

MetAt(a, b) ==
  Led(a) /\ Led(b) /\ ~Open(a) /\ ~Open(b) /\ Conflicting(a, b) => DependsOn(a, b) \/ DependsOn(b, a)
Met == \A a, b : MetAt(a, b)

----------------------------------------------------------------------------
\* What a step does to a replica's state and to the network.
LEMMA NodeAfter ==
  ASSUME Sound, NEW r, NEW t, NEW gone, NEW out, Goes(r, t, gone, out)
  PROVE  /\ r \in Replicas /\ DOMAIN node = Replicas /\ node'[r] = t
         /\ \A q \in Replicas \ {r} : node'[q] = node[q]
         /\ Replicas' = Replicas /\ Ids' = Ids /\ FastQuorumSize' = FastQuorumSize
         /\ group' = group /\ NodeTyped(node[r]) /\ NodeTyped(t)
<1>1. r \in Replicas /\ node' = [node EXCEPT ![r] = t] /\ group' = group /\ NodeTyped(t)
  BY DEF Goes
<1>2. DOMAIN node = Replicas /\ NodeTyped(node[r])
  BY <1>1 DEF Sound, Nodes
<1>3. Replicas' = Replicas /\ Ids' = Ids /\ FastQuorumSize' = FastQuorumSize
  BY <1>1, SameGroup
<1> QED
  BY <1>1, <1>2, <1>3

RepliesIn(fs, q, id) == {f \in fs : f[1] = Channel("PreAcceptReply", q, Row(id)) /\ f[2].id = id}

\* The answers under way after a step.
LEMMA RepliesAfter ==
  ASSUME Distinct, NEW r, NEW t, NEW gone, NEW out, Goes(r, t, gone, out), NEW q, NEW id
  PROVE  RepliesTo(q, id)' = (RepliesTo(q, id) \ gone) \cup RepliesIn(out, q, id)
<1>1. Flying' = (Flying \ gone) \cup out
  BY DEF Goes
<1> QED
  BY <1>1 DEF RepliesTo, RepliesIn

(***************************************************************************)
(* The maps of conflicts know every instance that a replica has.           *)
(***************************************************************************)
LEMMA KnowsMore ==
  ASSUME InGroup, NEW n, NodeTyped(n), NEW t, NodeTyped(t), More(n, t), NEW id \in Ids, NEW cmd, Knows(n, id, cmd)
  PROVE  Knows(t, id, cmd)
<1>1. Row(id) \in Replicas /\ Number(id) \in Nat /\ "key" \in Keys
  BY IdIs DEF Keys
<1>2. /\ n.last["key"][Row(id)] \in Int /\ n.lastWrite["key"][Row(id)] \in Int
      /\ t.last["key"][Row(id)] \in Int /\ t.lastWrite["key"][Row(id)] \in Int
  BY <1>1 DEF NodeTyped, FieldsTyped, Dependencies
<1>3. /\ n.last["key"][Row(id)] <= t.last["key"][Row(id)]
      /\ n.lastWrite["key"][Row(id)] <= t.lastWrite["key"][Row(id)]
  BY <1>1 DEF More
<1> QED
  BY <1>1, <1>2, <1>3 DEF Knows

\* A replica stays aware when it writes an instance that it knows,
LEMMA AwareWith ==
  ASSUME InGroup, NEW n, NodeTyped(n), NEW t, NodeTyped(t), More(n, t), AwareOf(n),
         NEW id, NEW i, t.inst = With(n.inst, id, i), i.status >= PREACCEPTED => Knows(t, id, i.cmds)
  PROVE  AwareOf(t)
<1> SUFFICES ASSUME NEW e \in DOMAIN t.inst, t.inst[e].status >= PREACCEPTED
             PROVE  Knows(t, e, t.inst[e].cmds)
  BY DEF AwareOf
<1>1. CASE e = id
  BY <1>1 DEF With
<1>2. CASE e # id
  <2>1. e \in DOMAIN n.inst /\ t.inst[e] = n.inst[e]
    BY <1>2 DEF With
  <2>2. e \in Ids
    BY <2>1 DEF NodeTyped, FieldsTyped, IsMap
  <2>3. Knows(n, e, n.inst[e].cmds)
    BY <2>1 DEF AwareOf
  <2> QED
    BY <2>1, <2>2, <2>3, KnowsMore
<1> QED
  BY <1>1, <1>2

\* and when it pre-accepts nothing.
LEMMA AwareLater ==
  ASSUME InGroup, NEW n, NodeTyped(n), NEW t, NodeTyped(t), More(n, t), AwareOf(n), DOMAIN t.inst = DOMAIN n.inst,
         \A e \in DOMAIN n.inst : /\ t.inst[e].cmds = n.inst[e].cmds
                                  /\ t.inst[e].status >= PREACCEPTED => n.inst[e].status >= PREACCEPTED
  PROVE  AwareOf(t)
<1> SUFFICES ASSUME NEW e \in DOMAIN n.inst, t.inst[e].status >= PREACCEPTED
             PROVE  Knows(t, e, t.inst[e].cmds)
  BY DEF AwareOf
<1>1. e \in Ids
  BY DEF NodeTyped, FieldsTyped, IsMap
<1>2. Knows(n, e, n.inst[e].cmds)
  BY DEF AwareOf
<1> QED
  BY <1>1, <1>2, KnowsMore

\* The maps of conflicts grow, and know what is new.
Grows(n, t) ==
  More(n, t) /\ DOMAIN n.inst \subseteq DOMAIN t.inst /\ (AwareOf(n) => AwareOf(t))

\* A step that leaves the log's commands alone forgets nothing,
LEMMA RestGrows ==
  ASSUME InGroup, NEW n, NodeTyped(n), NEW t, NodeTyped(t), t.last = n.last, t.lastWrite = n.lastWrite,
         DOMAIN t.inst = DOMAIN n.inst,
         \A e \in DOMAIN n.inst : /\ t.inst[e].cmds = n.inst[e].cmds
                                  /\ t.inst[e].status >= PREACCEPTED => n.inst[e].status >= PREACCEPTED
  PROVE  Grows(n, t)
BY SelfMore, AwareLater DEF Grows

\* and neither does one that writes an instance.
LEMMA WithGrows ==
  ASSUME InGroup, NEW n, NodeTyped(n), NEW t, NodeTyped(t), More(n, t),
         NEW id, NEW i, t.inst = With(n.inst, id, i), AwareOf(n) /\ i.status >= PREACCEPTED => Knows(t, id, i.cmds)
  PROVE  Grows(n, t)
<1>1. DOMAIN n.inst \subseteq DOMAIN t.inst
  BY DEF With
<1>2. AwareOf(n) => AwareOf(t)
  BY AwareWith
<1> QED
  BY <1>1, <1>2 DEF Grows

\* handlePropose() forgets nothing.
LEMMA ProposingGrows ==
  ASSUME Sound, NEW r \in Replicas, NEW t, NodeTyped(t), NEW out, Proposing(r, t, out)
  PROVE  Grows(node[r], t)
<1> DEFINE n == node[r]
           id == NextId(n, r)
           cmd == Head(n.todo)
<1>1. InGroup /\ NodeTyped(n)
  BY Before
<1>2. PICK attr : t.inst = With(n.inst, id, FirstInstance(r, id, cmd, attr))
  BY DEF Proposing
<1>3. More(n, t) /\ Knows(t, id, cmd)
  BY DEF Proposing
<1>4. FirstInstance(r, id, cmd, attr).cmds = cmd
  BY DEF FirstInstance, NewInstance
<1> DEFINE i == FirstInstance(r, id, cmd, attr)
<1> HIDE DEF n, id, cmd, i
<1>5. t.inst = With(n.inst, id, i) /\ i.cmds = cmd
  BY <1>2, <1>4 DEF i
<1>6. Grows(n, t)
  BY <1>1, <1>3, <1>5, WithGrows
<1> QED
  BY <1>6 DEF n

\* A record is written that is known, or was there.
LEMMA WrittenGrows ==
  ASSUME Sound, NEW r \in Replicas, NEW t, NodeTyped(t), NEW id \in Ids, NEW i, Written(r, t, id, i),
         i.status >= PREACCEPTED =>
           \/ Knows(t, id, i.cmds)
           \/ id \in DOMAIN node[r].inst /\ node[r].inst[id].status >= PREACCEPTED /\ node[r].inst[id].cmds = i.cmds
  PROVE  Grows(node[r], t)
<1> DEFINE n == node[r]
<1>1. InGroup /\ NodeTyped(n)
  BY Before
<1>2. t.inst = With(n.inst, id, i) /\ More(n, t)
  BY DEF Written
<1>3. ASSUME AwareOf(n), i.status >= PREACCEPTED
      PROVE  Knows(t, id, i.cmds)
  <2>1. CASE Knows(t, id, i.cmds)
    BY <2>1
  <2>2. CASE id \in DOMAIN n.inst /\ n.inst[id].status >= PREACCEPTED /\ n.inst[id].cmds = i.cmds
    <3>1. Knows(n, id, i.cmds)
      BY <1>3, <2>2 DEF AwareOf
    <3> QED
      BY <1>1, <1>2, <3>1, KnowsMore
  <2> QED
    BY <1>3, <2>1, <2>2
<1> HIDE DEF n
<1>4. Grows(n, t)
  BY <1>1, <1>2, <1>3, WithGrows
<1> QED
  BY <1>4 DEF n

\* handlePreAccept() forgets nothing.
LEMMA PreAcceptingGrows ==
  ASSUME Sound, NEW r \in Replicas, NEW c \in DOMAIN net, c.to = r, c.type = "PreAccept", NEW t, NodeTyped(t), NEW out,
         PreAccepting(r, t, c, Head(net[c]), out)
  PROVE  Grows(node[r], t)
<1> DEFINE m == Head(net[c])
           i == Inst(node[r], m.id)
<1>1. /\ m.id \in Ids
      /\ i.status # NONE => m.id \in DOMAIN node[r].inst
      /\ m.id \in DOMAIN node[r].inst => i = node[r].inst[m.id]
  BY Another DEF Outward
<1>2. PreAccepting(r, t, c, m, out)
  OBVIOUS
<1> HIDE DEF m
<1>3. CASE i.status >= ACCEPTED
  <2>1. Written(r, t, m.id, i)
    BY <1>2, <1>3 DEF PreAccepting
  <2> HIDE DEF i
  <2>2. m.id \in DOMAIN node[r].inst
    BY <1>1, <1>3 DEF ACCEPTED, NONE
  <2> QED
    BY <1>1, <2>1, <2>2, WrittenGrows
<1>4. CASE ~(i.status >= ACCEPTED)
  <2>1. PICK attr, status :
             /\ Written(r, t, m.id, NewInstance(m.cmds, m.ballot, status, attr.seq, attr.deps))
             /\ Knows(t, m.id, m.cmds)
    BY <1>2, <1>4 DEF PreAccepting
  <2> DEFINE j == NewInstance(m.cmds, m.ballot, status, attr.seq, attr.deps)
  <2>2. j.cmds = m.cmds
    BY DEF NewInstance
  <2> HIDE DEF j
  <2>3. Written(r, t, m.id, j)
    BY <2>1 DEF j
  <2> QED
    BY <1>1, <2>1, <2>2, <2>3, WrittenGrows
<1> QED
  BY <1>3, <1>4

\* handleAccept() forgets nothing.
LEMMA AcceptingGrows ==
  ASSUME Sound, NEW r \in Replicas, NEW c \in DOMAIN net, c.to = r, c.type = "Accept", NEW t, NodeTyped(t), NEW out,
         Accepting(r, t, c, Head(net[c]), out)
  PROVE  Grows(node[r], t)
<1> DEFINE m == Head(net[c])
           i == Inst(node[r], m.id)
           j == IF i.status >= COMMITTED THEN i ELSE NewInstance(i.cmds, m.ballot, i.status, m.seq, m.deps)
<1>1. /\ m.id \in Ids
      /\ i.status # NONE => m.id \in DOMAIN node[r].inst
      /\ m.id \in DOMAIN node[r].inst => i = node[r].inst[m.id]
  BY Another DEF Outward
<1>2. Written(r, t, m.id, j)
  BY DEF Accepting
<1> HIDE DEF m
<1>3. j.cmds = i.cmds /\ j.status = i.status
  BY DEF NewInstance
<1> HIDE DEF i, j
<1>4. j.status >= PREACCEPTED => m.id \in DOMAIN node[r].inst
  BY <1>1, <1>3 DEF PREACCEPTED, NONE
<1> QED
  BY <1>1, <1>2, <1>3, <1>4, WrittenGrows

\* handleCommit() forgets nothing.
LEMMA CommittingGrows ==
  ASSUME Sound, NEW r \in Replicas, NEW c \in DOMAIN net, c.to = r, c.type = "Commit", NEW t, NodeTyped(t), NEW out,
         Committing(r, t, Head(net[c]), out)
  PROVE  Grows(node[r], t)
<1> DEFINE m == Head(net[c])
           i == Inst(node[r], m.id)
<1>1. /\ m.id \in Ids
      /\ i.status # NONE => m.id \in DOMAIN node[r].inst
      /\ m.id \in DOMAIN node[r].inst => i = node[r].inst[m.id]
  BY Another DEF Outward
<1>2. Committing(r, t, m, out)
  OBVIOUS
<1> HIDE DEF m
<1>3. CASE i.status >= COMMITTED
  <2>1. Written(r, t, m.id, i)
    BY <1>2, <1>3 DEF Committing
  <2> HIDE DEF i
  <2>2. m.id \in DOMAIN node[r].inst
    BY <1>1, <1>3 DEF COMMITTED, NONE
  <2> QED
    BY <1>1, <2>1, <2>2, WrittenGrows
<1>4. CASE ~(i.status >= COMMITTED)
  <2> DEFINE j == NewInstance(m.cmds, m.ballot, COMMITTED, m.seq, m.deps)
  <2>1. Written(r, t, m.id, j) /\ Knows(t, m.id, m.cmds)
    BY <1>2, <1>4 DEF Committing
  <2>2. j.cmds = m.cmds
    BY DEF NewInstance
  <2> HIDE DEF j
  <2> QED
    BY <1>1, <2>1, <2>2, WrittenGrows
<1> QED
  BY <1>3, <1>4

\* A replica that does nothing forgets nothing.
LEMMA IdleGrows ==
  ASSUME Sound, NEW r \in Replicas, NEW t, NodeTyped(t), Idle(r, t)
  PROVE  Grows(node[r], t)
<1>1. InGroup /\ NodeTyped(node[r])
  BY Before
<1>2. t.inst = node[r].inst /\ t.last = node[r].last /\ t.lastWrite = node[r].lastWrite
  BY DEF Idle, Rest, Fields
<1> QED
  BY <1>1, <1>2, RestGrows

\* A leader that counts an answer forgets nothing.
LEMMA CountingGrows ==
  ASSUME Sound, NEW r \in Replicas, NEW t, NodeTyped(t), NEW a, NEW l, Counting(r, t, a, l)
  PROVE  Grows(node[r], t)
<1>1. InGroup /\ NodeTyped(node[r])
  BY Before
<1>2. t.inst = node[r].inst /\ t.last = node[r].last /\ t.lastWrite = node[r].lastWrite
  BY DEF Counting, Rest, Fields
<1> QED
  BY <1>1, <1>2, RestGrows

\* Executing forgets nothing.
LEMMA ExecutingGrows ==
  ASSUME Sound, NEW r \in Replicas, NEW t, NodeTyped(t), Executing(r, t)
  PROVE  Grows(node[r], t)
<1>1. InGroup /\ NodeTyped(node[r])
  BY Before
<1>2. t.last = node[r].last /\ t.lastWrite = node[r].lastWrite /\ DOMAIN t.inst = DOMAIN node[r].inst
  BY DEF Executing, Rest, Fields
<1>3. \A e \in DOMAIN node[r].inst :
        /\ t.inst[e].cmds = node[r].inst[e].cmds
        /\ t.inst[e].status >= PREACCEPTED => node[r].inst[e].status >= PREACCEPTED
  BY DEF Executing, Later, SameInstance, PREACCEPTED, COMMITTED
<1> QED
  BY <1>1, <1>2, <1>3, RestGrows

\* A leader that decides forgets nothing.
LEMMA TakingGrows ==
  ASSUME Sound, NEW r \in Replicas, NEW t, NodeTyped(t), NEW a, NEW l, NEW out, Taking(r, t, a, l, out),
         l.cmds = Own(a).cmds
  PROVE  Grows(node[r], t)
<1> DEFINE n == node[r]
<1>1. /\ InGroup /\ NodeTyped(n)
      /\ \A id \in DOMAIN n.lb : /\ id \in Ids /\ Row(id) = r /\ OwnerOf(n, id) /\ Led(id)
                                 /\ Own(id) = n.lb[id] /\ Own(id) \in Leaders
  BY Before
<1>2. /\ a \in DOMAIN n.lb /\ DOMAIN t.inst = DOMAIN n.inst /\ SameInstance(l, t.inst[a])
      /\ \A e \in DOMAIN n.inst \ {a} : Later(n.inst[e], t.inst[e])
  BY DEF Taking
<1>3. t.last = n.last /\ t.lastWrite = n.lastWrite
  BY DEF Taking, Rest, Fields
<1> HIDE DEF n
<1>4. OwnerAt(r, Own(a), n.inst[a]) /\ Own(a) \in Leaders
  BY <1>1, <1>2 DEF OwnerOf
<1>5. n.inst[a].cmds = Own(a).cmds
  BY <1>4 DEF OwnerAt
<1>6. n.inst[a].status >= PREACCEPTED
  <2>1. Own(a).status \in {PREACCEPTED, PREACCEPTED_EQ, ACCEPTED, COMMITTED}
    BY <1>4 DEF Leaders, PREACCEPTED, PREACCEPTED_EQ, ACCEPTED, COMMITTED
  <2>2. n.inst[a].status \in {PREACCEPTED, ACCEPTED} \/ n.inst[a].status >= COMMITTED
    BY <1>4, <2>1 DEF OwnerAt, IsPreAccepting
  <2>3. a \in DOMAIN n.inst
    BY <1>1, <1>2 DEF OwnerOf
  <2>4. n.inst[a] \in Instances
    BY <1>1, <2>3 DEF NodeTyped, FieldsTyped, IsMap
  <2>5. n.inst[a].status \in NONE .. EXECUTED
    BY <2>4 DEF Instances
  <2> QED
    BY <2>2, <2>5 DEF PREACCEPTED, ACCEPTED, COMMITTED, NONE, EXECUTED
<1>7. \A e \in DOMAIN n.inst :
        /\ t.inst[e].cmds = n.inst[e].cmds
        /\ t.inst[e].status >= PREACCEPTED => n.inst[e].status >= PREACCEPTED
  BY <1>2, <1>5, <1>6 DEF Later, SameInstance, PREACCEPTED, COMMITTED
<1>8. Grows(n, t)
  BY <1>1, <1>2, <1>3, <1>7, RestGrows
<1> QED
  BY <1>8 DEF n

\* Whatever a replica does, it forgets nothing.
LEMMA ActsGrow ==
  ASSUME Sound, NEW r, NEW t, NEW gone, NEW out, Goes(r, t, gone, out), Acts(r, t, gone, out)
  PROVE  Grows(node[r], t)
<1>1. r \in Replicas /\ NodeTyped(t)
  BY DEF Goes
<1>2. CASE Proposing(r, t, out)
  BY <1>1, <1>2, ProposingGrows
<1>3. CASE Executing(r, t) \/ Idle(r, t)
  BY <1>1, <1>3, ExecutingGrows, IdleGrows
<1>4. ASSUME NEW c \in DOMAIN net, c.to = r, Handled(r, t, c, Head(net[c]), out)
      PROVE  Grows(node[r], t)
  <2> DEFINE m == Head(net[c])
  <2>1. CASE c.type = "PreAcceptReply" /\ PreAcceptAnswered(r, t, m, out)
    <3>1. CASE Idle(r, t)
      BY <1>1, <3>1, IdleGrows
    <3>2. ASSUME NEW l, Tallied(r, Own(m.id), m, l), Counting(r, t, m.id, l) \/ Taking(r, t, m.id, l, out)
          PROVE  Grows(node[r], t)
      BY <1>1, <3>2, CountingGrows, TakingGrows DEF Tallied
    <3> QED
      BY <2>1, <3>1, <3>2 DEF PreAcceptAnswered
  <2>2. CASE c.type = "AcceptReply" /\ AcceptAnswered(r, t, m, out)
    <3>1. CASE Idle(r, t)
      BY <1>1, <3>1, IdleGrows
    <3>2. ASSUME NEW l, SameAttributes(l, Own(m.id)), Counting(r, t, m.id, l) \/ Taking(r, t, m.id, l, out)
          PROVE  Grows(node[r], t)
      BY <1>1, <3>2, CountingGrows, TakingGrows DEF SameAttributes
    <3> QED
      BY <2>2, <3>1, <3>2 DEF AcceptAnswered
  <2> QED
    BY <1>1, <1>4, <2>1, <2>2, PreAcceptingGrows, AcceptingGrows, CommittingGrows DEF Handled
<1> QED
  BY <1>2, <1>3, <1>4 DEF Acts

\* A step lets no replica forget a conflict, or an instance.
LEMMA StepGrows ==
  ASSUME Sound, NEW r, NEW t, NEW gone, NEW out, Goes(r, t, gone, out), Acts(r, t, gone, out)
  PROVE  /\ \A q \in Replicas : \A id : Has(q, id) => Has(q, id)'
         /\ \A q \in Replicas : \A id \in Ids : \A cmd : Knows(node[q], id, cmd) => Knows(node'[q], id, cmd)
         /\ Aware => Aware'
<1>1. /\ r \in Replicas /\ node'[r] = t /\ Replicas' = Replicas /\ NodeTyped(node[r]) /\ NodeTyped(t)
      /\ \A q \in Replicas \ {r} : node'[q] = node[q]
  BY NodeAfter
<1>2. Grows(node[r], t) /\ InGroup
  BY ActsGrow DEF Sound
<1>3. \A q \in Replicas : \A id : Has(q, id) => Has(q, id)'
  BY <1>1, <1>2 DEF Has, Grows
<1>4. \A q \in Replicas : \A id \in Ids : \A cmd : Knows(node[q], id, cmd) => Knows(node'[q], id, cmd)
  BY <1>1, <1>2, KnowsMore DEF Grows
<1>5. ASSUME Aware
      PROVE  Aware'
  <2>1. \A q \in Replicas : AwareOf(node'[q])
    BY <1>1, <1>2, <1>5 DEF Aware, Grows
  <2> QED
    BY <1>1, <2>1 DEF Aware, AwareOf, Knows
<1> QED
  BY <1>3, <1>4, <1>5

(***************************************************************************)
(* No message is sent twice.                                               *)
(***************************************************************************)
\* A message under way.
LEMMA Sending ==
  ASSUME Sound, NEW f \in Flying
  PROVE  /\ Led(f[2].id) /\ f[2].id \in Ids /\ MailAt(f[1].type, f[2], Own(f[2].id)) /\ Addressed(f[1], f[2])
         /\ f[1] \in Channels /\ f[1] = Channel(f[1].type, f[1].from, f[1].to)
         /\ f[1].type \in Outward => f[1].from = Row(f[2].id) /\ f[1].to # Row(f[2].id)
         /\ f[1].type \notin Outward => f[1].to = Row(f[2].id) /\ f[1].from # Row(f[2].id)
<1>1. MailOf(f[1], f[2])
  BY DEF Sound, Mail
<1>2. Addressed(f[1], f[2]) /\ f[1] \in Channels
  BY <1>1 DEF MailOf, Addressed, Letter
<1>3. f[1] = Channel(f[1].type, f[1].from, f[1].to)
  BY <1>2 DEF Channels, Channel
<1> QED
  BY <1>1, <1>2, <1>3 DEF MailOf, Addressed, Led

\* On a channel there is one message of an instance at a time.
LEMMA OnlyOne ==
  ASSUME Distinct, NEW f \in Flying, NEW g \in Flying, f[1] = g[1], f[2].id = g[2].id
  PROVE  f = g
<1>1. PICK c \in DOMAIN net : \E i \in 1 .. Len(net[c]) : f = <<c, net[c][i]>>
  BY DEF Flying, FlyingIn
<1>2. PICK i \in 1 .. Len(net[c]) : f = <<c, net[c][i]>>
  BY <1>1
<1>3. PICK d \in DOMAIN net : \E j \in 1 .. Len(net[d]) : g = <<d, net[d][j]>>
  BY DEF Flying, FlyingIn
<1>4. PICK j \in 1 .. Len(net[d]) : g = <<d, net[d][j]>>
  BY <1>3
<1>5. c = d /\ net[c][i].id = net[c][j].id
  BY <1>2, <1>4
<1>6. i = j
  BY <1>5 DEF Distinct, DistinctIn
<1> QED
  BY <1>2, <1>4, <1>5, <1>6

\* Messages that repeat none of those under way, nor answer them.
Fresh(out, gone) ==
  /\ \A o \in out, f \in Flying \ gone : f[1] = o[1] \/ Answering(o, f) \/ Answering(f, o) => f[2].id # o[2].id
  /\ \A o, p \in out : ~Answering(o, p)

\* Fresh messages keep what is under way distinct and single.
LEMMA FreshKeeps ==
  ASSUME Distinct, Single, NEW r, NEW t, NEW gone, NEW out, Goes(r, t, gone, out), Fresh(out, gone)
  PROVE  Distinct' /\ Single' /\ Flying' = (Flying \ gone) \cup out
<1>1. Flying' = (Flying \ gone) \cup out /\ Distinct'
  BY DEF Goes, Fresh
<1>2. ASSUME NEW f \in Flying', NEW g \in Flying', Answering(f, g)
      PROVE  f[2].id # g[2].id
  <2>1. CASE f \in out /\ g \in out
    BY <1>2, <2>1 DEF Fresh
  <2>2. CASE f \in out /\ g \in Flying \ gone
    BY <1>2, <2>2 DEF Fresh
  <2>3. CASE f \in Flying \ gone /\ g \in out
    BY <1>2, <2>3 DEF Fresh
  <2>4. CASE f \in Flying \ gone /\ g \in Flying \ gone
    BY <1>2, <2>4 DEF Single
  <2> QED
    BY <1>1, <2>1, <2>2, <2>3, <2>4
<1> QED
  BY <1>1, <1>2 DEF Single, Answering

\* The id of a proposal is new.
LEMMA NewId ==
  ASSUME Sound, NEW r \in Replicas
  PROVE  LET a == NextId(node[r], r)
         IN  Row(a) = r /\ ~Led(a) /\ a \notin DOMAIN node[r].lb /\ \A q \in Replicas : ~Has(q, a)
<1> DEFINE n == node[r]
           a == NextId(n, r)
<1>1. NodeTyped(n) /\ RowOf(r, n)
  BY Before
<1>2. Row(a) = r /\ a = <<r, n.crtInstance[r] + 1>>
  BY DEF NextId, Row
<1> HIDE DEF n, a
<1>3. n.crtInstance[r] \in Int
  BY <1>1 DEF NodeTyped, FieldsTyped, Dependencies
<1>4. a \notin DOMAIN n.lb
  BY <1>1, <1>2, <1>3 DEF RowOf
<1>5. ~Led(a)
  BY <1>2, <1>4 DEF Led, n
<1>6. \A q \in Replicas : ~Has(q, a)
  BY <1>5 DEF Has, Sound, Copies, CopyOf
<1> QED
  BY <1>2, <1>4, <1>5, <1>6 DEF n, a

\* A proposal's PreAccepts are fresh.
LEMMA ProposingFresh ==
  ASSUME Sound, NEW r \in Replicas, NEW t, NEW out, Proposing(r, t, out)
  PROVE  Fresh(out, {})
<1> DEFINE a == NextId(node[r], r)
<1>1. \A o \in out : o[1].type = "PreAccept" /\ o[2].id = a
  BY DEF Proposing, Asks
<1>2. ~Led(a)
  BY NewId
<1> HIDE DEF a
<1>3. \A f \in Flying : f[2].id # a
  BY <1>2, Sending
<1> QED
  BY <1>1, <1>3 DEF Fresh, Answering

\* An answer to what has been received.
LEMMA AnswerFresh ==
  ASSUME Sound, Distinct, Single, NEW c, NEW m, <<c, m>> \in Flying,
         NEW reply, <<c.type, reply>> \in {<<"PreAccept", "PreAcceptReply">>, <<"Accept", "AcceptReply">>},
         NEW b, b.id = m.id
  PROVE  Fresh({<<Channel(reply, c.to, c.from), b>>}, {<<c, m>>})
<1> DEFINE g == <<c, m>>
           o == <<Channel(reply, c.to, c.from), b>>
<1>1. /\ g \in Flying /\ g[1] = c /\ g[2].id = m.id /\ o[1].type = reply /\ o[1].from = c.to /\ o[2].id = m.id
      /\ o[1] = Channel(reply, c.to, c.from)
  BY DEF Channel
<1> HIDE DEF o, g
<1>2. c.type \in Outward /\ reply \notin Outward
  BY DEF Outward
<1>3. c.from = Row(m.id) /\ c = Channel(c.type, Row(m.id), c.to)
  BY <1>1, <1>2, Sending
<1>4. ASSUME NEW f \in Flying, f[1] = o[1] \/ Answering(o, f)
      PROVE  f[2].id # o[2].id
  <2>1. ~Answering(o, f)
    BY <1>1 DEF Answering
  <2>2. Answering(g, f)
    BY <1>1, <1>4, <2>1 DEF Answering
  <2> QED
    BY <1>1, <2>2 DEF Single
<1>5. ASSUME NEW f \in Flying \ {g}, Answering(f, o)
      PROVE  f[2].id # o[2].id
  <2> SUFFICES ASSUME f[2].id = m.id
               PROVE  FALSE
    BY <1>1
  <2>1. f[1].type = c.type /\ f[1].to = c.to
    BY <1>1, <1>5 DEF Answering
  <2>2. f[1] = Channel(c.type, Row(m.id), c.to)
    BY <1>2, <1>5, <2>1, Sending
  <2> QED
    BY <1>1, <1>3, <1>5, <2>2, OnlyOne
<1>6. ~Answering(o, o)
  BY <1>1 DEF Answering
<1>7. Fresh({o}, {g})
  BY <1>4, <1>5, <1>6 DEF Fresh
<1> QED
  BY <1>7 DEF o, g

\* What is asked has not been answered.
LEMMA Unanswered ==
  ASSUME Single, NEW f \in Flying, f[1].type = "PreAccept"
  PROVE  RepliesTo(f[1].to, f[2].id) = {}
<1> SUFFICES ASSUME NEW g \in RepliesTo(f[1].to, f[2].id)
             PROVE  FALSE
  OBVIOUS
<1>1. g \in Flying /\ g[1] = Channel("PreAcceptReply", f[1].to, Row(f[2].id)) /\ g[2].id = f[2].id
  BY DEF RepliesTo
<1>2. Answering(f, g)
  BY <1>1 DEF Answering, Channel
<1> QED
  BY <1>1, <1>2 DEF Single

\* A decision is announced once.
LEMMA SettlesFresh ==
  ASSUME Sound, NEW r, NEW a, NEW l, NEW out, Settles(r, a, l, out), Own(a).status # COMMITTED,
         l.status # COMMITTED => IsPreAccepting(Own(a)), NEW gone
  PROVE  Fresh(out, gone)
<1>1. \A o \in out : o[1].type = (IF l.status = COMMITTED THEN "Commit" ELSE "Accept") /\ o[2].id = a
  BY DEF Settles
<1>2. \A f \in Flying : f[2].id = a =>
        /\ f[1].type # "Commit"
        /\ l.status # COMMITTED => f[1].type \notin {"Accept", "AcceptReply"}
  BY Sending DEF MailAt
<1> QED
  BY <1>1, <1>2 DEF Fresh, Answering

(***************************************************************************)
(* What a step changes of the opinions about the instances.                *)
(***************************************************************************)
Similar(a, b) ==
  /\ b.cmds = a.cmds /\ b.deps = a.deps /\ b.ballot = a.ballot /\ (IsPreAccepting(b) <=> IsPreAccepting(a))
  /\ IsPreAccepting(a) => b.preAcceptOKs = a.preAcceptOKs

Kept(id) == Led(id)' /\ Similar(Own(id), Own(id)')
HeardAt(q, id) == Open(id) => (Has(q, id)' <=> Has(q, id)) /\ RepliesTo(q, id)' = RepliesTo(q, id)

\* Nothing changes but an instance, and what a replica says of it.
Others(a, q) ==
  /\ \A id : Led(id)' => Led(id) \/ id = a
  /\ \A id : Led(id) /\ id # a => Kept(id)
  /\ \A p \in Replicas : \A id : Led(id) /\ (id # a \/ p # q) => HeardAt(p, id)

Stays ==
  /\ \A id : Led(id)' => Led(id)
  /\ \A id : Led(id) => Kept(id)
  /\ \A p \in Replicas : \A id : Led(id) => HeardAt(p, id)

\* An instance is proposed.
Proposes(a) ==
  /\ Others(a, Row(a)) /\ ~Led(a) /\ Led(a)' /\ Row(a) \in Replicas
  /\ IsPreAccepting(Own(a)') /\ Own(a)'.preAcceptOKs = 0
  /\ \A q \in Replicas : (Has(q, a)' => q = Row(a)) /\ RepliesTo(q, a)' = {}
  /\ \A b : Led(b) /\ Knows(node[Row(a)], b, Own(b).cmds) /\ Interfere(Own(a)'.cmds, Own(b).cmds)
              => Own(a)'.deps[Row(b)] >= Number(b)

\* Replica q answers a PreAccept.
Joins(a, q) ==
  /\ Others(a, q) /\ Open(a) /\ q \in Replicas \ {Row(a)} /\ Kept(a)
  /\ ~Has(q, a) /\ RepliesTo(q, a) = {} /\ RepliesTo(q, a)' # {}
  /\ \A f \in RepliesTo(q, a)' : \A b :
       Led(b) /\ Row(b) # Row(a) /\ Knows(node[q], b, Own(b).cmds) /\ Interfere(Own(a).cmds, Own(b).cmds)
         => f[2].deps[Row(b)] >= Number(b)

\* The answer of replica q is counted.
Tallies(a, q) ==
  /\ Others(a, q) /\ Open(a) /\ q \in Replicas \ {Row(a)} /\ Led(a)'
  /\ Has(q, a) /\ Has(q, a)' /\ RepliesTo(q, a) # {} /\ RepliesTo(q, a)' = {}
  /\ Own(a)'.cmds = Own(a).cmds /\ Own(a)'.ballot # -1 /\ Own(a)'.preAcceptOKs = Own(a).preAcceptOKs + 1
  /\ ~IsPreAccepting(Own(a)') => Own(a)'.preAcceptOKs >= FastQuorumSize - 1
  /\ Own(a).deps \in Dependencies /\ Own(a)'.deps \in Dependencies
  /\ \A f \in RepliesTo(q, a) : f[2].deps \in Dependencies
  /\ \A p \in Replicas \ {Row(a)} :
       /\ Own(a).deps[p] <= Own(a)'.deps[p]
       /\ \A f \in RepliesTo(q, a) : f[2].deps[p] <= Own(a)'.deps[p]

----------------------------------------------------------------------------
\* An owner is similar to itself.
LEMMA SimilarSelf == ASSUME NEW a PROVE Similar(a, a)
BY DEF Similar

\* The bookkeeping stays.
LEMMA LbSame ==
  ASSUME Sound, NEW r, NEW t, NEW gone, NEW out, Goes(r, t, gone, out), t.lb = node[r].lb
  PROVE  \A id : (Led(id)' <=> Led(id)) /\ (Led(id) => Kept(id))
<1> SUFFICES ASSUME NEW id
             PROVE  (Led(id)' <=> Led(id)) /\ (Led(id) => Kept(id))
  OBVIOUS
<1>1. (Led(id)' <=> LedThen(r, t, id)) /\ (id \in Ids => Own(id)' = OwnThen(r, t, id))
  BY OwnAfter
<1>2. Led(id)' <=> Led(id)
  BY <1>1 DEF LedThen, Led
<1>3. Led(id) => Own(id)' = Own(id)
  BY <1>1 DEF OwnThen, Own, Led
<1> QED
  BY <1>2, <1>3, SimilarSelf DEF Kept

\* The bookkeeping of one instance is replaced.
LEMMA LbWith ==
  ASSUME Sound, NEW r, NEW t, NEW gone, NEW out, Goes(r, t, gone, out), NEW a \in Ids, Row(a) = r, NEW l,
         t.lb = With(node[r].lb, a, l)
  PROVE  /\ \A id : Led(id)' <=> Led(id) \/ id = a
         /\ \A id : Led(id) /\ id # a => Kept(id)
         /\ Own(a)' = l
<1>1. DOMAIN t.lb = DOMAIN node[r].lb \cup {a} /\ t.lb[a] = l /\ \A id \in DOMAIN node[r].lb \ {a} : t.lb[id] = node[r].lb[id]
  BY DEF With
<1>2. ASSUME NEW id
      PROVE  (Led(id)' <=> Led(id) \/ id = a) /\ (Led(id) /\ id # a => Own(id)' = Own(id))
  <2>1. (Led(id)' <=> LedThen(r, t, id)) /\ (id \in Ids => Own(id)' = OwnThen(r, t, id))
    BY OwnAfter
  <2>2. Led(id)' <=> Led(id) \/ id = a
    BY <1>1, <2>1 DEF LedThen, Led
  <2>3. Led(id) /\ id # a => Own(id)' = Own(id)
    BY <1>1, <2>1 DEF OwnThen, Own, Led
  <2> QED
    BY <2>2, <2>3
<1>3. Own(a)' = l
  <2>1. Own(a)' = OwnThen(r, t, a)
    BY OwnAfter
  <2> QED
    BY <1>1, <2>1 DEF OwnThen
<1>4. ASSUME NEW id, Led(id), id # a
      PROVE  Kept(id)
  BY <1>2, <1>4, SimilarSelf DEF Kept
<1> QED
  BY <1>2, <1>3, <1>4

\* What is said of an instance stays.
LEMMA Heard ==
  ASSUME Sound, Distinct, NEW r, NEW t, NEW gone, NEW out, Goes(r, t, gone, out), NEW p \in Replicas, NEW id,
         p = r => (id \in DOMAIN t.inst <=> id \in DOMAIN node[r].inst),
         RepliesTo(p, id) \cap gone = {}, RepliesIn(out, p, id) = {}
  PROVE  HeardAt(p, id)
<1>1. RepliesTo(p, id)' = RepliesTo(p, id)
  BY RepliesAfter
<1>2. Has(p, id)' <=> Has(p, id)
  BY NodeAfter DEF Has
<1> QED
  BY <1>1, <1>2 DEF HeardAt

\* Messages that are not replies, or about an instance that is not open.
LEMMA NotHeard ==
  ASSUME Sound, Distinct, NEW r, NEW t, NEW gone, NEW out, Goes(r, t, gone, out), NEW a,
         \A id : id # a => (id \in DOMAIN t.inst <=> id \in DOMAIN node[r].inst),
         \A g \in gone : g[1].type # "PreAcceptReply" \/ g[2].id = a,
         \A o \in out : o[1].type # "PreAcceptReply" \/ o[2].id = a
  PROVE  \A p \in Replicas : \A id : id # a => HeardAt(p, id)
<1> SUFFICES ASSUME NEW p \in Replicas, NEW id, id # a
             PROVE  HeardAt(p, id)
  OBVIOUS
<1>1. Channel("PreAcceptReply", p, Row(id)).type = "PreAcceptReply"
  BY DEF Channel
<1>2. RepliesTo(p, id) \cap gone = {}
  BY <1>1 DEF RepliesTo
<1>3. RepliesIn(out, p, id) = {}
  BY <1>1 DEF RepliesIn
<1> QED
  BY <1>2, <1>3, Heard

\* A step that leaves the bookkeeping of the open instances as it is, and their replies.
LEMMA StaysIs ==
  ASSUME Sound, Distinct, NEW r, NEW t, NEW gone, NEW out, Goes(r, t, gone, out), NEW a, ~Open(a),
         \A id : Led(id)' => Led(id), \A id : Led(id) => Kept(id),
         \A id : id # a => (id \in DOMAIN t.inst <=> id \in DOMAIN node[r].inst),
         \A g \in gone : g[1].type # "PreAcceptReply" \/ g[2].id = a,
         \A o \in out : o[1].type # "PreAcceptReply" \/ o[2].id = a
  PROVE  Stays
<1>1. \A p \in Replicas : \A id : id # a => HeardAt(p, id)
  BY NotHeard
<1>2. \A p \in Replicas : HeardAt(p, a)
  BY DEF HeardAt
<1> QED
  BY <1>1, <1>2 DEF Stays

\* There is an instance that is not open.
LEMMA SomeClosed ==
  ASSUME Sound, NEW r \in Replicas
  PROVE  \E a : ~Open(a)
BY NewId DEF Open

\* A replica that does nothing leaves the open instances as they are,
LEMMA IdleKind ==
  ASSUME Sound, Distinct, NEW r, NEW t, NEW gone, Goes(r, t, gone, {}), Idle(r, t), NEW a, ~Open(a),
         \A g \in gone : g[1].type # "PreAcceptReply" \/ g[2].id = a
  PROVE  Stays
<1>1. t.lb = node[r].lb /\ t.inst = node[r].inst
  BY DEF Idle, Rest, Fields
<1>2. \A id : (Led(id)' <=> Led(id)) /\ (Led(id) => Kept(id))
  BY <1>1, LbSame
<1> QED
  BY <1>1, <1>2, StaysIs

\* and so does one that executes.
LEMMA ExecutingKind ==
  ASSUME Sound, Distinct, NEW r, NEW t, Goes(r, t, {}, {}), Executing(r, t)
  PROVE  Stays
<1>1. t.lb = node[r].lb /\ DOMAIN t.inst = DOMAIN node[r].inst
  BY DEF Executing, Rest, Fields
<1>2. \A id : (Led(id)' <=> Led(id)) /\ (Led(id) => Kept(id))
  BY <1>1, LbSame
<1>3. PICK a : ~Open(a)
  BY SomeClosed DEF Goes
<1> QED
  BY <1>1, <1>2, <1>3, StaysIs

\* A record of an instance that is not open is written.
LEMMA WrittenKind ==
  ASSUME Sound, Distinct, NEW r, NEW t, NEW gone, NEW out, Goes(r, t, gone, out), NEW a, ~Open(a), NEW i, Written(r, t, a, i),
         \A g \in gone : g[1].type # "PreAcceptReply" \/ g[2].id = a,
         \A o \in out : o[1].type # "PreAcceptReply" \/ o[2].id = a
  PROVE  Stays
<1>1. t.lb = node[r].lb /\ t.inst = With(node[r].inst, a, i)
  BY DEF Written, Rest, Fields
<1>2. \A id : (Led(id)' <=> Led(id)) /\ (Led(id) => Kept(id))
  BY <1>1, LbSame
<1>3. \A id : id # a => (id \in DOMAIN t.inst <=> id \in DOMAIN node[r].inst)
  BY <1>1 DEF With
<1> QED
  BY <1>2, <1>3, StaysIs

\* The bookkeeping of an instance that is not open is replaced.
LEMMA SettledKind ==
  ASSUME Sound, Distinct, NEW r, NEW t, NEW gone, NEW out, Goes(r, t, gone, out), NEW a \in Ids, Row(a) = r, Led(a), ~Open(a),
         NEW l, t.lb = With(node[r].lb, a, l), Similar(Own(a), l), DOMAIN t.inst = DOMAIN node[r].inst,
         \A g \in gone : g[1].type # "PreAcceptReply" \/ g[2].id = a,
         \A o \in out : o[1].type # "PreAcceptReply" \/ o[2].id = a
  PROVE  Stays
<1>1. /\ \A id : Led(id)' <=> Led(id) \/ id = a
      /\ \A id : Led(id) /\ id # a => Kept(id)
      /\ Own(a)' = l
  BY LbWith
<1>2. Kept(a)
  BY <1>1 DEF Kept
<1>3. \A id : Led(id)' => Led(id)
  BY <1>1
<1>4. \A id : Led(id) => Kept(id)
  BY <1>1, <1>2
<1> QED
  BY <1>3, <1>4, StaysIs

\* A command is proposed.
LEMMA ProposingKind ==
  ASSUME Sound, Distinct, Aware, NEW r, NEW t, NEW out, Goes(r, t, {}, out), Proposing(r, t, out),
         NEW a, a = NextId(node[r], r)
  PROVE  /\ Proposes(a)
         /\ \A o \in out : AskingOf(o)' /\ ReplyingOf(o)'
<1> DEFINE n == node[r]
<1>0. PICK cmd : cmd = Head(n.todo)
  OBVIOUS
<1>1. r \in Replicas /\ InGroup /\ NodeTyped(n)
  BY Before DEF Goes
<1>2. Row(a) = r /\ ~Led(a) /\ a \notin DOMAIN n.lb /\ \A q \in Replicas : ~Has(q, a)
  BY <1>1, NewId
<1>3. a \in Ids /\ cmd \in Commands
  BY <1>0 DEF Proposing
<1>4. PICK attr : /\ t.inst = With(n.inst, a, FirstInstance(r, a, cmd, attr))
                  /\ t.lb = With(n.lb, a, FirstLb(r, cmd, attr))
                  /\ attr.seq \in Int /\ attr.deps \in Dependencies
                  /\ \A q \in Replicas : Conflicts(n, cmd)[q] <= attr.deps[q]
                  /\ Asks(r, a, cmd, attr.deps, out)
  BY <1>0 DEF Proposing
<1> DEFINE l == FirstLb(r, cmd, attr)
<1>5. l.cmds = cmd /\ IsPreAccepting(l) /\ l.preAcceptOKs = 0 /\ l.deps = attr.deps
  BY DEF FirstLb, NewLeaderBookkeeping, IsPreAccepting
<1> HIDE DEF n, l
<1>6. /\ \A id : Led(id)' <=> Led(id) \/ id = a
      /\ \A id : Led(id) /\ id # a => Kept(id)
      /\ Own(a)' = l
  BY <1>2, <1>3, <1>4, LbWith DEF n, l
<1>7. \A o \in out : o[1].type = "PreAccept" /\ o[1].to # r /\ o[2].id = a /\ o[2].deps = attr.deps
  BY <1>4 DEF Asks
<1>8. \A id : id # a => (id \in DOMAIN t.inst <=> id \in DOMAIN n.inst)
  BY <1>4 DEF With
<1>9. \A p \in Replicas : \A id : id # a => HeardAt(p, id)
  BY <1>7, <1>8, NotHeard DEF n
<1>10. ASSUME NEW q \in Replicas
       PROVE  (Has(q, a)' => q = Row(a)) /\ RepliesTo(q, a)' = {}
  <2>1. Has(q, a)' => q = r
    <3>1. q # r => node'[q] = node[q]
      BY NodeAfter
    <3> QED
      BY <1>2, <3>1 DEF Has
  <2>2. RepliesTo(q, a) = {}
    BY <1>2, Sending DEF RepliesTo
  <2>3. RepliesIn(out, q, a) = {}
    BY <1>7 DEF RepliesIn, Channel
  <2> QED
    BY <1>2, <2>1, <2>2, <2>3, RepliesAfter
<1>11. ASSUME NEW b, Led(b), Knows(n, b, Own(b).cmds), Interfere(cmd, Own(b).cmds)
       PROVE  attr.deps[Row(b)] >= Number(b)
  <2>1. b \in Ids /\ Own(b) \in Leaders
    BY <1>11, OwnIs
  <2>2. Own(b).cmds \in Commands
    BY <2>1 DEF Leaders
  <2>3. Number(b) <= Conflicts(n, cmd)[Row(b)]
    BY <1>1, <1>3, <1>11, <2>1, <2>2, KnownConflicts
  <2>4. Row(b) \in Replicas /\ Number(b) \in Nat
    BY <2>1, IdIs
  <2>5. Conflicts(n, cmd) \in Dependencies
    BY <1>1, <1>3, ConflictsIs
  <2> DEFINE d == Conflicts(n, cmd)
  <2> HIDE DEF d
  <2>6. d[Row(b)] \in Int /\ attr.deps[Row(b)] \in Int
    BY <1>4, <2>4, <2>5 DEF Dependencies, d
  <2>7. d[Row(b)] <= attr.deps[Row(b)] /\ Number(b) <= d[Row(b)]
    BY <1>4, <2>3, <2>4 DEF d
  <2> QED
    BY <2>4, <2>6, <2>7
<1>12. Others(a, Row(a))
  BY <1>2, <1>6, <1>9 DEF Others
<1>13. /\ IsPreAccepting(Own(a)') /\ Own(a)'.preAcceptOKs = 0 /\ Led(a)' /\ Own(a)'.cmds = cmd /\ Own(a)'.deps = attr.deps
  BY <1>5, <1>6
<1>14. Proposes(a)
  <2>1. \A b : Led(b) /\ Knows(node[Row(a)], b, Own(b).cmds) /\ Interfere(Own(a)'.cmds, Own(b).cmds)
              => Own(a)'.deps[Row(b)] >= Number(b)
    BY <1>2, <1>11, <1>13 DEF n
  <2> QED
    BY <1>1, <1>2, <1>10, <1>12, <1>13, <2>1 DEF Proposes
<1>15. ASSUME NEW o \in out
       PROVE  AskingOf(o)' /\ ReplyingOf(o)'
  <2>1. o[1].to \in Replicas
    BY <1>4, <1>15 DEF Asks, Channels
  <2>2. ~Has(o[1].to, a)'
    BY <1>2, <1>7, <1>10, <2>1
  <2>3. \A q \in Replicas : Own(a)'.deps[q] <= o[2].deps[q]
    BY <1>4, <1>7, <1>13, <1>15 DEF Dependencies
  <2>4. Replicas' = Replicas
    BY NodeAfter
  <2>5. AskingOf(o)'
    BY <1>7, <2>2, <2>3, <2>4 DEF AskingOf, Covers
  <2> QED
    BY <1>7, <2>5 DEF ReplyingOf
<1> QED
  BY <1>14, <1>15

\* A replica answers a PreAccept of an open instance.
LEMMA JoinsKind ==
  ASSUME Sound, Distinct, Single, Aware, Asking, NEW r, NEW t, NEW c \in DOMAIN net, c.to = r, c.type = "PreAccept",
         NEW m, m = Head(net[c]), NEW out, Goes(r, t, {<<c, m>>}, out), PreAccepting(r, t, c, m, out), Open(m.id)
  PROVE  /\ Joins(m.id, r)
         /\ \A o \in out : AskingOf(o)' /\ ReplyingOf(o)'
<1> DEFINE n == node[r]
           i == Inst(n, m.id)
           o == <<Channel("PreAcceptReply", r, c.from), PreAcceptReply(t, m.id)>>
<1>1. PICK a : a = m.id
  OBVIOUS
<1>2. r \in Replicas /\ InGroup /\ NodeTyped(n) /\ NodeTyped(t)
  BY Before DEF Goes
<1>3. /\ <<c, m>> \in Flying /\ a \in Ids /\ Row(a) # r /\ Led(a) /\ c.from = Row(a)
      /\ MailAt(c.type, m, Own(a)) /\ Letter(c, m) /\ Own(a) \in Leaders
      /\ i.status \in NONE .. EXECUTED /\ i.status # ACCEPTED
      /\ i.status # NONE => a \in DOMAIN n.inst
      /\ a \in DOMAIN n.inst => i = n.inst[a] /\ CopyAt(i, Own(a))
  BY <1>1, <1>2, Another DEF Outward
<1>4. Open(a) /\ IsPreAccepting(Own(a))
  BY <1>1 DEF Open
<1>5. ~Has(r, a) /\ Covers(m)
  <2> DEFINE f == <<c, m>>
  <2>1. f \in Flying /\ f[1].type = "PreAccept" /\ f[2].id = a /\ f[1].to = r /\ f[2] = m
    BY <1>1, <1>3
  <2> HIDE DEF f
  <2>2. AskingOf(f)
    BY <2>1 DEF Asking
  <2> QED
    BY <1>4, <2>1, <2>2 DEF AskingOf
<1>6. RepliesTo(r, a) = {}
  <2> DEFINE f == <<c, m>>
  <2>1. f \in Flying /\ f[1].type = "PreAccept" /\ f[2].id = a /\ f[1].to = r
    BY <1>1, <1>3
  <2> HIDE DEF f
  <2> QED
    BY <2>1, Unanswered
<1>7. a \notin DOMAIN n.inst /\ i.status = NONE
  BY <1>3, <1>5 DEF Has
<1>8. m.cmds = Own(a).cmds /\ m.cmds \in Commands /\ m.deps \in Dependencies
  BY <1>3 DEF MailAt, Letter, Proposals
<1>9. PICK attr, status :
           /\ Extends(n, r, m.cmds, m.deps, a, attr)
           /\ Written(r, t, a, NewInstance(m.cmds, m.ballot, status, attr.seq, attr.deps))
  <2>1. ~(i.status >= ACCEPTED)
    BY <1>7 DEF NONE, ACCEPTED
  <2> QED
    BY <1>1, <2>1 DEF PreAccepting
<1> DEFINE j == NewInstance(m.cmds, m.ballot, status, attr.seq, attr.deps)
<1>10. j.deps = attr.deps
  BY DEF NewInstance
<1>11. out = {o}
  BY DEF PreAccepting
<1> HIDE DEF i, j, o
<1>12. t.inst = With(n.inst, a, j) /\ t.lb = n.lb
  BY <1>9 DEF Written, Rest, Fields, j
<1>13. t.inst[a] = j /\ a \in DOMAIN t.inst /\ \A id : id # a => (id \in DOMAIN t.inst <=> id \in DOMAIN n.inst)
  BY <1>12 DEF With
<1>14. o[1] = Channel("PreAcceptReply", r, Row(a)) /\ o[2].id = a /\ o[2].deps = attr.deps
  BY <1>1, <1>3, <1>10, <1>13 DEF PreAcceptReply, o
<1> HIDE DEF n
<1>15. \A id : (Led(id)' <=> Led(id)) /\ (Led(id) => Kept(id))
  BY <1>12, LbSame DEF n
<1>16. \A p \in Replicas : \A id : id # a => HeardAt(p, id)
  <2>1. \A g \in {<<c, m>>} : g[1].type # "PreAcceptReply" \/ g[2].id = a
    OBVIOUS
  <2>2. \A x \in out : x[1].type # "PreAcceptReply" \/ x[2].id = a
    BY <1>11, <1>14
  <2> QED
    BY <1>13, <2>1, <2>2, NotHeard DEF n
<1>17. ASSUME NEW p \in Replicas \ {r}
       PROVE  HeardAt(p, a)
  <2>1. RepliesTo(p, a) \cap {<<c, m>>} = {}
    BY DEF RepliesTo, Channel
  <2>2. RepliesIn(out, p, a) = {}
    BY <1>11, <1>14 DEF RepliesIn, Channel
  <2> QED
    BY <2>1, <2>2, Heard
<1>18. Others(a, r)
  BY <1>15, <1>16, <1>17 DEF Others
<1>19. RepliesTo(r, a)' = {o}
  <2>1. RepliesIn(out, r, a) = {o}
    BY <1>11, <1>14 DEF RepliesIn
  <2> QED
    BY <1>6, <2>1, RepliesAfter
<1>20. /\ attr.deps \in Dependencies
       /\ \A q \in Replicas : m.deps[q] <= attr.deps[q]
       /\ \A q \in Replicas : q # Row(a) => Conflicts(n, m.cmds)[q] <= attr.deps[q]
  BY <1>9 DEF Extends
<1>21. ASSUME NEW b, Led(b), Row(b) # Row(a), Knows(n, b, Own(b).cmds), Interfere(Own(a).cmds, Own(b).cmds)
       PROVE  o[2].deps[Row(b)] >= Number(b)
  <2>1. b \in Ids /\ Own(b) \in Leaders
    BY <1>21, OwnIs
  <2>2. Own(b).cmds \in Commands
    BY <2>1 DEF Leaders
  <2>3. Number(b) <= Conflicts(n, m.cmds)[Row(b)]
    BY <1>2, <1>8, <1>21, <2>1, <2>2, KnownConflicts DEF n
  <2>4. Row(b) \in Replicas /\ Number(b) \in Nat
    BY <2>1, IdIs
  <2>5. Conflicts(n, m.cmds) \in Dependencies
    BY <1>2, <1>8, ConflictsIs DEF n
  <2> DEFINE d == Conflicts(n, m.cmds)
  <2> HIDE DEF d
  <2>6. d[Row(b)] \in Int /\ attr.deps[Row(b)] \in Int
    BY <1>20, <2>4, <2>5 DEF Dependencies, d
  <2>7. d[Row(b)] <= attr.deps[Row(b)] /\ Number(b) <= d[Row(b)]
    BY <1>20, <1>21, <2>3, <2>4 DEF d
  <2> QED
    BY <1>14, <2>4, <2>6, <2>7
<1>22. Joins(a, r)
  <2>1. Kept(a)
    BY <1>3, <1>15
  <2>2. \A f \in RepliesTo(r, a)' : \A b :
          Led(b) /\ Row(b) # Row(a) /\ Knows(node[r], b, Own(b).cmds) /\ Interfere(Own(a).cmds, Own(b).cmds)
            => f[2].deps[Row(b)] >= Number(b)
    BY <1>19, <1>21 DEF n
  <2> QED
    BY <1>2, <1>3, <1>4, <1>5, <1>6, <1>18, <1>19, <2>1, <2>2 DEF Joins
<1>23. ReplyingOf(o)'
  <2>1. Has(r, a)'
    <3>1. node'[r] = t
      BY NodeAfter
    <3> QED
      BY <1>13, <3>1 DEF Has
  <2>2. Own(a)'.ballot = Own(a).ballot /\ Own(a)'.deps = Own(a).deps
    BY <1>3, <1>15 DEF Kept, Similar
  <2>3. Own(a).deps \in Dependencies
    BY <1>3 DEF Leaders
  <2>4. Own(a).ballot = -1 => \A q \in Replicas : Own(a).deps[q] <= m.deps[q]
    BY <1>1, <1>5 DEF Covers
  <2>5. Own(a).ballot = -1 => \A q \in Replicas : Own(a).deps[q] <= attr.deps[q]
    <3> DEFINE d == Own(a).deps
    <3> HIDE DEF d
    <3>1. \A q \in Replicas : d[q] \in Int /\ m.deps[q] \in Int /\ attr.deps[q] \in Int
      BY <1>8, <1>20, <2>3 DEF Dependencies, d
    <3>2. Own(a).ballot = -1 => \A q \in Replicas : d[q] <= m.deps[q]
      BY <2>4 DEF d
    <3>3. ASSUME Own(a).ballot = -1, NEW q \in Replicas
          PROVE  d[q] <= attr.deps[q]
      <4>1. d[q] <= m.deps[q] /\ m.deps[q] <= attr.deps[q] /\ d[q] \in Int /\ m.deps[q] \in Int /\ attr.deps[q] \in Int
        BY <1>20, <3>1, <3>2, <3>3
      <4> QED
        BY <4>1
    <3> QED
      BY <3>3 DEF d
  <2>6. Replicas' = Replicas
    BY NodeAfter
  <2>7. Covers(o[2])'
    BY <1>14, <2>2, <2>5, <2>6 DEF Covers
  <2>8. o[1].from = r
    BY <1>14 DEF Channel
  <2> QED
    BY <1>14, <2>1, <2>7, <2>8 DEF ReplyingOf
<1>24. AskingOf(o)'
  BY <1>14 DEF AskingOf, Channel
<1> QED
  BY <1>1, <1>11, <1>22, <1>23, <1>24

\* No message is no stale one.
LEMMA NothingFresh == ASSUME NEW gone PROVE Fresh({}, gone)
BY DEF Fresh

\* A leader that decides settles its instance.
LEMMA TakingSettles ==
  ASSUME Sound, NEW r \in Replicas, NEW t, NEW a, NEW l, NEW out, Taking(r, t, a, l, out), l.lastTriedBallot = r
  PROVE  Settles(r, a, l, out)
<1>1. InGroup /\ \A id \in DOMAIN node[r].lb : id \in Ids
  BY Before
<1>2. /\ a \in DOMAIN node[r].lb /\ l \in Leaders /\ l.ballot = r /\ t.lb = With(node[r].lb, a, l)
      /\ \E dead \in SUBSET crashed : out = Out(t, r, a, l, dead)
  BY DEF Taking
<1>3. PICK dead \in SUBSET crashed : out = Out(t, r, a, l, dead)
  BY <1>2
<1>4. t.lb[a] = l
  BY <1>2 DEF With
<1> QED
  BY <1>1, <1>2, <1>3, <1>4, OutIs

\* The announcement of a decision is no PreAccept, and no reply.
LEMMA SettlesSilent ==
  ASSUME NEW r, NEW a, NEW l, NEW out, Settles(r, a, l, out)
  PROVE  \A o \in out : o[1].type \in {"Accept", "Commit"}
BY DEF Settles

\* Messages that neither ask for an opinion nor give one say nothing of it.
LEMMA SilentMail ==
  ASSUME NEW o, o[1].type \notin {"PreAccept", "PreAcceptReply"}
  PROVE  AskingOf(o)' /\ ReplyingOf(o)'
BY DEF AskingOf, ReplyingOf

\* The owner of an open instance counts a reply.
LEMMA TalliesKind ==
  ASSUME Sound, Distinct, Replying, NEW r, NEW t, NEW c \in DOMAIN net, c.to = r, c.type = "PreAcceptReply",
         NEW m, m = Head(net[c]), NEW out, Goes(r, t, {<<c, m>>}, out), PreAcceptAnswered(r, t, m, out), Open(m.id)
  PROVE  /\ Tallies(m.id, c.from) /\ Fresh(out, {<<c, m>>})
         /\ \A o \in out : AskingOf(o)' /\ ReplyingOf(o)'
<1> DEFINE f == <<c, m>>
<1>1. PICK a : a = m.id
  OBVIOUS
<1>2. PICK q : q = c.from
  OBVIOUS
<1>3. r \in Replicas
  BY DEF Goes
<1>4. f \in Flying /\ f[1] = c /\ f[2] = m
  BY Received
<1>5. /\ Led(a) /\ a \in Ids /\ MailAt(c.type, m, Own(a)) /\ Addressed(c, m) /\ c \in Channels
      /\ c = Channel("PreAcceptReply", q, r) /\ Row(a) = r /\ q # r /\ q \in Replicas
  <2> HIDE DEF f
  <2> QED
    BY <1>1, <1>2, <1>4, Sending DEF Outward, Channels
<1>6. Open(a) /\ IsPreAccepting(Own(a)) /\ Own(a) \in Leaders /\ Own(a).lastTriedBallot = r
  <2>1. Own(a) \in Leaders /\ OwnerAt(Row(a), Own(a), node[Row(a)].inst[a])
    BY <1>5, OwnIs
  <2> QED
    BY <1>1, <1>5, <2>1 DEF Open, OwnerAt
<1>7. IsReply(m, r)
  BY <1>1, <1>5, <1>6 DEF MailAt
<1>8. Has(q, a) /\ Covers(m)
  <2> HIDE DEF f
  <2>1. ReplyingOf(f)
    BY <1>4 DEF Replying
  <2> QED
    BY <1>1, <1>2, <1>4, <1>6, <2>1 DEF ReplyingOf
<1>9. PICK l : /\ Tallied(r, Own(a), m, l)
               /\ \/ IsPreAccepting(l) /\ Counting(r, t, a, l) /\ out = {}
                  \/ Taking(r, t, a, l, out)
  BY <1>1, <1>6 DEF PreAcceptAnswered
<1> HIDE DEF f
<1>10. t.lb = With(node[r].lb, a, l) /\ DOMAIN t.inst = DOMAIN node[r].inst
  BY <1>9 DEF Counting, Taking, Rest, Fields
<1>11. Fresh(out, {f}) /\ \A o \in out : o[1].type \in {"Accept", "Commit"}
  <2>1. CASE out = {}
    BY <2>1, NothingFresh
  <2>2. CASE Taking(r, t, a, l, out)
    <3>1. l.lastTriedBallot = r
      BY <1>6, <1>9 DEF Tallied
    <3>2. Settles(r, a, l, out)
      BY <1>3, <2>2, <3>1, TakingSettles
    <3>3. Own(a).status # COMMITTED
      BY <1>6 DEF IsPreAccepting, COMMITTED, PREACCEPTED, PREACCEPTED_EQ
    <3>4. Fresh(out, {f})
      BY <1>6, <3>2, <3>3, SettlesFresh
    <3> QED
      BY <3>2, <3>4, SettlesSilent
  <2> QED
    BY <1>9, <2>1, <2>2
<1>12. /\ \A id : Led(id)' <=> Led(id) \/ id = a
       /\ \A id : Led(id) /\ id # a => Kept(id)
       /\ Own(a)' = l
  BY <1>5, <1>10, LbWith
<1>13. \A p \in Replicas : \A id : id # a => HeardAt(p, id)
  <2>1. \A g \in {f} : g[1].type # "PreAcceptReply" \/ g[2].id = a
    BY <1>1, <1>4
  <2>2. \A o \in out : o[1].type # "PreAcceptReply" \/ o[2].id = a
    BY <1>11
  <2> QED
    BY <1>10, <2>1, <2>2, NotHeard DEF f
<1>14. \A p \in Replicas : RepliesIn(out, p, a) = {}
  BY <1>11 DEF RepliesIn, Channel
<1>15. ASSUME NEW p \in Replicas \ {q}
       PROVE  HeardAt(p, a)
  <2>1. RepliesTo(p, a) \cap {f} = {}
    BY <1>2, <1>4 DEF RepliesTo, Channel
  <2> QED
    BY <1>10, <1>14, <2>1, Heard DEF f
<1>16. Others(a, q)
  BY <1>12, <1>13, <1>15 DEF Others
<1>17. RepliesTo(q, a) = {f}
  <2>1. f \in RepliesTo(q, a)
    BY <1>1, <1>4, <1>5 DEF RepliesTo
  <2>2. \A g \in RepliesTo(q, a) : g \in Flying /\ g[1] = f[1] /\ g[2].id = f[2].id
    BY <1>1, <1>4, <1>5 DEF RepliesTo
  <2> QED
    BY <1>4, <2>1, <2>2, OnlyOne
<1>18. RepliesTo(q, a)' = {}
  <2>1. RepliesTo(q, a)' = (RepliesTo(q, a) \ {f}) \cup RepliesIn(out, q, a)
    BY RepliesAfter DEF f
  <2> QED
    BY <1>5, <1>14, <1>17, <2>1
<1>19. Has(q, a)'
  <2>1. node'[q] = IF q = r THEN t ELSE node[q]
    BY <1>5, NodeAfter
  <2> QED
    BY <1>5, <1>8, <2>1 DEF Has
<1>20. ASSUME NEW p \in Replicas \ {r}
       PROVE  Own(a).deps[p] <= l.deps[p] /\ m.deps[p] <= l.deps[p]
  <2> DEFINE x == Own(a).deps[p]
             y == m.deps[p]
             z == l.deps[p]
  <2>1. x \in Int /\ y \in Int /\ z \in Int
    <3>1. Own(a).deps \in Dependencies /\ m.deps \in Dependencies /\ l.deps \in Dependencies
      BY <1>6, <1>7, <1>9 DEF Tallied, Leaders, IsReply
    <3> QED
      BY <3>1 DEF Dependencies
  <2>2. y <= z /\ (Own(a).ballot # -1 => x <= z)
    BY <1>9 DEF Tallied
  <2>3. Own(a).ballot = -1 => x <= y
    BY <1>1, <1>8 DEF Covers
  <2> HIDE DEF x, y, z
  <2>4. x <= z /\ y <= z
    BY <2>1, <2>2, <2>3
  <2> QED
    BY <2>4 DEF x, y, z
<1>21. /\ l.cmds = Own(a).cmds /\ l.ballot # -1 /\ l.preAcceptOKs = Own(a).preAcceptOKs + 1
       /\ ~IsPreAccepting(l) => l.preAcceptOKs >= FastQuorumSize - 1
  <2>1. r # -1
    BY <1>3, GroupIs DEF Sound
  <2> QED
    BY <1>9, <2>1 DEF Tallied, IsDecided
<1>22. Tallies(a, q)
  <2>0. Own(a).deps \in Dependencies /\ m.deps \in Dependencies /\ l.deps \in Dependencies
    BY <1>6, <1>7, <1>9 DEF Tallied, Leaders, IsReply
  <2>1. \A p \in Replicas \ {Row(a)} :
          /\ Own(a).deps[p] <= l.deps[p]
          /\ \A g \in RepliesTo(q, a) : g[2].deps[p] <= l.deps[p]
    BY <1>4, <1>5, <1>17, <1>20
  <2> QED
    BY <1>4, <1>5, <1>6, <1>8, <1>12, <1>16, <1>17, <1>18, <1>19, <1>21, <2>0, <2>1 DEF Tallies
<1>23. \A o \in out : AskingOf(o)' /\ ReplyingOf(o)'
  BY <1>11, SilentMail
<1> QED
  BY <1>1, <1>2, <1>11, <1>22, <1>23 DEF f

\* What a step is for the opinions about the instances, and for the messages that it sends.
Orderly(out, gone) == Fresh(out, gone) /\ \A o \in out : AskingOf(o)' /\ ReplyingOf(o)'

\* A message about an instance that is not open.
LEMMA ClosedStays ==
  ASSUME Stays, NEW a, Led(a), ~Open(a)
  PROVE  ~Open(a)'
<1>1. Similar(Own(a), Own(a)') /\ ~IsPreAccepting(Own(a))
  BY DEF Stays, Kept, Open
<1> QED
  BY <1>1 DEF Similar, Open

\* They are in order when they are fresh.
LEMMA SilentOrderly ==
  ASSUME NEW out, NEW gone, Fresh(out, gone), \A o \in out : o[1].type \notin {"PreAccept", "PreAcceptReply"}
  PROVE  Orderly(out, gone)
BY SilentMail DEF Orderly

\* A message about an instance that is decided changes no open one.
LEMMA IdleMailKind ==
  ASSUME Sound, Distinct, NEW r, NEW t, NEW c \in DOMAIN net, NEW m, m = Head(net[c]),
         Goes(r, t, {<<c, m>>}, {}), Idle(r, t), ~Open(m.id)
  PROVE  Stays /\ Orderly({}, {<<c, m>>})
<1>1. PICK a : a = m.id
  OBVIOUS
<1>2. Stays
  BY <1>1, IdleKind
<1> QED
  BY <1>2, NothingFresh, SilentOrderly

\* An AcceptReply is not about an open instance.
LEMMA AcceptAnsweredKind ==
  ASSUME Sound, Distinct, NEW r, NEW t, NEW c \in DOMAIN net, c.to = r, c.type = "AcceptReply",
         NEW m, m = Head(net[c]), NEW out, Goes(r, t, {<<c, m>>}, out), AcceptAnswered(r, t, m, out)
  PROVE  Stays /\ Orderly(out, {<<c, m>>})
<1> DEFINE f == <<c, m>>
<1>1. PICK a : a = m.id
  OBVIOUS
<1>2. r \in Replicas
  BY DEF Goes
<1>3. f \in Flying /\ f[1] = c /\ f[2] = m
  BY Received
<1> HIDE DEF f
<1>4. Led(a) /\ a \in Ids /\ MailAt(c.type, m, Own(a)) /\ Row(a) = r
  BY <1>1, <1>3, Sending DEF Outward
<1>5. ~IsPreAccepting(Own(a)) /\ ~Open(a)
  BY <1>4 DEF MailAt, Open
<1>6. CASE Idle(r, t) /\ out = {}
  BY <1>1, <1>5, <1>6, IdleMailKind
<1>7. CASE Own(a).status = ACCEPTED /\ \E l : /\ SameAttributes(l, Own(a))
                                             /\ \/ l.status = ACCEPTED /\ Counting(r, t, a, l) /\ out = {}
                                                \/ l.status = COMMITTED /\ Taking(r, t, a, l, out)
  <2>1. PICK l : /\ SameAttributes(l, Own(a))
                 /\ \/ l.status = ACCEPTED /\ Counting(r, t, a, l) /\ out = {}
                    \/ l.status = COMMITTED /\ Taking(r, t, a, l, out)
    BY <1>7
  <2>2. ~IsPreAccepting(l)
    BY <2>1 DEF IsPreAccepting, ACCEPTED, COMMITTED, PREACCEPTED, PREACCEPTED_EQ
  <2>3. Similar(Own(a), l)
    BY <1>5, <2>1, <2>2 DEF Similar, SameAttributes
  <2>4. t.lb = With(node[r].lb, a, l) /\ DOMAIN t.inst = DOMAIN node[r].inst
    BY <2>1 DEF Counting, Taking, Rest, Fields
  <2>5. Fresh(out, {f}) /\ \A o \in out : o[1].type \in {"Accept", "Commit"}
    <3>1. CASE out = {}
      BY <3>1, NothingFresh
    <3>2. CASE l.status = COMMITTED /\ Taking(r, t, a, l, out)
      <4>1. l.lastTriedBallot = r
        <5>1. OwnerAt(Row(a), Own(a), node[Row(a)].inst[a])
          BY <1>4, OwnIs
        <5> QED
          BY <1>4, <2>1, <5>1 DEF OwnerAt, SameAttributes
      <4>2. Settles(r, a, l, out)
        BY <1>2, <3>2, <4>1, TakingSettles
      <4>3. Own(a).status # COMMITTED
        BY <1>7 DEF ACCEPTED, COMMITTED
      <4>4. Fresh(out, {f})
        BY <3>2, <4>2, <4>3, SettlesFresh
      <4> QED
        BY <4>2, <4>4, SettlesSilent
    <3> QED
      BY <2>1, <3>1, <3>2
  <2>6. Stays
    <3>1. \A g \in {f} : g[1].type # "PreAcceptReply" \/ g[2].id = a
      BY <1>1, <1>3
    <3>2. \A o \in out : o[1].type # "PreAcceptReply" \/ o[2].id = a
      BY <2>5
    <3>3. Goes(r, t, {f}, out)
      BY DEF f
    <3> QED
      BY <1>4, <1>5, <2>3, <2>4, <3>1, <3>2, <3>3, SettledKind
  <2>7. Orderly(out, {f})
    BY <2>5, SilentOrderly
  <2> QED
    BY <2>6, <2>7 DEF f
<1> QED
  BY <1>1, <1>6, <1>7 DEF AcceptAnswered

\* Nor is a Commit.
LEMMA CommittingKind ==
  ASSUME Sound, Distinct, NEW r, NEW t, NEW c \in DOMAIN net, c.to = r, c.type = "Commit",
         NEW m, m = Head(net[c]), NEW out, Goes(r, t, {<<c, m>>}, out), Committing(r, t, m, out)
  PROVE  Stays /\ Orderly(out, {<<c, m>>})
<1> DEFINE f == <<c, m>>
<1>1. PICK a : a = m.id
  OBVIOUS
<1>2. f \in Flying /\ f[1] = c /\ f[2] = m
  BY Received
<1> HIDE DEF f
<1>3. Led(a) /\ MailAt(c.type, m, Own(a))
  BY <1>1, <1>2, Sending
<1>4. ~Open(a)
  BY <1>3 DEF MailAt, Open, IsPreAccepting, COMMITTED, PREACCEPTED, PREACCEPTED_EQ
<1>5. out = {} /\ \E i : Written(r, t, a, i)
  BY <1>1 DEF Committing
<1>6. PICK i : Written(r, t, a, i)
  BY <1>5
<1>7. \A g \in {f} : g[1].type # "PreAcceptReply" \/ g[2].id = a
  BY <1>1, <1>2
<1>8. Goes(r, t, {f}, out)
  BY DEF f
<1>9. Stays
  BY <1>4, <1>5, <1>6, <1>7, <1>8, WrittenKind
<1>10. Orderly(out, {f})
  BY <1>5, NothingFresh, SilentOrderly
<1> QED
  BY <1>9, <1>10 DEF f

\* Nor is an Accept.
LEMMA AcceptingKind ==
  ASSUME Sound, Distinct, Single, NEW r, NEW t, NEW c \in DOMAIN net, c.to = r, c.type = "Accept",
         NEW m, m = Head(net[c]), NEW out, Goes(r, t, {<<c, m>>}, out), Accepting(r, t, c, m, out)
  PROVE  Stays /\ Orderly(out, {<<c, m>>})
<1> DEFINE f == <<c, m>>
           b == AcceptReply(t, m.id)
           o == <<Channel("AcceptReply", r, c.from), b>>
<1>1. PICK a : a = m.id
  OBVIOUS
<1>2. f \in Flying /\ f[1] = c /\ f[2] = m
  BY Received
<1>3. out = {o} /\ b.id = m.id /\ o[1].type = "AcceptReply"
  BY DEF Accepting, AcceptReply, Channel
<1>4. Fresh({o}, {f})
  <2> HIDE DEF b
  <2> QED
    BY <1>2, <1>3, AnswerFresh
<1>5. PICK i : Written(r, t, a, i)
  BY <1>1 DEF Accepting
<1> HIDE DEF f, b, o
<1>6. Led(a) /\ MailAt(c.type, m, Own(a))
  BY <1>1, <1>2, Sending
<1>7. ~Open(a)
  BY <1>6 DEF MailAt, Open
<1>8. \A g \in {f} : g[1].type # "PreAcceptReply" \/ g[2].id = a
  BY <1>1, <1>2
<1>9. Goes(r, t, {f}, out)
  BY DEF f
<1>10. \A x \in out : x[1].type # "PreAcceptReply" \/ x[2].id = a
  BY <1>3
<1>11. Stays
  BY <1>5, <1>7, <1>8, <1>9, <1>10, WrittenKind
<1>12. Orderly(out, {f})
  BY <1>3, <1>4, SilentOrderly
<1> QED
  BY <1>11, <1>12 DEF f

\* A replica is asked for the attributes of an instance that has been decided.
LEMMA TooLateKind ==
  ASSUME Sound, Distinct, Single, NEW r, NEW t, NEW c \in DOMAIN net, c.to = r, c.type = "PreAccept",
         NEW m, m = Head(net[c]), NEW out, Goes(r, t, {<<c, m>>}, out), PreAccepting(r, t, c, m, out), ~Open(m.id)
  PROVE  Stays /\ Orderly(out, {<<c, m>>})
<1> DEFINE f == <<c, m>>
           b == PreAcceptReply(t, m.id)
           o == <<Channel("PreAcceptReply", r, c.from), b>>
<1>1. PICK a : a = m.id
  OBVIOUS
<1>2. f \in Flying /\ f[1] = c /\ f[2] = m /\ f[1].to = r
  BY Received
<1>3. out = {o} /\ b.id = m.id /\ o[1].type = "PreAcceptReply" /\ o[1].from = r /\ o[2].id = m.id
  BY DEF PreAccepting, PreAcceptReply, Channel
<1>4. Fresh({o}, {f})
  <2> HIDE DEF b
  <2> QED
    BY <1>2, <1>3, AnswerFresh
<1>5. PICK i : Written(r, t, a, i)
  BY <1>1 DEF PreAccepting
<1> HIDE DEF f, b, o
<1>6. Led(a)
  BY <1>1, <1>2, Sending
<1>7. \A g \in {f} : g[1].type # "PreAcceptReply" \/ g[2].id = a
  BY <1>1, <1>2
<1>8. Goes(r, t, {f}, out)
  BY DEF f
<1>9. \A x \in out : x[1].type # "PreAcceptReply" \/ x[2].id = a
  BY <1>1, <1>3
<1>10. Stays
  BY <1>1, <1>5, <1>7, <1>8, <1>9, WrittenKind
<1>11. ~Open(a)'
  BY <1>1, <1>6, <1>10, ClosedStays
<1>12. Has(r, a)'
  <2>1. node'[r] = t /\ a \in DOMAIN t.inst
    BY <1>5, NodeAfter DEF Written, With
  <2> QED
    BY <2>1 DEF Has
<1>13. PICK p : p = o
  OBVIOUS
<1>14. AskingOf(p)' /\ ReplyingOf(p)'
  BY <1>1, <1>3, <1>11, <1>12, <1>13 DEF AskingOf, ReplyingOf
<1>15. out = {p}
  BY <1>3, <1>13
<1>16. Orderly(out, {f})
  BY <1>3, <1>4, <1>14, <1>15 DEF Orderly
<1> QED
  BY <1>10, <1>16 DEF f

\* A step is of instance a, and of what replica q says of it.
View(a, q) ==
  /\ Others(a, q)
  /\ Stays \/ (Proposes(a) /\ q = Row(a)) \/ Joins(a, q) \/ Tallies(a, q)

\* A step in which nothing moves, as seen from an instance and a replica.
LEMMA StaysView ==
  ASSUME Stays
  PROVE  \E a, q : View(a, q)
<1>1. \A a, q : Others(a, q)
  BY DEF Stays, Others
<1> QED
  BY <1>1 DEF View

\* Every handler of a message moves one opinion on one instance at most.
LEMMA HandledKind ==
  ASSUME Sound, Tidy, NEW r, NEW t, NEW c \in DOMAIN net, c.to = r, NEW m, m = Head(net[c]),
         NEW out, Goes(r, t, {<<c, m>>}, out), Handled(r, t, c, m, out)
  PROVE  Orderly(out, {<<c, m>>}) /\ \E a, q : View(a, q)
<1> DEFINE f == <<c, m>>
<1>1. Distinct /\ Aware /\ Asking /\ Replying /\ Single
  BY DEF Tidy
<1>2. CASE c.type = "PreAccept" /\ PreAccepting(r, t, c, m, out) /\ Open(m.id)
  <2>1. Joins(m.id, r) /\ \A o \in out : AskingOf(o)' /\ ReplyingOf(o)'
    BY <1>1, <1>2, JoinsKind
  <2>2. Fresh(out, {f})
    <3> DEFINE b == PreAcceptReply(t, m.id)
               o == <<Channel("PreAcceptReply", r, c.from), b>>
    <3>1. out = {o} /\ b.id = m.id /\ f \in Flying
      BY <1>2, Received DEF PreAccepting, PreAcceptReply
    <3>2. Fresh({o}, {f})
      <4> HIDE DEF b
      <4> QED
        BY <1>1, <1>2, <3>1, AnswerFresh
    <3> QED
      BY <3>1, <3>2
  <2>3. View(m.id, r)
    BY <2>1 DEF View, Joins
  <2> QED
    BY <2>1, <2>2, <2>3 DEF Orderly
<1>3. CASE c.type = "PreAccept" /\ PreAccepting(r, t, c, m, out) /\ ~Open(m.id)
  BY <1>1, <1>3, TooLateKind, StaysView
<1>4. CASE c.type = "PreAcceptReply" /\ PreAcceptAnswered(r, t, m, out) /\ Open(m.id)
  <2>1. Tallies(m.id, c.from) /\ Fresh(out, {f}) /\ \A o \in out : AskingOf(o)' /\ ReplyingOf(o)'
    BY <1>1, <1>4, TalliesKind
  <2>2. View(m.id, c.from)
    BY <2>1 DEF View, Tallies
  <2> QED
    BY <2>1, <2>2 DEF Orderly
<1>5. CASE c.type = "PreAcceptReply" /\ PreAcceptAnswered(r, t, m, out) /\ ~Open(m.id)
  <2>1. Idle(r, t) /\ out = {}
    BY <1>5 DEF PreAcceptAnswered
  <2> QED
    BY <1>1, <1>5, <2>1, IdleMailKind, StaysView
<1>6. CASE c.type = "Accept" /\ Accepting(r, t, c, m, out)
  BY <1>1, <1>6, AcceptingKind, StaysView
<1>7. CASE c.type = "AcceptReply" /\ AcceptAnswered(r, t, m, out)
  BY <1>1, <1>7, AcceptAnsweredKind, StaysView
<1>8. CASE c.type = "Commit" /\ Committing(r, t, m, out)
  BY <1>1, <1>8, CommittingKind, StaysView
<1> QED
  BY <1>2, <1>3, <1>4, <1>5, <1>6, <1>7, <1>8 DEF Handled

\* Every step is of one kind.
LEMMA ActsKind ==
  ASSUME Sound, Tidy, NEW r, NEW t, NEW gone, NEW out, Goes(r, t, gone, out), Acts(r, t, gone, out)
  PROVE  Orderly(out, gone) /\ \E a, q : View(a, q)
<1>1. Distinct /\ Aware /\ r \in Replicas
  BY DEF Tidy, Goes
<1>2. CASE gone = {} /\ Proposing(r, t, out)
  <2>1. PICK a : a = NextId(node[r], r)
    OBVIOUS
  <2>2. Proposes(a) /\ \A o \in out : AskingOf(o)' /\ ReplyingOf(o)'
    BY <1>1, <1>2, <2>1, ProposingKind
  <2>3. Fresh(out, gone)
    BY <1>1, <1>2, ProposingFresh
  <2>4. View(a, Row(a))
    BY <2>2 DEF View, Proposes
  <2> QED
    BY <2>2, <2>3, <2>4 DEF Orderly
<1>3. CASE gone = {} /\ out = {} /\ (Executing(r, t) \/ Idle(r, t))
  <2>1. PICK a : ~Open(a)
    BY <1>1, SomeClosed
  <2>2. Stays
    BY <1>1, <1>3, <2>1, ExecutingKind, IdleKind
  <2> QED
    BY <1>3, <2>2, NothingFresh, StaysView DEF Orderly
<1>4. ASSUME NEW c \in DOMAIN net, c.to = r, gone = {<<c, Head(net[c])>>}, Handled(r, t, c, Head(net[c]), out)
      PROVE  Orderly(out, gone) /\ \E a, q : View(a, q)
  <2>1. PICK m : m = Head(net[c])
    OBVIOUS
  <2> QED
    BY <1>4, <2>1, HandledKind
<1> QED
  BY <1>2, <1>3, <1>4 DEF Acts

\* An open instance was open before, or is a step's own; its bookkeeping is kept, or has a ballot.
LEMMA ViewOpen ==
  ASSUME NEW a, NEW q, View(a, q), NEW id, Led(id)
  PROVE  /\ Led(id)' /\ (Open(id)' => Open(id)) /\ Own(id)'.cmds = Own(id).cmds
         /\ Kept(id) \/ Own(id)'.ballot # -1
<1>1. CASE Kept(id)
  BY <1>1 DEF Kept, Similar, Open
<1>2. CASE ~Kept(id)
  <2>1. id = a
    BY <1>2 DEF View, Others
  <2>2. Tallies(a, q)
    BY <1>2, <2>1 DEF View, Stays, Proposes, Joins
  <2> QED
    BY <1>2, <2>1, <2>2 DEF Tallies, Open
<1> QED
  BY <1>1, <1>2

\* An answer that names the conflicts of its sender names them afterwards.
LEMMA CoversAfter ==
  ASSUME Sound, NEW a, NEW q, View(a, q), group' = group, NEW m, Led(m.id), Covers(m)
  PROVE  Covers(m)'
<1>1. Replicas' = Replicas
  BY SameGroup
<1>2. PICK id : id = m.id
  OBVIOUS
<1>3. Kept(id) \/ Own(id)'.ballot # -1
  BY <1>2, ViewOpen
<1>4. Own(id)'.ballot = -1 => Own(id).ballot = -1 /\ Own(id)'.deps = Own(id).deps
  BY <1>3 DEF Kept, Similar
<1> QED
  BY <1>1, <1>2, <1>4 DEF Covers

\* Every such step leaves the messages tidy.
LEMMA TidySteps ==
  ASSUME Sound, Tidy, NEW r, NEW t, NEW gone, NEW out, Goes(r, t, gone, out), Acts(r, t, gone, out),
         Orderly(out, gone), NEW a, NEW q, View(a, q)
  PROVE  Tidy'
<1>1. Distinct /\ Aware /\ Asking /\ Replying /\ Single
  BY DEF Tidy
<1>2. Distinct' /\ Single' /\ Flying' = (Flying \ gone) \cup out
  BY <1>1, FreshKeeps DEF Orderly
<1>3. (\A p \in Replicas : \A id : Has(p, id) => Has(p, id)') /\ Aware'
  BY <1>1, StepGrows
<1>4. group' = group
  BY DEF Goes
<1>5. ASSUME NEW f \in Flying \ gone
      PROVE  AskingOf(f)' /\ ReplyingOf(f)'
  <2>1. PICK m : m = f[2]
    OBVIOUS
  <2>2. PICK id : id = f[2].id
    OBVIOUS
  <2>3. /\ Led(id) /\ f[1] \in Channels /\ f[1].to \in Replicas /\ f[1].from \in Replicas /\ m.id = id
    <3>1. Led(id) /\ f[1] \in Channels
      BY <2>2, Sending
    <3> QED
      BY <2>1, <2>2, <3>1 DEF Channels
  <2>4. (Open(id)' => Open(id)) /\ (Covers(m) => Covers(m)')
    BY <1>4, <2>3, ViewOpen, CoversAfter
  <2>5. ReplyingOf(f)'
    <3>1. ReplyingOf(f)
      BY <1>1 DEF Replying
    <3> QED
      BY <1>3, <2>1, <2>2, <2>3, <2>4, <3>1 DEF ReplyingOf
  <2>6. ASSUME f[1].type = "PreAccept", Open(id)'
        PROVE  ~Has(f[1].to, id)' /\ Covers(m)'
    <3>1. PICK p : p = f[1].to
      OBVIOUS
    <3>2. ~Has(p, id) /\ Covers(m) /\ Open(id)
      BY <1>1, <2>1, <2>2, <2>4, <2>6, <3>1 DEF Asking, AskingOf
    <3>3. RepliesTo(p, id)' = {}
      <4> SUFFICES ASSUME NEW g \in RepliesTo(p, id)'
                   PROVE  FALSE
        OBVIOUS
      <4>1. g \in Flying' /\ g[1] = Channel("PreAcceptReply", p, Row(id)) /\ g[2].id = id
        BY DEF RepliesTo
      <4>2. Answering(f, g)
        BY <2>6, <3>1, <4>1 DEF Answering, Channel
      <4>3. \A x, y \in Flying' : Answering(x, y) => x[2].id # y[2].id
        BY <1>2 DEF Single, Answering
      <4> QED
        BY <1>2, <2>2, <4>1, <4>2, <4>3
    <3>4. HeardAt(p, id)
      <4>1. CASE id # a \/ p # q \/ Stays
        BY <2>3, <3>1, <4>1 DEF View, Others, Stays
      <4>2. CASE id = a /\ p = q /\ ~Stays
        BY <2>3, <3>1, <3>2, <3>3, <4>2 DEF View, Proposes, Joins, Tallies
      <4> QED
        BY <4>1, <4>2
    <3> QED
      BY <2>4, <3>1, <3>2, <3>4 DEF HeardAt
  <2> QED
    BY <2>1, <2>2, <2>5, <2>6 DEF AskingOf
<1>6. \A f \in Flying' : AskingOf(f)' /\ ReplyingOf(f)'
  BY <1>2, <1>5 DEF Orderly
<1> QED
  BY <1>2, <1>3, <1>6 DEF Tidy, Asking, Replying

(***************************************************************************)
(* The opinions after a step.                                              *)
(***************************************************************************)
Moved(a, q) ==
  /\ View(a, q) /\ group' = group /\ q \in Replicas
  /\ \A p \in Replicas : \A id : Has(p, id) => Has(p, id)'
  /\ \A p \in Replicas : \A id \in Ids : \A cmd : Knows(node[p], id, cmd) => Knows(node'[p], id, cmd)

\* Two commands conflict whichever is looked at first.
LEMMA Interfering == \A c, d : Interfere(c, d) <=> Interfere(d, c)
BY DEF Interfere

\* What a replica knows of an open instance that it has.
LEMMA KnowsOpen ==
  ASSUME Sound, Aware, NEW q \in Replicas, NEW id, Has(q, id), Open(id)
  PROVE  Knows(node[q], id, Own(id).cmds)
<1> DEFINE i == node[q].inst[id]
<1>1. id \in DOMAIN node[q].inst /\ Led(id) /\ IsPreAccepting(Own(id))
  BY DEF Has, Open
<1>2. i \in Instances /\ (Row(id) # q => CopyAt(i, Own(id)))
  BY <1>1, Before
<1>3. Row(id) = q => OwnerAt(q, Own(id), i)
  BY <1>1, OwnIs
<1>4. i.status >= PREACCEPTED => Knows(node[q], id, i.cmds)
  BY <1>1 DEF Aware, AwareOf
<1> HIDE DEF i
<1>5. i.status \in NONE .. EXECUTED
  BY <1>2 DEF Instances
<1>6. i.status >= PREACCEPTED /\ i.cmds = Own(id).cmds
  <2>1. CASE Row(id) = q
    BY <1>1, <1>3, <2>1 DEF OwnerAt, PREACCEPTED
  <2>2. CASE Row(id) # q
    BY <1>1, <1>2, <1>5, <2>2 DEF CopyAt, PREACCEPTED, NONE, EXECUTED
  <2> QED
    BY <2>1, <2>2
<1> QED
  BY <1>4, <1>6

\* What is said of an instance is still said, unless a replica joins.
LEMMA SaysAfter ==
  ASSUME Sound, NEW a, NEW q, Moved(a, q), NEW p \in Replicas, NEW x, Open(x), NEW y, Led(y), Row(x) # Row(y),
         Has(p, x), Says(p, x, y)
  PROVE  Says(p, x, y)'
<1>1. Led(x)
  BY DEF Open
<1>2. Row(y) \in Replicas /\ Number(y) \in Nat
  BY IdIs DEF Led
<1>3. CASE HeardAt(p, x) /\ Kept(x)
  <2>1. RepliesTo(p, x)' = RepliesTo(p, x) /\ Own(x)'.deps = Own(x).deps
    BY <1>3 DEF HeardAt, Kept, Similar
  <2> QED
    BY <2>1 DEF Says, DependsOn
<1>4. CASE Tallies(a, q) /\ x = a
  <2>1. /\ Own(a).deps[Row(y)] \in Int /\ Own(a)'.deps[Row(y)] \in Int /\ Own(a).deps[Row(y)] <= Own(a)'.deps[Row(y)]
        /\ \A f \in RepliesTo(q, a) : f[2].deps[Row(y)] \in Int /\ f[2].deps[Row(y)] <= Own(a)'.deps[Row(y)]
    BY <1>2, <1>4 DEF Tallies, Dependencies
  <2>2. CASE p = q
    <3>1. PICK f : f \in RepliesTo(q, a)
      BY <1>4 DEF Tallies
    <3>2. f[2].deps[Row(y)] >= Number(y)
      BY <1>4, <2>2, <3>1 DEF Says
    <3>3. Own(a)'.deps[Row(y)] >= Number(y)
      BY <1>2, <2>1, <3>1, <3>2
    <3>4. RepliesTo(q, a)' = {}
      BY <1>4 DEF Tallies
    <3> QED
      BY <1>4, <2>2, <3>3, <3>4 DEF Says, DependsOn
  <2>3. CASE p # q
    <3>1. RepliesTo(p, a)' = RepliesTo(p, a)
      BY <1>1, <1>4, <2>3 DEF Moved, View, Others, HeardAt
    <3>2. DependsOn(a, y) => Own(a)'.deps[Row(y)] >= Number(y)
      BY <1>2, <2>1 DEF DependsOn
    <3> QED
      BY <1>4, <3>1, <3>2 DEF Says, DependsOn
  <2> QED
    BY <2>2, <2>3
<1>5. HeardAt(p, x) \/ (Tallies(a, q) /\ x = a)
  <2>1. x = a => Stays \/ Joins(a, q) \/ Tallies(a, q)
    BY <1>1 DEF Moved, View, Proposes
  <2>2. x = a /\ p = q => ~Joins(a, q)
    BY DEF Joins
  <2>3. Stays \/ x # a \/ p # q => HeardAt(p, x)
    BY <1>1 DEF Moved, View, Others, Stays
  <2> QED
    BY <2>1, <2>2, <2>3
<1>6. Kept(x) \/ (Tallies(a, q) /\ x = a)
  <2>1. x = a => Stays \/ Joins(a, q) \/ Tallies(a, q)
    BY <1>1 DEF Moved, View, Proposes
  <2>2. Stays \/ x # a => Kept(x)
    BY <1>1 DEF Moved, View, Others, Stays
  <2>3. x = a /\ Joins(a, q) => Kept(x)
    BY DEF Joins
  <2> QED
    BY <2>1, <2>2, <2>3
<1> QED
  BY <1>3, <1>4, <1>5, <1>6

\* A replica that has an instance from now on says that it depends on what it knows.
LEMMA NewSays ==
  ASSUME Sound, NEW a, NEW q, Moved(a, q), NEW p \in Replicas, NEW x, Open(x)', Has(p, x)', Led(x) => ~Has(p, x),
         NEW y, Led(y), Row(x) # Row(y), Knows(node[p], y, Own(y).cmds), Interfere(Own(x)'.cmds, Own(y).cmds)
  PROVE  Says(p, x, y)'
<1>1. Led(x)'
  BY DEF Open
<1>2. CASE Led(x)
  <2>1. ~HeardAt(p, x) /\ Open(x)
    <3>1. Open(x)
      BY <1>2, ViewOpen DEF Moved
    <3> QED
      BY <1>2, <3>1 DEF HeardAt
  <2>2. x = a /\ p = q /\ ~Stays
    BY <1>2, <2>1 DEF Moved, View, Others, Stays
  <2>3. Joins(a, q)
    BY <1>2, <2>2 DEF Moved, View, Proposes, Tallies
  <2>4. Own(x)'.cmds = Own(x).cmds
    BY <1>2, ViewOpen DEF Moved
  <2> QED
    BY <2>2, <2>3, <2>4 DEF Joins, Says
<1>3. CASE ~Led(x)
  <2>1. x = a /\ ~Stays
    BY <1>1, <1>3 DEF Moved, View, Others, Stays
  <2>2. Proposes(a)
    BY <1>3, <2>1 DEF Moved, View, Joins, Tallies, Open
  <2>3. p = Row(a) /\ RepliesTo(p, a)' = {}
    BY <2>1, <2>2 DEF Proposes
  <2>4. Own(a)'.deps[Row(y)] >= Number(y)
    BY <2>1, <2>2, <2>3 DEF Proposes
  <2> QED
    BY <2>1, <2>3, <2>4 DEF Says, DependsOn
<1> QED
  BY <1>2, <1>3

\* An instance that a replica has after a step it had before, or it is new to it.
LEMMA OpenAfter ==
  ASSUME Sound, NEW a, NEW q, Moved(a, q), NEW x, Open(x)'
  PROVE  /\ Led(x) => Open(x) /\ Own(x)'.cmds = Own(x).cmds
         /\ ~Led(x) => x = a /\ Proposes(a)
<1>1. CASE Led(x)
  BY <1>1, ViewOpen DEF Moved
<1>2. CASE ~Led(x)
  <2>1. Led(x)'
    BY DEF Open
  <2> QED
    BY <1>2, <2>1 DEF Moved, View, Others, Stays, Joins, Tallies, Open
<1> QED
  BY <1>1, <1>2

\* A step brings no replica two open instances.
LEMMA HasOther ==
  ASSUME NEW a, NEW q, Moved(a, q), NEW p \in Replicas, NEW x, Open(x), x # a, Has(p, x)'
  PROVE  Has(p, x)
<1>1. Led(x)
  BY DEF Open
<1>2. HeardAt(p, x)
  BY <1>1 DEF Moved, View, Others
<1> QED
  BY <1>2 DEF HeardAt

\* Of two open instances in conflict, that a replica has after a step.
LEMMA MeetNew ==
  ASSUME Sound, Aware, NEW a, NEW q, Moved(a, q), NEW p \in Replicas, NEW x, NEW y, Open(x)', Open(y)',
         Conflicting(x, y)', Has(p, x)', Has(p, y)', ~(Led(x) /\ Has(p, x))
  PROVE  Says(p, x, y)'
<1>1. /\ Led(x) => Open(x)
      /\ Led(y) => Open(y) /\ Own(y)'.cmds = Own(y).cmds
      /\ ~Led(x) => x = a /\ Proposes(a)
      /\ ~Led(y) => y = a /\ Proposes(a)
  BY OpenAfter
<1>2. Row(x) # Row(y) /\ Interfere(Own(x)'.cmds, Own(y)'.cmds) /\ x # y
  BY DEF Conflicting, Interfere
<1>3. x = a
  BY <1>1, HasOther
<1>4. Led(y)
  BY <1>1, <1>2, <1>3
<1>5. Has(p, y)
  BY <1>1, <1>2, <1>3, <1>4, HasOther
<1>6. Knows(node[p], y, Own(y).cmds)
  BY <1>1, <1>4, <1>5, KnowsOpen
<1>7. Own(y)'.cmds = Own(y).cmds
  BY <1>1, <1>4
<1>8. Interfere(Own(x)'.cmds, Own(y).cmds)
  BY <1>2, <1>7
<1> QED
  BY <1>2, <1>4, <1>6, <1>8, NewSays

\* A step leaves open instances' opinions met,
LEMMA MeetsOpenSteps ==
  ASSUME Sound, Aware, MeetsOpen, NEW a, NEW q, Moved(a, q)
  PROVE  MeetsOpen'
<1>1. Replicas' = Replicas
  BY SameGroup DEF Moved
<1>2. ASSUME NEW p \in Replicas, NEW x, NEW y, Has(p, x)', Has(p, y)', Open(x)', Open(y)', Conflicting(x, y)'
      PROVE  Says(p, x, y)' \/ Says(p, y, x)'
  <2>1. Conflicting(y, x)'
    BY <1>2, Interfering DEF Conflicting, Interfere
  <2>2. CASE ~(Led(x) /\ Has(p, x))
    BY <1>2, <2>2, MeetNew
  <2>3. CASE ~(Led(y) /\ Has(p, y))
    BY <1>2, <2>1, <2>3, MeetNew
  <2>4. CASE Led(x) /\ Has(p, x) /\ Led(y) /\ Has(p, y)
    <3>1. /\ Open(x) /\ Own(x)'.cmds = Own(x).cmds
          /\ Open(y) /\ Own(y)'.cmds = Own(y).cmds
      BY <1>2, <2>4, OpenAfter
    <3>2. Conflicting(x, y) /\ Row(x) # Row(y)
      BY <1>2, <3>1 DEF Conflicting, Interfere
    <3>3. MeetAt(p, x, y)
      BY DEF MeetsOpen
    <3>4. Says(p, x, y) \/ Says(p, y, x)
      BY <2>4, <3>1, <3>2, <3>3 DEF MeetAt
    <3> QED
      BY <2>4, <3>1, <3>2, <3>4, SaysAfter
  <2> QED
    BY <2>2, <2>3, <2>4
<1>3. ASSUME NEW p \in Replicas, NEW x, NEW y
      PROVE  MeetAt(p, x, y)'
  BY <1>2 DEF MeetAt
<1> QED
  BY <1>1, <1>3 DEF MeetsOpen

(***************************************************************************)
(* Replies are counted.                                                    *)
(***************************************************************************)
LEMMA AnswerersAfter ==
  ASSUME Sound, NEW a, NEW q, Moved(a, q), NEW x, Open(x)
  PROVE  /\ Answerers(x) \subseteq Answerers(x)'
         /\ IsFiniteSet(Answerers(x)) /\ IsFiniteSet(Answerers(x)')
         /\ Tallies(a, q) /\ x = a => q \notin Answerers(x) /\ q \in Answerers(x)'
<1>1. Replicas' = Replicas
  BY SameGroup DEF Moved
<1>2. Led(x)
  BY DEF Open
<1>3. ASSUME NEW p \in Answerers(x)
      PROVE  p \in Answerers(x)'
  <2>1. p \in Replicas /\ p # Row(x) /\ Has(p, x) /\ RepliesTo(p, x) = {}
    BY DEF Answerers
  <2>2. HeardAt(p, x)
    BY <1>2, <2>1 DEF Moved, View, Others, Stays, Proposes, Joins, Tallies
  <2> QED
    BY <1>1, <2>1, <2>2 DEF HeardAt, Answerers
<1>4. IsFiniteSet(Replicas)
  BY GroupIs DEF Sound
<1>5. Answerers(x) \in SUBSET Replicas /\ Answerers(x)' \in SUBSET Replicas
  BY <1>1 DEF Answerers
<1>6. IsFiniteSet(Answerers(x)) /\ IsFiniteSet(Answerers(x)')
  <2> DEFINE A == Answerers(x)
  <2>1. A \in SUBSET Replicas => IsFiniteSet(A)
    <3> HIDE DEF A
    <3> QED
      BY <1>4, FS_Subset
  <2>2. PICK B : B = Answerers(x)'
    OBVIOUS
  <2>3. IsFiniteSet(B)
    BY <1>4, <1>5, <2>2, FS_Subset
  <2> QED
    BY <1>5, <2>1, <2>2, <2>3
<1>7. Tallies(a, q) => q \notin Answerers(a) /\ q \in Answerers(a)'
  BY <1>1 DEF Tallies, Answerers
<1> QED
  BY <1>3, <1>6, <1>7

\* A leader has counted no reply that is still under way.
LEMMA CountedReplies ==
  ASSUME Sound, Counts, NEW a, NEW q, Moved(a, q), NEW x, Open(x)
  PROVE  /\ Kept(x) \/ (Tallies(a, q) /\ x = a)
         /\ Own(x)'.preAcceptOKs <= Cardinality(Answerers(x)') /\ Own(x)'.preAcceptOKs \in Int
<1> DEFINE k == Own(x).preAcceptOKs
<1>1. k \in Nat
  <2>1. Own(x) \in Leaders
    BY OwnIs DEF Open
  <2> QED
    BY <2>1 DEF Leaders
<1>2. k <= Cardinality(Answerers(x))
  BY DEF Counts, CountOf
<1>3. PICK A : A = Answerers(x)
  OBVIOUS
<1>4. PICK B : B = Answerers(x)'
  OBVIOUS
<1>5. /\ A \subseteq B /\ IsFiniteSet(A) /\ IsFiniteSet(B)
      /\ Tallies(a, q) /\ x = a => q \notin A /\ q \in B
  BY <1>3, <1>4, AnswerersAfter
<1>6. Cardinality(A) <= Cardinality(B) /\ Cardinality(A) \in Nat /\ Cardinality(B) \in Nat
  BY <1>5, FS_Subset, FS_CardinalityType
<1>7. Kept(x) \/ (Tallies(a, q) /\ x = a)
  <2>1. Led(x)
    BY DEF Open
  <2> QED
    BY <2>1 DEF Moved, View, Others, Stays, Proposes, Joins
<1>8. CASE Kept(x)
  <2>1. Own(x)'.preAcceptOKs = k
    BY <1>8 DEF Kept, Similar, Open
  <2> HIDE DEF k
  <2> QED
    BY <1>1, <1>2, <1>3, <1>4, <1>6, <1>8, <2>1
<1>9. CASE Tallies(a, q) /\ x = a
  <2>1. Own(x)'.preAcceptOKs = k + 1
    BY <1>9 DEF Tallies
  <2>2. A \cup {q} \subseteq B
    BY <1>5, <1>9
  <2>3. Cardinality(A \cup {q}) = Cardinality(A) + 1
    BY <1>5, <1>9, FS_AddElement
  <2>4. Cardinality(A \cup {q}) <= Cardinality(B)
    BY <1>5, <2>2, FS_Subset
  <2> HIDE DEF k
  <2> QED
    BY <1>1, <1>2, <1>3, <1>4, <1>6, <1>9, <2>1, <2>3, <2>4
<1> QED
  BY <1>7, <1>8, <1>9

\* the votes counted,
LEMMA CountsSteps ==
  ASSUME Sound, Counts, NEW a, NEW q, Moved(a, q)
  PROVE  Counts'
<1>1. ASSUME NEW x, Open(x)'
      PROVE  Own(x)'.preAcceptOKs <= Cardinality(Answerers(x)')
  <2>1. CASE Led(x)
    BY <1>1, <2>1, OpenAfter, CountedReplies
  <2>2. CASE ~Led(x)
    <3>1. Own(x)'.preAcceptOKs = 0
      BY <1>1, <2>2, OpenAfter DEF Proposes
    <3>2. PICK B : B = Answerers(x)'
      OBVIOUS
    <3>3. B \in SUBSET Replicas
      BY <3>2, SameGroup DEF Answerers, Moved
    <3>4. IsFiniteSet(Replicas)
      BY GroupIs DEF Sound
    <3>5. Cardinality(B) \in Nat
      BY <3>3, <3>4, FS_Subset, FS_CardinalityType
    <3> QED
      BY <3>1, <3>2, <3>5
  <2> QED
    BY <2>1, <2>2
<1>2. ASSUME NEW x
      PROVE  CountOf(x)'
  BY <1>1 DEF CountOf
<1> QED
  BY <1>2 DEF Counts

\* The size of a fast quorum is a number.
LEMMA SizeIs == ASSUME InGroup PROVE FastQuorumSize \in Int
<1>1. group.size \in Nat
  BY GroupIs
<1>2. F \in Int
  BY <1>1 DEF F
<1> QED
  BY <1>2 DEF FastQuorumSize

\* A decision is made with the replies of a fast quorum, which have all arrived.
LEMMA Deciding ==
  ASSUME Sound, Counts, NEW a, NEW q, Moved(a, q), NEW x, Open(x), ~Open(x)'
  PROVE  /\ Tallies(a, q) /\ x = a
         /\ \E Q \in SUBSET Replicas : /\ Cardinality(Q) >= FastQuorumSize
                                       /\ \A p \in Q : Has(p, x) /\ RepliesTo(p, x)' = {}
<1>1. Led(x) /\ x \in Ids /\ Row(x) \in Replicas /\ x \in DOMAIN node[Row(x)].inst
  BY OwnIs DEF Open
<1>2. Led(x)' /\ ~IsPreAccepting(Own(x)') /\ ~Kept(x)
  <2>1. Led(x)'
    BY <1>1, ViewOpen DEF Moved
  <2> QED
    BY <2>1 DEF Open, Kept, Similar
<1>3. Tallies(a, q) /\ x = a
  BY <1>2, CountedReplies
<1>4. PICK B : B = Answerers(x)'
  OBVIOUS
<1>5. IsFiniteSet(B) /\ B \subseteq Replicas /\ Row(x) \notin B
  <2>1. IsFiniteSet(B)
    BY <1>4, AnswerersAfter
  <2> QED
    BY <1>4, <2>1, SameGroup DEF Moved, Answerers
<1>6. Own(x)'.preAcceptOKs >= FastQuorumSize - 1 /\ Own(x)'.preAcceptOKs <= Cardinality(B) /\ Own(x)'.preAcceptOKs \in Int
  BY <1>2, <1>3, <1>4, CountedReplies DEF Tallies
<1> DEFINE Q == B \cup {Row(x)}
           k == Own(x)'.preAcceptOKs
<1>7. Cardinality(Q) >= FastQuorumSize
  <2>1. Cardinality(Q) = Cardinality(B) + 1 /\ Cardinality(B) \in Nat
    BY <1>5, FS_AddElement, FS_CardinalityType
  <2>2. FastQuorumSize \in Int
    BY SizeIs DEF Sound
  <2>3. k >= FastQuorumSize - 1 /\ k <= Cardinality(B) /\ k \in Int
    BY <1>6
  <2> HIDE DEF k, Q
  <2> QED
    BY <2>1, <2>2, <2>3
<1>8. ASSUME NEW p \in B
      PROVE  Has(p, x) /\ RepliesTo(p, x)' = {}
  <2>1. p \in Replicas /\ Has(p, x)' /\ RepliesTo(p, x)' = {}
    BY <1>4, <1>5, <1>8 DEF Answerers
  <2>2. p # q => HeardAt(p, x)
    BY <1>1, <2>1 DEF Moved, View, Others, Stays
  <2>3. Has(p, x)
    BY <1>3, <2>1, <2>2 DEF HeardAt, Tallies
  <2> QED
    BY <2>1, <2>3
<1>9. Has(Row(x), x) /\ RepliesTo(Row(x), x)' = {}
  <2>1. RepliesTo(Row(x), x) = {}
    BY Sending DEF RepliesTo, Channel, Outward
  <2>2. HeardAt(Row(x), x)
    BY <1>1, <1>3 DEF Moved, View, Others, Stays, Tallies
  <2> QED
    BY <1>1, <2>1, <2>2 DEF Has, HeardAt
<1>10. Q \in SUBSET Replicas
  BY <1>1, <1>5
<1>11. \A p \in Q : Has(p, x) /\ RepliesTo(p, x)' = {}
  BY <1>8, <1>9
<1> HIDE DEF Q
<1> QED
  BY <1>3, <1>7, <1>10, <1>11

\* The bookkeeping of an instance that is not open is kept.
LEMMA ClosedKept ==
  ASSUME NEW a, NEW q, Moved(a, q), NEW x, Led(x), ~Open(x)
  PROVE  Kept(x) /\ Own(x)'.cmds = Own(x).cmds /\ Own(x)'.deps = Own(x).deps
<1>1. Kept(x)
  BY DEF Moved, View, Others, Stays, Proposes, Joins, Tallies
<1> QED
  BY <1>1 DEF Kept, Similar

\* A replica still stands for the dependencies of a settled instance.
LEMMA VotedStill ==
  ASSUME Sound, NEW a, NEW q, Moved(a, q), NEW x, Led(x), ~Open(x), NEW p \in Replicas, Voted(x, p)
  PROVE  Voted(x, p)'
<1>1. Kept(x) /\ Own(x)'.cmds = Own(x).cmds /\ Own(x)'.deps = Own(x).deps
  BY ClosedKept
<1>2. x \in Ids
  BY DEF Led
<1>3. Knows(node[p], x, Own(x).cmds)
  BY DEF Voted
<1>4. Knows(node'[p], x, Own(x)'.cmds)
  <2>1. Knows(node'[p], x, Own(x).cmds)
    BY <1>2, <1>3 DEF Moved
  <2> QED
    BY <1>1, <2>1
<1>5. ASSUME NEW b, Has(p, b)', Open(b)', Conflicting(x, b)'
      PROVE  DependsOn(x, b)' \/ Says(p, b, x)'
  <2>1. Row(x) # Row(b) /\ Interfere(Own(x)'.cmds, Own(b)'.cmds) /\ Interfere(Own(b)'.cmds, Own(x)'.cmds)
    BY <1>5, Interfering DEF Conflicting, Interfere
  <2>2. CASE Led(b) /\ Has(p, b)
    <3>1. Open(b) /\ Own(b)'.cmds = Own(b).cmds
      BY <1>5, <2>2, OpenAfter
    <3>2. VotedAt(x, p, b) /\ Conflicting(x, b)
      BY <1>1, <2>1, <3>1 DEF Voted, Conflicting
    <3>3. DependsOn(x, b) \/ Says(p, b, x)
      BY <2>2, <3>1, <3>2 DEF VotedAt
    <3>4. DependsOn(x, b) => DependsOn(x, b)'
      BY <1>1 DEF DependsOn
    <3>5. Says(p, b, x) => Says(p, b, x)'
      BY <2>1, <2>2, <3>1, SaysAfter
    <3> QED
      BY <3>3, <3>4, <3>5
  <2>3. CASE ~(Led(b) /\ Has(p, b))
    <3>1. Interfere(Own(b)'.cmds, Own(x).cmds)
      BY <1>1, <2>1
    <3> QED
      BY <1>3, <1>5, <2>1, <2>3, <3>1, NewSays
  <2> QED
    BY <2>2, <2>3
<1>6. ASSUME NEW b
      PROVE  VotedAt(x, p, b)'
  BY <1>5 DEF VotedAt
<1> QED
  BY <1>4, <1>6 DEF Voted, Knows

\* A replica whose reply a decision has counted stands for it.
LEMMA VotedNow ==
  ASSUME Sound, Aware, MeetsOpen, NEW a, NEW q, Moved(a, q), Tallies(a, q), Open(a),
         NEW p \in Replicas, Has(p, a), RepliesTo(p, a)' = {}
  PROVE  Voted(a, p)'
<1>1. a \in Ids /\ Knows(node[p], a, Own(a).cmds) /\ Own(a)'.cmds = Own(a).cmds
  BY KnowsOpen DEF Tallies, Open, Led
<1>2. Knows(node'[p], a, Own(a)'.cmds)
  <2>1. Knows(node'[p], a, Own(a).cmds)
    BY <1>1 DEF Moved
  <2> QED
    BY <1>1, <2>1
<1>3. ASSUME NEW b, Has(p, b)', Open(b)', Conflicting(a, b)'
      PROVE  DependsOn(a, b)' \/ Says(p, b, a)'
  <2>1. Row(a) # Row(b) /\ Interfere(Own(a)'.cmds, Own(b)'.cmds) /\ a # b
    BY <1>3 DEF Conflicting, Interfere
  <2>2. Led(b) /\ Open(b) /\ Own(b)'.cmds = Own(b).cmds
    BY <1>3, <2>1, OpenAfter
  <2>3. Has(p, b)
    BY <1>3, <2>1, <2>2, HasOther
  <2>4. Conflicting(a, b)
    BY <1>1, <2>1, <2>2 DEF Conflicting
  <2>5. Says(p, a, b) \/ Says(p, b, a)
    <3>1. MeetAt(p, a, b)
      BY DEF MeetsOpen
    <3> QED
      BY <2>2, <2>3, <2>4, <3>1 DEF MeetAt
  <2>6. Led(a)
    BY DEF Open
  <2>7. Says(p, a, b)' \/ Says(p, b, a)'
    BY <2>1, <2>2, <2>3, <2>5, <2>6, SaysAfter
  <2> QED
    BY <2>7 DEF Says
<1>4. ASSUME NEW b
      PROVE  VotedAt(a, p, b)'
  BY <1>3 DEF VotedAt
<1> QED
  BY <1>2, <1>4 DEF Voted, Knows

\* the opinions of the voters of settled instances met,
LEMMA MeetsSteps ==
  ASSUME Sound, Aware, Counts, MeetsOpen, Meets, NEW a, NEW q, Moved(a, q)
  PROVE  Meets'
<1>1. Replicas' = Replicas /\ FastQuorumSize' = FastQuorumSize
  BY SameGroup DEF Moved
<1>2. ASSUME NEW x, Led(x)', ~Open(x)'
      PROVE  \E Q \in SUBSET Replicas : Cardinality(Q) >= FastQuorumSize /\ \A p \in Q : Voted(x, p)'
  <2>1. Led(x)
    BY <1>2 DEF Moved, View, Others, Stays, Proposes, Joins, Tallies, Open
  <2>2. CASE Open(x)
    <3>1. Tallies(a, q) /\ x = a
      BY <1>2, <2>2, Deciding
    <3>2. PICK Q \in SUBSET Replicas : /\ Cardinality(Q) >= FastQuorumSize
                                       /\ \A p \in Q : Has(p, x) /\ RepliesTo(p, x)' = {}
      BY <1>2, <2>2, Deciding
    <3>3. \A p \in Q : Voted(x, p)'
      BY <2>2, <3>1, <3>2, VotedNow
    <3> QED
      BY <3>2, <3>3
  <2>3. CASE ~Open(x)
    <3>1. PICK Q \in SUBSET Replicas : Cardinality(Q) >= FastQuorumSize /\ \A p \in Q : Voted(x, p)
      BY <2>1, <2>3 DEF Meets, Settled
    <3>2. \A p \in Q : Voted(x, p)'
      BY <2>1, <2>3, <3>1, VotedStill
    <3> QED
      BY <3>1, <3>2
  <2> QED
    BY <2>2, <2>3
<1> QED
  BY <1>1, <1>2 DEF Meets, Settled

\* Two fast quorums have a replica in common.
Overlapping == 2 * FastQuorumSize > group.size

\* Two fast quorums have a replica in common.
LEMMA QuorumsMeet ==
  ASSUME InGroup, Overlapping, NEW P \in SUBSET Replicas, NEW Q \in SUBSET Replicas,
         Cardinality(P) >= FastQuorumSize, Cardinality(Q) >= FastQuorumSize
  PROVE  \E p \in Replicas : p \in P /\ p \in Q
<1>1. IsFiniteSet(Replicas) /\ Cardinality(Replicas) = group.size /\ group.size \in Nat
  BY GroupIs
<1>2. Cardinality(P) \in Nat /\ Cardinality(Q) \in Nat
  BY <1>1, FS_Subset, FS_CardinalityType
<1>3. FastQuorumSize \in Int
  BY SizeIs
<1>4. Cardinality(P) + Cardinality(Q) > Cardinality(Replicas)
  BY <1>1, <1>2, <1>3 DEF Overlapping
<1>5. P \cap Q # {}
  BY <1>1, <1>4, FS_MajoritiesIntersect
<1> QED
  BY <1>5

\* Of an instance that is decided, and another that had been.
LEMMA MetNow ==
  ASSUME Sound, Tidy, Counts, Meets, Overlapping, NEW a, NEW q, Moved(a, q), NEW x, Open(x), ~Open(x)',
         NEW y, Led(y), ~Open(y), Conflicting(x, y)'
  PROVE  DependsOn(x, y)' \/ DependsOn(y, x)'
<1>1. Tallies(a, q) /\ x = a
  BY Deciding
<1>2. PICK P \in SUBSET Replicas : /\ Cardinality(P) >= FastQuorumSize
                                   /\ \A p \in P : Has(p, x) /\ RepliesTo(p, x)' = {}
  BY Deciding
<1>3. PICK Q \in SUBSET Replicas : Cardinality(Q) >= FastQuorumSize /\ \A p \in Q : Voted(y, p)
  BY DEF Meets, Settled
<1>4. PICK p \in Replicas : p \in P /\ p \in Q
  BY <1>2, <1>3, QuorumsMeet DEF Sound
<1>5. Own(y)'.cmds = Own(y).cmds /\ Own(y)'.deps = Own(y).deps /\ Own(x)'.cmds = Own(x).cmds
  BY <1>1, ClosedKept DEF Tallies
<1>6. Row(x) # Row(y) /\ Conflicting(y, x)
  BY <1>5, Interfering DEF Conflicting, Interfere
<1>7. VotedAt(y, p, x) /\ Has(p, x) /\ RepliesTo(p, x)' = {}
  BY <1>2, <1>3, <1>4 DEF Voted
<1>8. DependsOn(y, x) \/ Says(p, x, y)
  BY <1>6, <1>7 DEF VotedAt
<1>9. CASE DependsOn(y, x)
  BY <1>5, <1>9 DEF DependsOn
<1>10. CASE Says(p, x, y)
  <2>1. Says(p, x, y)'
    BY <1>6, <1>7, <1>10, SaysAfter
  <2> QED
    BY <1>7, <2>1 DEF Says
<1> QED
  BY <1>8, <1>9, <1>10

\* and conflicting instances that are settled ordered.
LEMMA MetSteps ==
  ASSUME Sound, Tidy, Counts, Meets, Met, Overlapping, NEW a, NEW q, Moved(a, q)
  PROVE  Met'
<1>1. ASSUME NEW x, NEW y, Led(x)', Led(y)', ~Open(x)', ~Open(y)', Conflicting(x, y)'
      PROVE  DependsOn(x, y)' \/ DependsOn(y, x)'
  <2>1. Led(x) /\ Led(y)
    BY <1>1 DEF Moved, View, Others, Stays, Proposes, Joins, Tallies, Open
  <2>2. Conflicting(y, x)' /\ Row(x) # Row(y) /\ x # y
    BY <1>1, Interfering DEF Conflicting, Interfere
  <2>3. CASE Open(x) /\ ~Open(y)
    BY <1>1, <2>1, <2>3, MetNow
  <2>4. CASE ~Open(x) /\ Open(y)
    BY <1>1, <2>1, <2>2, <2>4, MetNow
  <2>5. CASE ~Open(x) /\ ~Open(y)
    <3>1. /\ Own(x)'.cmds = Own(x).cmds /\ Own(x)'.deps = Own(x).deps
          /\ Own(y)'.cmds = Own(y).cmds /\ Own(y)'.deps = Own(y).deps
      BY <2>1, <2>5, ClosedKept
    <3>2. Conflicting(x, y) /\ MetAt(x, y)
      BY <1>1, <3>1 DEF Conflicting, Met
    <3> QED
      BY <2>1, <2>5, <3>1, <3>2 DEF MetAt, DependsOn
  <2>6. ~(Open(x) /\ Open(y))
    BY <1>1, <2>2, Deciding
  <2> QED
    BY <2>3, <2>4, <2>5, <2>6
<1>2. ASSUME NEW x, NEW y
      PROVE  MetAt(x, y)'
  BY <1>1 DEF MetAt
<1> QED
  BY <1>2 DEF Met

(***************************************************************************)
(* The invariant.                                                          *)
(***************************************************************************)
Opinions == Sound /\ Tidy /\ Counts /\ MeetsOpen /\ Meets /\ (Overlapping => Met)

\* The second invariant holds at first.
LEMMA InitOpinions == Init /\ NoRecovery => Opinions
<1> SUFFICES ASSUME Init, NoRecovery
             PROVE  Opinions
  OBVIOUS
<1>1. Sound
  BY InitSound
<1>2. /\ node = [r \in Replicas |-> NewNode(group.proposals[r])] /\ net = <<>>
  BY DEF Init
<1>3. InGroup
  BY <1>1 DEF Sound
<1>4. \A r \in Replicas : node[r].lb = <<>> /\ node[r].inst = <<>>
  BY <1>2, <1>3, FirstNode
<1>5. Flying = {} /\ Distinct
  BY <1>2 DEF Flying, FlyingIn, Distinct, DistinctIn
<1>6. \A id : ~Led(id)
  BY <1>4, IdIs DEF Led
<1>7. Aware
  BY <1>4 DEF Aware, AwareOf
<1>8. Tidy
  BY <1>5, <1>7 DEF Tidy, Asking, Replying, Single
<1>9. Counts /\ MeetsOpen /\ Meets /\ Met
  BY <1>6 DEF Counts, CountOf, MeetsOpen, MeetAt, Meets, Met, MetAt, Open
<1> QED
  BY <1>1, <1>8, <1>9 DEF Opinions

\* A step that changes neither replicas nor messages preserves it.
LEMMA UnchangedOpinions ==
  ASSUME Opinions, node' = node, net' = net, group' = group, Sound'
  PROVE  Opinions'
<1>1. Replicas' = Replicas /\ FastQuorumSize' = FastQuorumSize /\ Ids' = Ids
  BY SameGroup
<1>2. Flying' = Flying /\ Distinct' = Distinct
  BY DEF Flying, FlyingIn, Distinct, DistinctIn
<1>3. \A id : (Led(id)' <=> Led(id)) /\ Own(id)' = Own(id)
  BY <1>1 DEF Led, Own
<1>4. \A id : Open(id)' <=> Open(id)
  BY <1>3 DEF Open
<1>5. \A q, id : (Has(q, id)' <=> Has(q, id)) /\ RepliesTo(q, id)' = RepliesTo(q, id)
  BY <1>2 DEF Has, RepliesTo
<1>6. \A id : Answerers(id)' = Answerers(id)
  BY <1>1, <1>5 DEF Answerers
<1>7. Tidy'
  <2>1. Aware' <=> Aware
    BY <1>1 DEF Aware, AwareOf, Knows
  <2>2. \A m : Covers(m)' <=> Covers(m)
    BY <1>1, <1>3 DEF Covers
  <2>3. \A f : (AskingOf(f)' <=> AskingOf(f)) /\ (ReplyingOf(f)' <=> ReplyingOf(f))
    BY <1>4, <1>5, <2>2 DEF AskingOf, ReplyingOf
  <2>4. Single' <=> Single
    BY <1>2 DEF Single, Answering
  <2> QED
    BY <1>2, <2>1, <2>3, <2>4 DEF Opinions, Tidy, Asking, Replying
<1>8. \A a, b : (DependsOn(a, b)' <=> DependsOn(a, b)) /\ (Conflicting(a, b)' <=> Conflicting(a, b))
  BY <1>3 DEF DependsOn, Conflicting, Interfere
<1>9. \A p, a, b : Says(p, a, b)' <=> Says(p, a, b)
  BY <1>5, <1>8 DEF Says
<1>10. Counts'
  BY <1>3, <1>4, <1>6 DEF Opinions, Counts, CountOf
<1>11. MeetsOpen'
  BY <1>1, <1>4, <1>5, <1>8, <1>9 DEF Opinions, MeetsOpen, MeetAt
<1>12. Meets'
  <2>1. \A a, p : Voted(a, p)' <=> Voted(a, p)
    BY <1>3, <1>4, <1>5, <1>8, <1>9 DEF Voted, VotedAt, Knows
  <2>2. \A a : Settled(a)' <=> Settled(a)
    BY <1>1, <2>1 DEF Settled
  <2> QED
    BY <1>3, <1>4, <2>2 DEF Opinions, Meets
<1>13. Overlapping' => Met'
  BY <1>1, <1>3, <1>4, <1>8 DEF Opinions, Overlapping, Met, MetAt
<1> QED
  BY <1>7, <1>10, <1>11, <1>12, <1>13 DEF Opinions

\* Whatever a replica does preserves it.
LEMMA ActOpinions ==
  ASSUME Opinions, NEW r, NEW t, NEW gone, NEW out, Goes(r, t, gone, out), Acts(r, t, gone, out), Sound'
  PROVE  Opinions'
<1>1. Sound /\ Tidy /\ Counts /\ MeetsOpen /\ Meets /\ (Overlapping => Met) /\ Aware
  BY DEF Opinions, Tidy
<1>2. Orderly(out, gone) /\ \E a, q : View(a, q)
  BY <1>1, ActsKind
<1>3. PICK a, q : View(a, q)
  BY <1>2
<1>4. Tidy'
  BY <1>1, <1>2, <1>3, TidySteps
<1>5. group' = group
  BY DEF Goes
<1>6. \E b, p : Moved(b, p)
  <2>1. /\ \A p \in Replicas : \A id : Has(p, id) => Has(p, id)'
        /\ \A p \in Replicas : \A id \in Ids : \A cmd : Knows(node[p], id, cmd) => Knows(node'[p], id, cmd)
    BY <1>1, StepGrows
  <2>2. CASE Stays
    <3>1. View(a, r) /\ r \in Replicas
      BY <2>2 DEF View, Stays, Others, Goes
    <3> QED
      BY <1>5, <2>1, <3>1 DEF Moved
  <2>3. CASE ~Stays
    <3>1. q \in Replicas
      BY <1>3, <2>3 DEF View, Proposes, Joins, Tallies
    <3> QED
      BY <1>3, <1>5, <2>1, <3>1 DEF Moved
  <2> QED
    BY <2>2, <2>3
<1>7. PICK b, p : Moved(b, p)
  BY <1>6
<1>8. Counts' /\ MeetsOpen' /\ Meets'
  BY <1>1, <1>7, CountsSteps, MeetsOpenSteps, MeetsSteps
<1>9. Overlapping' => Met'
  <2>1. Overlapping' <=> Overlapping
    BY <1>5, SameGroup DEF Overlapping
  <2> QED
    BY <1>1, <1>7, <2>1, MetSteps
<1> QED
  BY <1>4, <1>8, <1>9 DEF Opinions

\* Every step preserves it.
LEMMA OpinionsSteps == Opinions /\ [Next]_vars => Opinions' /\ (Overlapping => Overlapping')
<1> SUFFICES ASSUME Opinions, [Next]_vars
             PROVE  Opinions' /\ (Overlapping => Overlapping')
  OBVIOUS
<1>1. Sound /\ Sound'
  BY SoundSteps DEF Opinions
<1>2. CASE node' = node /\ net' = net /\ group' = group
  <2>1. Overlapping => Overlapping'
    BY <1>2, SameGroup DEF Overlapping
  <2> QED
    BY <1>1, <1>2, <2>1, UnchangedOpinions
<1>3. CASE Next
  <2>1. PICK r \in Replicas : Step(r)
    BY <1>3 DEF Next
  <2>2. CASE Crash(r)
    BY <1>2, <2>2 DEF Crash
  <2>3. ASSUME NEW t, NEW gone, NEW out, Goes(r, t, gone, out), Acts(r, t, gone, out)
        PROVE  Opinions' /\ (Overlapping => Overlapping')
    <3>1. Overlapping => Overlapping'
      BY <2>3, SameGroup DEF Overlapping, Goes
    <3> QED
      BY <1>1, <2>3, <3>1, ActOpinions
  <2> QED
    BY <1>1, <2>1, <2>2, <2>3, StepIs
<1> QED
  BY <1>2, <1>3 DEF vars

\* Where fast quorums overlap, it orders the conflicting commands that are
\* committed.
LEMMA OpinionsMeet == Opinions /\ Overlapping => ConflictsMeet
<1> SUFFICES ASSUME Opinions, Overlapping, NEW r \in Replicas, NEW s \in Replicas,
                    NEW a \in CommittedAt(r), NEW b \in CommittedAt(s), Row(a) # Row(b),
                    Interfere(node[r].inst[a].cmds, node[s].inst[b].cmds)
             PROVE  \/ node[r].inst[a].deps[Row(b)] >= Number(b)
                    \/ node[s].inst[b].deps[Row(a)] >= Number(a)
  BY DEF ConflictsMeet
<1>1. Sound /\ MetAt(a, b)
  BY DEF Opinions, Met
<1>2. Led(a) /\ ~Open(a) /\ SameInstance(Own(a), node[r].inst[a])
  BY <1>1, CommittedIsOwn
<1>3. Led(b) /\ ~Open(b) /\ SameInstance(Own(b), node[s].inst[b])
  BY <1>1, CommittedIsOwn
<1>4. Conflicting(a, b)
  BY <1>2, <1>3 DEF Conflicting, SameInstance
<1>5. DependsOn(a, b) \/ DependsOn(b, a)
  BY <1>1, <1>2, <1>3, <1>4 DEF MetAt
<1> QED
  BY <1>2, <1>3, <1>5 DEF DependsOn, SameInstance

\* The second invariant of EPaxos: a replica that has given its opinion on two
\* instances of conflicting commands has said that one depends on the other,
\* and an instance that is decided has the votes of a fast quorum.
THEOREM OpinionsHold == Spec /\ NoRecovery => []Opinions
<1>1. Opinions /\ [Next]_vars => Opinions'
  BY OpinionsSteps
<1> QED
  BY <1>1, InitOpinions, PTL DEF Spec

\* Where two fast quorums have a replica in common, of two committed instances
\* of conflicting commands one depends on the other, whatever the interleaving
\* of their PreAccepts and of the answers.
THEOREM ConflictsMeetHolds == Spec /\ NoRecovery /\ Overlapping => []ConflictsMeet
<1>1. Opinions /\ Overlapping /\ [Next]_vars => Opinions' /\ Overlapping'
  BY OpinionsSteps
<1> QED
  BY <1>1, InitOpinions, OpinionsMeet, PTL DEF Spec

\* Fast quorums overlap in every group of two or more replicas, but those of
\* two, four and six: FastQuorumSize is made for groups of an odd number.
LEMMA SizesOverlap ==
  ASSUME group.size \in Nat, group.size \notin {0, 1, 2, 4, 6}
  PROVE  Overlapping
<1> DEFINE f == (group.size - 1) \div 2
           g == (f + 1) \div 2
<1>1. f \in Nat /\ (group.size = 2 * f + 1 \/ group.size = 2 * f + 2)
  <2> DEFINE s == group.size
  <2>1. s \in Nat /\ s > 0
    OBVIOUS
  <2> HIDE DEF s
  <2>2. (s - 1) \div 2 \in Nat /\ (s = 2 * ((s - 1) \div 2) + 1 \/ s = 2 * ((s - 1) \div 2) + 2)
    BY <2>1
  <2> QED
    BY <2>2 DEF s
<1> HIDE DEF f
<1>2. g \in Nat /\ f + 1 <= 2 * g + 1
  BY <1>1
<1>3. FastQuorumSize = f + g
  BY DEF FastQuorumSize, F, f
<1> HIDE DEF g
<1>4. CASE group.size = 2 * f + 1
  <2>1. f >= 1
    BY <1>1, <1>4
  <2>2. g >= 1
    BY <1>1, <2>1 DEF g
  <2> QED
    BY <1>1, <1>2, <1>3, <1>4, <2>2 DEF Overlapping
<1>5. CASE group.size = 2 * f + 2
  <2>1. f >= 3
    BY <1>1, <1>5
  <2>2. g >= 2
    BY <1>1, <2>1 DEF g
  <2> QED
    BY <1>1, <1>2, <1>3, <1>5, <2>2 DEF Overlapping
<1> QED
  BY <1>1, <1>4, <1>5

\* So it is in every group of three replicas, of five, or of seven and more: of
\* two committed instances of conflicting commands one depends on the other.
THEOREM ConflictsMeetInMostGroups ==
  Spec /\ NoRecovery /\ group.size \notin {1, 2, 4, 6} => []ConflictsMeet
<1>1. Init /\ group.size \notin {1, 2, 4, 6} => Overlapping
  <2> SUFFICES ASSUME Init, group.size \notin {1, 2, 4, 6}
               PROVE  Overlapping
    OBVIOUS
  <2>1. group.size \in Nat \ {0}
    BY GroupsAssumption DEF Init
  <2> QED
    BY <2>1, SizesOverlap
<1> QED
  BY <1>1, ConflictsMeetHolds, PTL DEF Spec
=============================================================================
