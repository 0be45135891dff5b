----------------------------- MODULE Induction -----------------------------
(***************************************************************************)
(* Induction over the natural numbers, stated with sets and functions: the *)
(* theorems of NaturalsInduction, whose parameters are operators, without  *)
(* these parameters.                                                       *)
(***************************************************************************)
EXTENDS Integers, WellFoundedInduction, TLAPS

\* A set of natural numbers has a least one.
LEMMA Least ==
  ASSUME NEW T, T \subseteq Nat, T # {}
  PROVE  \E x \in T : \A y \in T : x <= y
<1>1. IsWellFoundedOn(OpToRel(<, Nat), Nat)
  BY NatLessThanWellFounded
<1> DEFINE R == OpToRel(<, Nat)
<1>2. \A x, y \in Nat : x < y => <<x, y>> \in R
  BY DEF OpToRel
<1> HIDE DEF R
<1>3. \E x \in T : \A y \in T : ~ (<<y, x>> \in R)
  BY <1>1, WFMin DEF R
<1>4. PICK x \in T : \A y \in T : <<y, x>> \notin R
  BY <1>3
<1>5. ASSUME NEW y \in T PROVE x <= y
  <2>1. x \in Nat /\ y \in Nat /\ ~ (y < x)
    BY <1>2, <1>4
  <2> QED
    BY <2>1
<1> QED
  BY <1>5

\* Induction over the natural numbers, for a set of them.
LEMMA Inductive ==
  ASSUME NEW S, 0 \in S, \A n \in Nat : n \in S => n + 1 \in S
  PROVE  Nat \subseteq S
<1> SUFFICES ASSUME Nat \ S # {} PROVE FALSE
  OBVIOUS
<1>1. PICK x \in Nat \ S : \A y \in Nat \ S : x <= y
  BY Least
<1>2. x # 0 /\ x - 1 \in Nat /\ x - 1 \notin Nat \ S
  BY <1>1
<1>3. (x - 1) + 1 \in S
  BY <1>2
<1> QED
  BY <1>1, <1>3

\* f iterates F from v, n times.
Iterates(f, v, F, n) == f[0] = v /\ \A m \in Nat : m < n => f[m + 1] = F[m][f[m]]

\* What is iterated can be iterated once more.
LEMMA IteratesOn ==
  ASSUME NEW V, NEW v \in V, NEW F \in [Nat -> [V -> V]], NEW k \in Nat,
         NEW f \in [Nat -> V], Iterates(f, v, F, k)
  PROVE  \E g \in [Nat -> V] : Iterates(g, v, F, k + 1)
<1> DEFINE g == [m \in Nat |-> IF m = k + 1 THEN F[k][f[k]] ELSE f[m]]
<1>1. F[k][f[k]] \in V
  <2>1. f[k] \in V /\ F[k] \in [V -> V]
    OBVIOUS
  <2> QED
    BY <2>1
<1>2. /\ g \in [Nat -> V] /\ g[k + 1] = F[k][f[k]]
      /\ \A m \in Nat : m # k + 1 => g[m] = f[m]
  BY <1>1
<1> HIDE DEF g
<1>3. g[0] = v
  BY <1>2 DEF Iterates
<1>4. ASSUME NEW m \in Nat, m < k + 1 PROVE g[m + 1] = F[m][g[m]]
  <2>1. g[m] = f[m]
    BY <1>2, <1>4
  <2>2. CASE m = k
    BY <1>2, <2>1, <2>2
  <2>3. CASE m # k
    <3>1. g[m + 1] = f[m + 1] /\ m < k
      BY <1>2, <1>4, <2>3
    <3> QED
      BY <2>1, <3>1 DEF Iterates
  <2> QED
    BY <2>2, <2>3
<1>5. Iterates(g, v, F, k + 1)
  BY <1>3, <1>4 DEF Iterates
<1> QED
  BY <1>2, <1>5

\* Every function can be iterated any number of times.
LEMMA IteratesExist ==
  ASSUME NEW V, NEW v \in V, NEW F \in [Nat -> [V -> V]], NEW n \in Nat
  PROVE  \E f \in [Nat -> V] : Iterates(f, v, F, n)
<1> DEFINE S == {k \in Nat : \E f \in [Nat -> V] : Iterates(f, v, F, k)}
           c == [k \in Nat |-> v]
<1>1. 0 \in S
  <2>1. c \in [Nat -> V] /\ c[0] = v
    OBVIOUS
  <2> HIDE DEF c
  <2>2. Iterates(c, v, F, 0)
    BY <2>1 DEF Iterates
  <2> QED
    BY <2>1, <2>2
<1>2. ASSUME NEW k \in Nat, k \in S PROVE k + 1 \in S
  BY <1>2, IteratesOn
<1> HIDE DEF S
<1>3. n \in S
  BY <1>1, <1>2, Inductive
<1> QED
  BY <1>3 DEF S

\* There is one result of iterating a function.
LEMMA IteratesAlike ==
  ASSUME NEW v, NEW F, NEW n \in Nat, NEW f, NEW g,
         Iterates(f, v, F, n), Iterates(g, v, F, n)
  PROVE  \A k \in 0 .. n : f[k] = g[k]
<1> DEFINE S == {k \in Nat : k <= n => f[k] = g[k]}
<1>1. 0 \in S
  BY DEF Iterates
<1>2. ASSUME NEW k \in Nat, k \in S PROVE k + 1 \in S
  <2> SUFFICES ASSUME k + 1 <= n PROVE f[k + 1] = g[k + 1]
    OBVIOUS
  <2>1. k < n /\ f[k] = g[k]
    BY <1>2
  <2> QED
    BY <2>1 DEF Iterates
<1> HIDE DEF S
<1>3. Nat \subseteq S
  BY <1>1, <1>2, Inductive
<1> QED
  BY <1>3 DEF S

\* A function defined by recursion from F exists, with all its values in V.
LEMMA Iterated ==
  ASSUME NEW V, NEW v \in V, NEW F \in [Nat -> [V -> V]]
  PROVE  \E f \in [Nat -> V] :
           \A n \in Nat : f[n] = IF n = 0 THEN v ELSE F[n - 1][f[n - 1]]
<1> DEFINE h(n) == CHOOSE f \in [Nat -> V] : Iterates(f, v, F, n)
           r == [n \in Nat |-> h(n)[n]]
<1>1. \A n \in Nat : h(n) \in [Nat -> V] /\ Iterates(h(n), v, F, n)
  BY IteratesExist
<1> HIDE DEF h
<1>2. r \in [Nat -> V] /\ \A n \in Nat : r[n] = h(n)[n]
  BY <1>1
<1> HIDE DEF r
<1>3. r[0] = v
  BY <1>1, <1>2 DEF Iterates
<1>4. ASSUME NEW n \in Nat PROVE r[n + 1] = F[n][r[n]]
  <2>1. h(n + 1)[n + 1] = F[n][h(n + 1)[n]] /\ Iterates(h(n + 1), v, F, n)
    BY <1>1 DEF Iterates
  <2>2. h(n + 1)[n] = h(n)[n]
    BY <1>1, <2>1, IteratesAlike
  <2> QED
    BY <1>2, <2>1, <2>2
<1>5. ASSUME NEW n \in Nat, n # 0 PROVE r[n] = F[n - 1][r[n - 1]]
  <2>1. n - 1 \in Nat /\ (n - 1) + 1 = n
    BY <1>5
  <2> QED
    BY <1>4, <2>1
<1> QED
  BY <1>2, <1>3, <1>5
=============================================================================
