---------------------------- MODULE NumberFacts ----------------------------
(***************************************************************************)
(* Facts about natural numbers, and about functions defined along them,    *)
(* that several proofs need.                                               *)
(***************************************************************************)
EXTENDS Integers, WellFoundedInduction, TLAPS

Below == {ss \in Nat \X Nat : ss[1] < ss[2]}

LEMMA BelowIsWellFounded == IsWellFoundedOn(Below, Nat)
BY NatLessThanWellFounded DEF OpToRel, Below

(* Every set of naturals that is not empty has a least element.            *)
LEMMA LeastElement ==
  ASSUME NEW T \in SUBSET Nat, T # {}
  PROVE  \E x \in T : \A y \in T : x <= y
<1>1. \E x \in T : \A y \in T : ~ (<<y, x>> \in Below)
  BY BelowIsWellFounded, WFMin
<1>2. \A x, y \in Nat : ~(<<y, x>> \in Below) => x <= y
  BY DEF Below
<1> QED
  BY <1>1, <1>2

(* Remainders: TLAPS knows what they are, and not that they are unique.    *)
LEMMA Division ==
  ASSUME NEW a \in Nat, a > 0, NEW n \in Nat
  PROVE  /\ n % a \in 0..a - 1
         /\ \E q \in Int : n = a * q + (n % a)
<1>1. n % a \in 0..a - 1
  OBVIOUS
<1>2. n = a * (n \div a) + (n % a)
  OBVIOUS
<1>3. n \div a \in Int
  OBVIOUS
<1> QED
  BY <1>1, <1>2, <1>3

LEMMA DivisionUnique ==
  ASSUME NEW a \in Nat, a > 0, NEW n \in Nat, NEW q \in Int,
         NEW r \in 0..a - 1, n = a * q + r
  PROVE  n % a = r
<1>1. PICK p \in Int : n = a * p + (n % a)
  BY Division
<1> DEFINE t == n % a
<1>2. t \in 0..a - 1
  BY Division
<1>3. n = a * p + t
  BY <1>1
<1> HIDE DEF t
<1>4. ~(p < q)
  <2> SUFFICES ASSUME p + 1 <= q PROVE FALSE
    OBVIOUS
  <2>1. a * (p + 1) <= a * q
    OBVIOUS
  <2>2. a * (p + 1) = a * p + a
    OBVIOUS
  <2> QED
    BY <1>2, <1>3, <2>1, <2>2
<1>5. ~(q < p)
  <2> SUFFICES ASSUME q + 1 <= p PROVE FALSE
    OBVIOUS
  <2>1. a * (q + 1) <= a * p
    OBVIOUS
  <2>2. a * (q + 1) = a * q + a
    OBVIOUS
  <2> QED
    BY <1>2, <1>3, <2>1, <2>2
<1> QED
  BY <1>2, <1>3, <1>4, <1>5 DEF t

(* Going from n on to the next position that agrees with v                 *)
LEMMA NextCongruent ==
  ASSUME NEW a \in Nat, a > 0, NEW n \in Nat, NEW v \in 0..a - 1
  PROVE  LET p == n % a IN
         (n + (IF p <= v THEN v - p ELSE a + v - p)) % a = v
<1> DEFINE p == n % a
           d == IF p <= v THEN v - p ELSE a + v - p
<1>1. p \in 0..a - 1
  BY Division
<1>2. PICK q \in Int : n = a * q + p
  BY Division
<1> HIDE DEF p
<1>3. d \in Nat
  BY <1>1
<1>4. n + d = a * q + v \/ n + d = a * (q + 1) + v
  BY <1>1, <1>2
<1>5. q + 1 \in Int /\ n + d \in Nat
  BY <1>2, <1>3
<1> HIDE DEF d
<1>6. (n + d) % a = v
  BY <1>2, <1>4, <1>5, DivisionUnique
<1> QED
  BY <1>6 DEF d, p

(* Steps of a recursion from z on: the function that it defines            *)
Steps(T, z, m, g) ==
  {h \in [0..m -> T] : h[0] = z /\ \A k \in 1..m : h[k] = g[k][h[k - 1]]}

LEMMA StepsExist ==
  ASSUME NEW T, NEW z \in T, NEW m \in Nat, NEW g \in [1..m -> [T -> T]]
  PROVE  Steps(T, z, m, g) # {}
<1> DEFINE To(n) == {h \in [0..n -> T] :
                       h[0] = z /\ \A k \in 1..n : h[k] = g[k][h[k - 1]]}
           bad == {n \in 0..m : To(n) = {}}
<1>1. ASSUME bad # {}
      PROVE  FALSE
  <2>1. PICK n \in bad : \A o \in bad : n <= o
    <3>1. bad \in SUBSET Nat
      OBVIOUS
    <3> HIDE DEF bad
    <3> QED
      BY <1>1, <3>1, LeastElement
  <2>2. n \in Nat /\ n <= m /\ To(n) = {}
    OBVIOUS
  <2>3. CASE n = 0
    <3> DEFINE h == [k \in 0..0 |-> z]
    <3>1. h \in [0..0 -> T] /\ h[0] = z /\ 1..0 = {}
      OBVIOUS
    <3> HIDE DEF h
    <3>2. h \in To(0)
      BY <3>1
    <3> QED
      BY <2>2, <2>3, <3>2
  <2>4. CASE n # 0
    <3>1. n - 1 \in 0..m /\ ~(n <= n - 1) /\ n \in 1..m
      BY <2>2, <2>4
    <3>2. PICK f : f \in To(n - 1)
      <4>1. n - 1 \notin bad
        BY <2>1, <3>1
      <4> HIDE DEF To
      <4> QED
        BY <3>1, <4>1
    <3>3. /\ f \in [0..n - 1 -> T] /\ f[0] = z
          /\ \A k \in 1..n - 1 : f[k] = g[k][f[k - 1]]
      BY <3>2
    <3> DEFINE h == [k \in 0..n |-> IF k = n THEN g[n][f[n - 1]] ELSE f[k]]
    <3>4. h \in [0..n -> T]
      <4>1. n - 1 \in 0..n - 1 /\ g[n] \in [T -> T]
        BY <2>2, <2>4, <3>1
      <4>2. g[n][f[n - 1]] \in T
        BY <3>3, <4>1
      <4>3. \A k \in 0..n : k = n \/ k \in 0..n - 1
        BY <2>2
      <4> QED
        BY <3>3, <4>2, <4>3
    <3>5. h[0] = z
      BY <2>2, <2>4, <3>3
    <3>6. ASSUME NEW k \in 1..n
          PROVE  h[k] = g[k][h[k - 1]]
      <4>1. CASE k = n
        BY <2>2, <2>4, <4>1
      <4>2. CASE k # n
        <5>1. k \in 1..n - 1 /\ k - 1 \in 0..n - 1 /\ k \in 0..n - 1
          BY <2>2, <4>2
        <5>2. h[k] = f[k] /\ h[k - 1] = f[k - 1]
          BY <2>2, <4>2, <5>1
        <5> QED
          BY <3>3, <5>1, <5>2
      <4> QED
        BY <4>1, <4>2
    <3> HIDE DEF h
    <3>7. h \in To(n)
      BY <3>4, <3>5, <3>6
    <3> QED
      BY <2>2, <3>7
  <2> QED
    BY <2>3, <2>4
<1>2. m \in 0..m
  OBVIOUS
<1> QED
  BY <1>1, <1>2 DEF Steps

(* Following references from one member of D to the next, until a member   *)
(* of S is met: a function computes what is found if each step lowers the  *)
(* rank.                                                                   *)
Descents(T, D, S, b, next) ==
  {h \in [D -> T] :
     \A y \in D : h[y] = IF y \in S THEN b[y] ELSE h[next[y]]}

LEMMA DescentsExist ==
  ASSUME NEW T, NEW D, NEW S, NEW m \in Nat, NEW b \in [D -> T],
         NEW next \in [D -> D], NEW rank \in [D -> 0..m],
         \A y \in D \ S : rank[next[y]] < rank[y]
  PROVE  Descents(T, D, S, b, next) # {}
<1> DEFINE To(n) == {h \in [D -> T] : \A y \in D : rank[y] < n =>
                       h[y] = IF y \in S THEN b[y] ELSE h[next[y]]}
           bad == {n \in 0..m + 1 : To(n) = {}}
<1>1. ASSUME bad # {}
      PROVE  FALSE
  <2>1. PICK n \in bad : \A o \in bad : n <= o
    <3>1. bad \in SUBSET Nat
      OBVIOUS
    <3> HIDE DEF bad
    <3> QED
      BY <1>1, <3>1, LeastElement
  <2>2. n \in Nat /\ n <= m + 1 /\ To(n) = {}
    OBVIOUS
  <2>3. CASE n = 0
    <3>1. b \in To(0)
      OBVIOUS
    <3> QED
      BY <2>2, <2>3, <3>1
  <2>4. CASE n # 0
    <3>1. n - 1 \in 0..m + 1 /\ ~(n <= n - 1)
      BY <2>2, <2>4
    <3>2. PICK f : f \in To(n - 1)
      <4>1. n - 1 \notin bad
        BY <2>1, <3>1
      <4> HIDE DEF To
      <4> QED
        BY <3>1, <4>1
    <3>3. /\ f \in [D -> T]
          /\ \A y \in D : rank[y] < n - 1 =>
               f[y] = IF y \in S THEN b[y] ELSE f[next[y]]
      BY <3>2
    <3> DEFINE h == [y \in D |-> IF rank[y] < n - 1 THEN f[y]
                                 ELSE IF y \in S THEN b[y] ELSE f[next[y]]]
    <3>4. h \in [D -> T]
      BY <3>3
    <3>5. ASSUME NEW y \in D, rank[y] < n
          PROVE  h[y] = IF y \in S THEN b[y] ELSE h[next[y]]
      <4>1. CASE y \in S
        BY <3>3, <4>1
      <4>2. CASE y \notin S
        <5>1. next[y] \in D /\ rank[next[y]] < rank[y] /\ rank[y] \in Nat
              /\ rank[next[y]] \in Nat
          BY <4>2
        <5>2. rank[next[y]] < n - 1
          BY <2>2, <3>5, <5>1
        <5>3. h[next[y]] = f[next[y]]
          BY <5>1, <5>2
        <5>4. h[y] = f[next[y]]
          BY <3>3, <4>2
        <5> QED
          BY <4>2, <5>3, <5>4
      <4> QED
        BY <4>1, <4>2
    <3> HIDE DEF h
    <3>6. h \in To(n)
      BY <3>4, <3>5
    <3> QED
      BY <2>2, <3>6
  <2> QED
    BY <2>3, <2>4
<1>2. PICK h : h \in To(m + 1)
  <2> HIDE DEF To
  <2>1. m + 1 \in 0..m + 1
    OBVIOUS
  <2>2. m + 1 \notin bad
    BY <1>1
  <2> QED
    BY <2>1, <2>2
<1>3. \A y \in D : rank[y] < m + 1
  OBVIOUS
<1>4. h \in [D -> T] /\ \A y \in D : h[y] = IF y \in S THEN b[y] ELSE h[next[y]]
  BY <1>2, <1>3
<1> QED
  BY <1>4 DEF Descents

=============================================================================
