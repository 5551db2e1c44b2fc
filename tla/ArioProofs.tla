----------------------------- MODULE ArioProofs -----------------------------
(***************************************************************************)
(* Proofs about archives: members, their names and the symbols' indexes,   *)
(* for any names, contents and files.                                      *)
(***************************************************************************)
EXTENDS Ario, NumberFacts, FiniteSetTheorems, SequenceTheorems, TLAPS

-----------------------------------------------------------------------------
(* Sums                                                                    *)

(* SumTo() unfolds as its definition says: such a function exists, and its *)
(* values do not depend on where it ends.                                  *)
LEMMA SumsExist ==
  ASSUME NEW m \in Nat, NEW f \in [1..m -> Nat]
  PROVE  \E h \in [0..m -> Nat] :
           h[0] = 0 /\ \A k \in 1..m : h[k] = h[k - 1] + f[k]
<1> DEFINE g == [k \in 1..m |-> [u \in Nat |-> u + f[k]]]
<1>1. g \in [1..m -> [Nat -> Nat]] /\ \A k \in 1..m, u \in Nat : g[k][u] = u + f[k]
  OBVIOUS
<1> HIDE DEF g
<1>2. Steps(Nat, 0, m, g) # {}
  BY <1>1, StepsExist
<1>3. PICK h \in [0..m -> Nat] : h[0] = 0 /\ \A k \in 1..m : h[k] = g[k][h[k - 1]]
  BY <1>2 DEF Steps
<1>4. ASSUME NEW k \in 1..m
      PROVE  h[k] = h[k - 1] + f[k]
  <2>1. h[k - 1] \in Nat /\ h[k] = g[k][h[k - 1]]
    BY <1>3
  <2> QED
    BY <1>1, <2>1
<1> QED
  BY <1>3, <1>4

LEMMA SumToIs ==
  ASSUME NEW m \in Nat, NEW f, NEW h \in [0..m -> Nat], h[0] = 0,
         \A k \in 1..m : h[k] = h[k - 1] + f[k], NEW n \in 0..m
  PROVE  SumTo(f, n) = h[n]
<1> DEFINE Sum(g) == g = [k \in 0..n |-> IF k = 0 THEN 0 ELSE g[k - 1] + f[k]]
           g == CHOOSE g : Sum(g)
           bad == {k \in 0..n : g[k] # h[k]}
<1>1. SumTo(f, n) = g[n]
  BY DEF SumTo
<1>2. Sum([k \in 0..n |-> h[k]])
  <2> DEFINE i == [k \in 0..n |-> h[k]]
  <2>1. ASSUME NEW k \in 0..n
        PROVE  i[k] = IF k = 0 THEN 0 ELSE i[k - 1] + f[k]
    <3>1. CASE k = 0
      BY <3>1
    <3>2. CASE k # 0
      <4>1. k \in 1..m /\ k - 1 \in 0..n
        BY <3>2
      <4>2. i[k - 1] = h[k - 1] /\ i[k] = h[k]
        BY <4>1
      <4> QED
        BY <3>2, <4>1, <4>2
    <3> QED
      BY <3>1, <3>2
  <2> QED
    BY <2>1
<1>3. Sum(g)
  <2> HIDE DEF Sum
  <2> QED
    BY <1>2
<1> HIDE DEF g
<1>4. /\ g[0] = 0
      /\ \A k \in 1..n : g[k] = g[k - 1] + f[k]
  <2>1. 0 \in 0..n
    OBVIOUS
  <2> QED
    BY <1>3, <2>1
<1>5. ASSUME bad # {}
      PROVE  FALSE
  <2>1. PICK k \in bad : \A o \in bad : k <= o
    <3>1. bad \in SUBSET Nat
      OBVIOUS
    <3> HIDE DEF bad
    <3> QED
      BY <1>5, <3>1, LeastElement
  <2>2. k \in 0..n /\ g[k] # h[k]
    OBVIOUS
  <2>3. k # 0
    BY <1>4, <2>2
  <2>4. k \in 1..n /\ k \in 1..m /\ k - 1 \in 0..n /\ ~(k <= k - 1)
    BY <2>2, <2>3
  <2>5. g[k - 1] = h[k - 1]
    BY <2>1, <2>4
  <2> QED
    BY <1>4, <2>2, <2>4, <2>5
<1>6. n \in 0..n
  OBVIOUS
<1> QED
  BY <1>1, <1>5, <1>6

LEMMA SumToFacts ==
  ASSUME NEW m \in Nat, NEW f \in [1..m -> Nat]
  PROVE  /\ \A n \in 0..m : SumTo(f, n) \in Nat
         /\ SumTo(f, 0) = 0
         /\ \A n \in 1..m : SumTo(f, n) = SumTo(f, n - 1) + f[n]
<1>1. PICK h \in [0..m -> Nat] :
        h[0] = 0 /\ \A k \in 1..m : h[k] = h[k - 1] + f[k]
  BY SumsExist
<1>2. \A n \in 0..m : SumTo(f, n) = h[n]
  BY <1>1, SumToIs
<1>3. 0 \in 0..m /\ \A n \in 1..m : n \in 0..m /\ n - 1 \in 0..m
  OBVIOUS
<1> QED
  BY <1>1, <1>2, <1>3

(* The first n summands decide.                                            *)
AgreeTo(f, g, n) == \A k \in 1..n : f[k] = g[k]

LEMMA SumToSame ==
  ASSUME NEW m \in Nat, NEW f \in [1..m -> Nat],
         NEW l \in Nat, NEW g \in [1..l -> Nat],
         NEW n \in Nat, n <= m, n <= l, AgreeTo(f, g, n)
  PROVE  SumTo(f, n) = SumTo(g, n)
<1> DEFINE bad == {k \in 0..n : SumTo(f, k) # SumTo(g, k)}
<1>1. ASSUME bad # {}
      PROVE  FALSE
  <2>1. PICK k \in bad : \A o \in bad : k <= o
    <3>1. bad \in SUBSET Nat
      OBVIOUS
    <3> HIDE DEF bad
    <3> QED
      BY <1>1, <3>1, LeastElement
  <2>2. k \in 0..n /\ SumTo(f, k) # SumTo(g, k)
    OBVIOUS
  <2>3. k # 0
    BY <2>2, SumToFacts
  <2>4. k \in 1..n /\ k \in 1..m /\ k \in 1..l /\ k - 1 \in 0..n /\ ~(k <= k - 1)
    BY <2>2, <2>3
  <2>5. SumTo(f, k - 1) = SumTo(g, k - 1)
    BY <2>1, <2>4
  <2>6. /\ SumTo(f, k) = SumTo(f, k - 1) + f[k]
        /\ SumTo(g, k) = SumTo(g, k - 1) + g[k]
    BY <2>4, SumToFacts
  <2> QED
    BY <2>2, <2>4, <2>5, <2>6 DEF AgreeTo
<1>2. n \in 0..n
  OBVIOUS
<1> QED
  BY <1>1, <1>2

(* Sums of positive numbers grow.                                          *)
LEMMA SumToGrows ==
  ASSUME NEW m \in Nat, NEW f \in [1..m -> Nat], \A k \in 1..m : f[k] > 0
  PROVE  \A a, b \in 0..m : a < b => SumTo(f, a) < SumTo(f, b)
<1> DEFINE Grows(b) == \A a \in 0..m : a < b => SumTo(f, a) < SumTo(f, b)
           bad == {b \in 0..m : ~Grows(b)}
<1>1. ASSUME bad # {}
      PROVE  FALSE
  <2>1. PICK b \in bad : \A o \in bad : b <= o
    <3>1. bad \in SUBSET Nat
      OBVIOUS
    <3> HIDE DEF bad
    <3> QED
      BY <1>1, <3>1, LeastElement
  <2>2. b \in 0..m
    OBVIOUS
  <2>3. PICK a \in 0..m : a < b /\ ~(SumTo(f, a) < SumTo(f, b))
    OBVIOUS
  <2>4. b \in 1..m /\ b - 1 \in 0..m /\ ~(b <= b - 1)
    BY <2>2, <2>3
  <2>5. SumTo(f, b) = SumTo(f, b - 1) + f[b] /\ f[b] > 0 /\ f[b] \in Nat
    BY <2>4, SumToFacts
  <2>6. /\ SumTo(f, b - 1) \in Nat /\ SumTo(f, a) \in Nat /\ SumTo(f, b) \in Nat
    BY <2>2, <2>3, <2>4, SumToFacts
  <2>7. CASE a = b - 1
    BY <2>3, <2>5, <2>6, <2>7
  <2>8. CASE a # b - 1
    <3>1. a < b - 1
      BY <2>2, <2>3, <2>8
    <3>2. Grows(b - 1)
      BY <2>1, <2>4
    <3>3. SumTo(f, a) < SumTo(f, b - 1)
      BY <3>1, <3>2
    <3> QED
      BY <2>3, <2>5, <2>6, <3>3
  <2> QED
    BY <2>7, <2>8
<1> QED
  BY <1>1

-----------------------------------------------------------------------------
(* The size of the symbol table                                            *)

LEMMA TableSizeIsNumber ==
  ASSUME NEW syms \in SUBSET Symbols
  PROVE  SymbolTableSize(syms) \in Nat
<1> DEFINE w(s) == 4 + SymbolSize[s] + 1
           pick(t) == CHOOSE y \in t : TRUE
           Sums(i) == i = [t \in SUBSET syms |->
                             IF t = {} THEN 0 ELSE w(pick(t)) + i[t \ {pick(t)}]]
           iter == CHOOSE i : Sums(i)
           Upto(n) == {t \in SUBSET syms : Cardinality(t) <= n}
           Parts(n) == {i \in [Upto(n) -> Nat] :
                          \A t \in Upto(n) :
                            i[t] = IF t = {} THEN 0
                                   ELSE w(pick(t)) + i[t \ {pick(t)}]}
<1>1. MapThenSumSet(LAMBDA s : 4 + SymbolSize[s] + 1, syms) = iter[syms]
  BY Zenon DEF MapThenSumSet, MapThenFoldSet
<1>2. IsFiniteSet(syms) /\ \A s \in syms : w(s) \in Nat
  BY ArioAssumption, FS_Subset
<1>3. ASSUME NEW t \in SUBSET syms
      PROVE  /\ IsFiniteSet(t) /\ Cardinality(t) \in Nat
             /\ Cardinality(t) <= Cardinality(syms)
             /\ Cardinality(t) = 0 <=> t = {}
             /\ t # {} => /\ pick(t) \in syms /\ t \ {pick(t)} \in SUBSET syms
                          /\ Cardinality(t \ {pick(t)}) = Cardinality(t) - 1
  <2>1. IsFiniteSet(t) /\ Cardinality(t) <= Cardinality(syms)
    BY <1>2, FS_Subset
  <2>2. Cardinality(t) \in Nat /\ (Cardinality(t) = 0 <=> t = {})
    BY <2>1, FS_CardinalityType, FS_EmptySet
  <2>3. t # {} => pick(t) \in t
    OBVIOUS
  <2> QED
    BY <2>1, <2>2, <2>3, FS_RemoveElement
<1> HIDE DEF w, pick
<1>4. ASSUME NEW n \in Nat, NEW t \in Upto(n), t # {}
      PROVE  /\ n # 0 /\ n - 1 \in Nat /\ t \ {pick(t)} \in Upto(n - 1)
             /\ w(pick(t)) \in Nat
  <2>1. t \in SUBSET syms /\ Cardinality(t) <= n
    OBVIOUS
  <2> QED
    BY <1>2, <1>3, <1>4, <2>1
<1>5. ASSUME NEW n \in Nat
      PROVE  Parts(n) # {}
  <2> DEFINE bad == {k \in Nat : Parts(k) = {}}
  <2>1. ASSUME bad # {}
        PROVE  FALSE
    <3>1. PICK k \in bad : \A o \in bad : k <= o
      <4>1. bad \in SUBSET Nat
        OBVIOUS
      <4> HIDE DEF bad
      <4> QED
        BY <2>1, <4>1, LeastElement
    <3>2. k \in Nat /\ Parts(k) = {}
      OBVIOUS
    <3>3. CASE k = 0
      <4> DEFINE i == [t \in Upto(0) |-> 0]
      <4>1. \A t \in Upto(0) : t = {}
        BY <1>4
      <4>2. i \in Parts(0)
        BY <4>1
      <4> HIDE DEF Parts
      <4> QED
        BY <3>2, <3>3, <4>2
    <3>4. CASE k # 0
      <4>1. k - 1 \in Nat /\ ~(k <= k - 1)
        BY <3>2, <3>4
      <4>2. PICK j : j \in Parts(k - 1)
        <5> HIDE DEF Parts
        <5> QED
          BY <3>1, <4>1
      <4>3. /\ j \in [Upto(k - 1) -> Nat]
            /\ \A t \in Upto(k - 1) :
                 j[t] = IF t = {} THEN 0 ELSE w(pick(t)) + j[t \ {pick(t)}]
        BY <4>2
      <4> DEFINE Value(t) == IF t = {} THEN 0 ELSE w(pick(t)) + j[t \ {pick(t)}]
                 i == [t \in Upto(k) |-> Value(t)]
      <4>4. ASSUME NEW t \in Upto(k)
            PROVE  Value(t) \in Nat
        <5>1. CASE t = {}
          BY <5>1
        <5>2. CASE t # {}
          <6>1. t \ {pick(t)} \in Upto(k - 1) /\ w(pick(t)) \in Nat
            BY <1>4, <3>2, <5>2
          <6> HIDE DEF Upto
          <6>2. j[t \ {pick(t)}] \in Nat
            BY <4>3, <6>1
          <6> QED
            BY <5>2, <6>1, <6>2
        <5> QED
          BY <5>1, <5>2
      <4>5. ASSUME NEW t \in Upto(k), t # {}
            PROVE  i[t \ {pick(t)}] = j[t \ {pick(t)}]
        <5> DEFINE u == t \ {pick(t)}
        <5>1. u \in Upto(k - 1)
          BY <1>4, <3>2, <4>5
        <5>2. u \in Upto(k)
          BY <1>3, <3>2, <5>1
        <5> HIDE DEF u
        <5>3. i[u] = Value(u)
          BY <5>2
        <5>4. j[u] = Value(u)
          BY <4>3, <5>1
        <5> QED
          BY <5>3, <5>4 DEF u
      <4>6. i \in [Upto(k) -> Nat]
        BY <4>4
      <4>7. ASSUME NEW t \in Upto(k)
            PROVE  i[t] = IF t = {} THEN 0 ELSE w(pick(t)) + i[t \ {pick(t)}]
        BY <4>5
      <4> HIDE DEF i
      <4>8. i \in Parts(k)
        BY <4>6, <4>7
      <4> HIDE DEF Parts
      <4> QED
        BY <3>2, <4>8
    <3> QED
      BY <3>3, <3>4
  <2> HIDE DEF Parts
  <2> QED
    BY <2>1
<1>6. \E i : Sums(i)
  <2> DEFINE n == Cardinality(syms)
  <2>1. n \in Nat /\ Upto(n) = SUBSET syms
    BY <1>2, <1>3, FS_CardinalityType
  <2>2. PICK i : i \in Parts(n)
    <3> HIDE DEF Parts, n
    <3> QED
      BY <1>5, <2>1
  <2> HIDE DEF n
  <2>3. /\ i \in [SUBSET syms -> Nat]
        /\ \A t \in SUBSET syms :
             i[t] = IF t = {} THEN 0 ELSE w(pick(t)) + i[t \ {pick(t)}]
    BY <2>1, <2>2
  <2>4. Sums(i)
    BY <2>3
  <2> QED
    BY <2>4
<1>7. Sums(iter)
  <2> HIDE DEF Sums
  <2> QED
    BY <1>6
<1>8. iter[syms] \in Nat
  <2> HIDE DEF iter
  <2>1. \A t \in SUBSET syms :
          iter[t] = IF t = {} THEN 0 ELSE w(pick(t)) + iter[t \ {pick(t)}]
    BY <1>7
  <2> DEFINE bad == {n \in Nat : \E t \in SUBSET syms :
                                   Cardinality(t) = n /\ iter[t] \notin Nat}
  <2>2. ASSUME bad # {}
        PROVE  FALSE
    <3>1. PICK n \in bad : \A o \in bad : n <= o
      <4>1. bad \in SUBSET Nat
        OBVIOUS
      <4> HIDE DEF bad
      <4> QED
        BY <2>2, <4>1, LeastElement
    <3>2. PICK t \in SUBSET syms : Cardinality(t) = n /\ iter[t] \notin Nat
      OBVIOUS
    <3>3. t # {} /\ iter[t] = w(pick(t)) + iter[t \ {pick(t)}]
      BY <2>1, <3>2
    <3>4. /\ pick(t) \in syms /\ t \ {pick(t)} \in SUBSET syms /\ n \in Nat
          /\ Cardinality(t \ {pick(t)}) = n - 1 /\ n # 0
      BY <1>3, <3>2, <3>3
    <3>5. n - 1 \in Nat /\ ~(n <= n - 1)
      BY <3>4
    <3>6. iter[t \ {pick(t)}] \in Nat
      BY <3>1, <3>4, <3>5
    <3> QED
      BY <1>2, <3>2, <3>3, <3>4, <3>6
  <2>3. syms \in SUBSET syms /\ Cardinality(syms) \in Nat
    BY <1>2, FS_CardinalityType
  <2> QED
    BY <2>2, <2>3
<1>9. \A n \in Nat : Even(n) \in Nat
  BY DEF Even
<1> HIDE DEF iter
<1>10. SymbolTableSize(syms) = Even(HeaderSize + 4 + iter[syms])
  BY <1>1, Zenon DEF SymbolTableSize
<1>11. HeaderSize + 4 + iter[syms] \in Nat
  BY <1>8 DEF HeaderSize
<1> QED
  BY <1>9, <1>10, <1>11

-----------------------------------------------------------------------------
(* The directory of long names                                             *)

LEMMA EntrySizesTyped ==
  ASSUME NEW dir \in Seq(Names)
  PROVE  /\ Len(dir) \in Nat /\ DOMAIN dir = 1..Len(dir)
         /\ \A k \in 1..Len(dir) : dir[k] \in Names
         /\ EntrySizes(dir) \in [1..Len(dir) -> Nat]
         /\ \A k \in 1..Len(dir) : EntrySizes(dir)[k] = NameSize[dir[k]] + 2
         /\ \A k \in 1..Len(dir) : EntrySizes(dir)[k] > 0
<1>1. /\ Len(dir) \in Nat /\ DOMAIN dir = 1..Len(dir)
      /\ \A k \in 1..Len(dir) : dir[k] \in Names
  BY LenProperties, ElementOfSeq
<1>2. \A n \in Names : NameSize[n] + 2 \in Nat /\ NameSize[n] + 2 > 0
  BY ArioAssumption
<1> QED
  BY <1>1, <1>2 DEF EntrySizes

(* Every entry has a location of its own, inside the directory.            *)
LEMMA LocationsDiffer ==
  ASSUME NEW dir \in Seq(Names)
  PROVE  /\ DirectorySize(dir) \in Nat
         /\ \A k \in 1..Len(dir) : Location(dir, k) < DirectorySize(dir)
         /\ \A k, l \in 1..Len(dir) :
              Location(dir, k) = Location(dir, l) => k = l
<1> DEFINE e == EntrySizes(dir)
           n == Len(dir)
<1>1. n \in Nat /\ e \in [1..n -> Nat] /\ \A k \in 1..n : e[k] > 0
  BY EntrySizesTyped
<1> HIDE DEF e, n
<1>2. /\ \A a \in 0..n : SumTo(e, a) \in Nat
      /\ \A a, b \in 0..n : a < b => SumTo(e, a) < SumTo(e, b)
  BY <1>1, SumToFacts, SumToGrows
<1>3. /\ \A k \in 1..n : Location(dir, k) = SumTo(e, k - 1)
      /\ DirectorySize(dir) = SumTo(e, n)
  BY DEF Location, DirectorySize, e, n
<1>4. n \in 0..n /\ \A k \in 1..n : k - 1 \in 0..n /\ k - 1 < n
  BY <1>1
<1>5. ASSUME NEW k \in 1..n, NEW l \in 1..n, k < l
      PROVE  Location(dir, k) < Location(dir, l)
  <2>1. k - 1 < l - 1
    BY <1>5
  <2> QED
    BY <1>2, <1>3, <1>4, <2>1
<1>6. \A k \in 1..n : Location(dir, k) \in Nat
  BY <1>2, <1>3, <1>4
<1>7. ASSUME NEW k \in 1..n, NEW l \in 1..n, Location(dir, k) = Location(dir, l)
      PROVE  k = l
  <2>1. ~(k < l)
    BY <1>5, <1>6, <1>7
  <2>2. ~(l < k)
    BY <1>5, <1>6, <1>7
  <2> QED
    BY <2>1, <2>2
<1> QED
  BY <1>2, <1>3, <1>4, <1>7 DEF n

(* One after the other: an entry ends where the next begins, or before.    *)
LEMMA LocationsInOrder ==
  ASSUME NEW dir \in Seq(Names)
  PROVE  /\ \A k \in 1..Len(dir) : Location(dir, k) \in Nat
         /\ \A k, l \in 1..Len(dir) :
              k < l => Location(dir, k) + EntrySizes(dir)[k] <= Location(dir, l)
<1> DEFINE e == EntrySizes(dir)
           n == Len(dir)
<1>1. n \in Nat /\ e \in [1..n -> Nat] /\ \A k \in 1..n : e[k] > 0
  BY EntrySizesTyped
<1>2. \A k : Location(dir, k) = SumTo(e, k - 1)
  BY DEF Location
<1> HIDE DEF e, n
<1>3. /\ \A a \in 0..n : SumTo(e, a) \in Nat
      /\ \A a, b \in 0..n : a < b => SumTo(e, a) < SumTo(e, b)
      /\ \A k \in 1..n : SumTo(e, k) = SumTo(e, k - 1) + e[k]
  BY <1>1, SumToFacts, SumToGrows
<1>4. \A k \in 1..n : k \in 0..n /\ k - 1 \in 0..n
  BY <1>1
<1>5. ASSUME NEW k \in 1..n, NEW l \in 1..n, k < l
      PROVE  Location(dir, k) + e[k] <= Location(dir, l)
  <2>1. k = l - 1 \/ k < l - 1
    BY <1>5
  <2>2. SumTo(e, k) <= SumTo(e, l - 1)
    BY <1>3, <1>4, <2>1
  <2> QED
    BY <1>2, <1>3, <2>2
<1>6. \A k \in 1..n : Location(dir, k) \in Nat
  BY <1>2, <1>3, <1>4
<1> QED
  BY <1>5, <1>6 DEF e, n

(* At most one entry covers a location, and its text is what is found.     *)
LEMMA LongNameCovered ==
  ASSUME NEW dir \in Seq(Names), NEW k \in 1..Len(dir), NEW loc \in Nat,
         Covers(dir, k, loc)
  PROVE  LongName(dir, loc) = TextAt(dir, k, loc - Location(dir, k))
<1>1. /\ DOMAIN dir = 1..Len(dir) /\ Len(dir) \in Nat
      /\ \A l \in 1..Len(dir) : EntrySizes(dir)[l] \in Nat
  BY EntrySizesTyped
<1>2. ASSUME NEW l \in 1..Len(dir), Covers(dir, l, loc)
      PROVE  l = k
  <2>1. ~(k < l) /\ ~(l < k)
    BY <1>1, <1>2, LocationsInOrder DEF Covers
  <2> QED
    BY <1>1, <2>1
<1>3. (CHOOSE l \in DOMAIN dir : Covers(dir, l, loc)) = k
  BY <1>1, <1>2
<1> QED
  BY <1>1, <1>3, Zenon DEF LongName

LEMMA NameOfTyped ==
  ASSUME NEW dir \in Seq(Names), NEW short \in Shorts
  PROVE  NameOf(dir, short) \in Texts \cup {None}
<1>1. /\ DOMAIN dir = 1..Len(dir) /\ Len(dir) \in Nat
      /\ \A k \in 1..Len(dir) : dir[k] \in Names /\ NameSize[dir[k]] \in Nat
  BY EntrySizesTyped, ArioAssumption
<1>2. ASSUME NEW k \in 1..Len(dir), NEW d \in Nat
      PROVE  TextAt(dir, k, d) \in Texts \cup {None}
  <2>1. CASE d < NameSize[dir[k]]
    <3>1. d \in 0..NameSize[dir[k]] - 1
      BY <1>1, <2>1
    <3> QED
      BY <1>1, <2>1, <3>1, ArioAssumption DEF TextAt
  <2>2. CASE ~(d < NameSize[dir[k]]) /\ k < Len(dir)
    <3>1. dir[k + 1] \in Names
      BY <1>1, <2>2
    <3> QED
      BY <2>2, <3>1, ArioAssumption DEF TextAt
  <2>3. CASE ~(d < NameSize[dir[k]]) /\ ~(k < Len(dir))
    BY <2>3 DEF TextAt
  <2> QED
    BY <2>1, <2>2, <2>3
<1>3. ASSUME NEW loc \in Nat
      PROVE  LongName(dir, loc) \in Texts \cup {None}
  <2>1. CASE \E k \in DOMAIN dir : Covers(dir, k, loc)
    <3>1. PICK k \in 1..Len(dir) : Covers(dir, k, loc)
      BY <1>1, <2>1
    <3>2. loc - Location(dir, k) \in Nat
      BY <3>1, LocationsInOrder DEF Covers
    <3> QED
      BY <1>2, <3>1, <3>2, LongNameCovered
  <2>2. CASE ~\E k \in DOMAIN dir : Covers(dir, k, loc)
    BY <2>2 DEF LongName
  <2> QED
    BY <2>1, <2>2
<1>4. CASE short.long
  <2>1. short.location \in Nat
    BY <1>4 DEF Shorts
  <2> QED
    BY <1>3, <1>4, <2>1 DEF NameOf
<1>5. CASE ~short.long
  <2>1. short.name \in Texts
    BY <1>5, ArioAssumption DEF Shorts
  <2> QED
    BY <1>5, <2>1 DEF NameOf
<1> QED
  BY <1>4, <1>5

(* At its start an entry gives its name.                                   *)
LEMMA LongNameFound ==
  ASSUME NEW dir \in Seq(Names), NEW k \in 1..Len(dir)
  PROVE  LongName(dir, Location(dir, k)) = dir[k]
<1>1. /\ dir[k] \in Names /\ NameSize[dir[k]] \in Nat \ {0}
      /\ EntrySizes(dir)[k] = NameSize[dir[k]] + 2
      /\ Location(dir, k) \in Nat
  BY EntrySizesTyped, LocationsInOrder, ArioAssumption
<1>2. Covers(dir, k, Location(dir, k))
  BY <1>1 DEF Covers
<1>3. LongName(dir, Location(dir, k)) = TextAt(dir, k, 0)
  <2>1. Location(dir, k) - Location(dir, k) = 0
    BY <1>1
  <2> QED
    BY <1>1, <1>2, <2>1, LongNameCovered
<1>4. TextAt(dir, k, 0) = Suffix(dir[k], 0)
  BY <1>1 DEF TextAt
<1> QED
  BY <1>1, <1>3, <1>4, ArioAssumption

(* A name added at the end leaves the others at their locations.           *)
LEMMA DirectoryAppended ==
  ASSUME NEW dir \in Seq(Names), NEW n \in Names
  PROVE  /\ Append(dir, n) \in Seq(Names)
         /\ LongName(Append(dir, n), DirectorySize(dir)) = n
         /\ \A loc \in Nat : LongName(dir, loc) # None =>
              LongName(Append(dir, n), loc) = LongName(dir, loc)
<1> DEFINE new == Append(dir, n)
           size == Len(dir)
<1>1. /\ new \in Seq(Names) /\ size \in Nat /\ Len(new) = size + 1
      /\ \A k \in 1..size : new[k] = dir[k]
      /\ new[size + 1] = n
  BY AppendProperties, LenProperties
<1>2. DOMAIN dir = 1..size
  BY LenProperties
<1> HIDE DEF new
<1>3. ASSUME NEW k \in 1..size + 1
      PROVE  SumTo(EntrySizes(new), k - 1) = SumTo(EntrySizes(dir), k - 1)
  <2> DEFINE f == EntrySizes(new)
             g == EntrySizes(dir)
             i == k - 1
  <2>1. f \in [1..size + 1 -> Nat] /\ g \in [1..size -> Nat]
    BY <1>1, EntrySizesTyped
  <2>2. i \in Nat /\ i <= size + 1 /\ i <= size /\ size + 1 \in Nat
    BY <1>1
  <2>3. \A j \in 1..i : j \in 1..size /\ j \in 1..size + 1
    BY <1>1, <2>2
  <2>4. \A j \in 1..i : f[j] = g[j]
    BY <1>1, <2>3, EntrySizesTyped
  <2> HIDE DEF f, g, i, size
  <2>5. size \in Nat /\ AgreeTo(f, g, i)
    BY <1>1, <2>4 DEF AgreeTo
  <2>6. SumTo(f, i) = SumTo(g, i)
    BY <2>1, <2>2, <2>5, SumToSame
  <2> QED
    BY <2>6 DEF f, g, i
<1>4. size + 1 \in 1..size + 1 /\ size + 1 - 1 = size
  BY <1>1
<1>5. Location(new, size + 1) = DirectorySize(dir)
  BY <1>3, <1>4 DEF Location, DirectorySize
<1>6. ASSUME NEW k \in 1..size
      PROVE  Location(new, k) = Location(dir, k)
  BY <1>1, <1>3 DEF Location
<1>7. LongName(new, DirectorySize(dir)) = n
  BY <1>1, <1>4, <1>5, LongNameFound
<1>8. ASSUME NEW loc \in Nat, LongName(dir, loc) # None
      PROVE  LongName(new, loc) = LongName(dir, loc)
  <2>1. PICK k \in 1..size : Covers(dir, k, loc)
    <3>1. ~(\E l \in DOMAIN dir : Covers(dir, l, loc)) => LongName(dir, loc) = None
      BY Zenon DEF LongName
    <3> QED
      BY <1>2, <1>8, <3>1
  <2>2. k \in 1..size + 1 /\ new[k] = dir[k] /\ Location(new, k) = Location(dir, k)
    BY <1>1, <1>6
  <2>3. EntrySizes(new)[k] = EntrySizes(dir)[k]
    BY <1>1, <2>2, EntrySizesTyped
  <2>4. Covers(new, k, loc)
    BY <2>1, <2>2, <2>3 DEF Covers
  <2> DEFINE d == loc - Location(dir, k)
  <2>5. LongName(dir, loc) = TextAt(dir, k, d)
    BY <2>1, LongNameCovered
  <2>6. LongName(new, loc) = TextAt(new, k, d)
    BY <1>1, <2>2, <2>4, LongNameCovered
  <2> HIDE DEF d
  <2>7. k < size => new[k + 1] = dir[k + 1] /\ k < Len(new)
    BY <1>1
  <2>8. TextAt(dir, k, d) # None =>
          \/ d < NameSize[dir[k]]
          \/ ~(d < NameSize[dir[k]]) /\ d > NameSize[dir[k]] /\ k < size
    BY DEF TextAt
  <2>9. ASSUME d < NameSize[dir[k]]
        PROVE  TextAt(new, k, d) = TextAt(dir, k, d)
    BY <2>2, <2>9 DEF TextAt
  <2>10. ASSUME ~(d < NameSize[dir[k]]), d > NameSize[dir[k]], k < size
         PROVE  TextAt(new, k, d) = TextAt(dir, k, d)
    BY <2>2, <2>7, <2>10 DEF TextAt
  <2>11. TextAt(new, k, d) = TextAt(dir, k, d)
    BY <1>8, <2>5, <2>8, <2>9, <2>10
  <2> QED
    BY <2>5, <2>6, <2>11
<1> QED
  BY <1>1, <1>7, <1>8 DEF new

-----------------------------------------------------------------------------
(* Positions in a file                                                     *)

EntryRecords == [short : Shorts, size : Nat, data : Contents \cup {Unknown}]

(* The room that entries of sizes f[1], f[2], ... take                     *)
Rooms(entries) ==
  [e \in DOMAIN entries |-> HeaderSize + Even(entries[e].size)]

LEMMA RoomsPositive ==
  ASSUME NEW entries, NEW n \in Nat, DOMAIN entries = 1..n,
         \A k \in 1..n : entries[k].size \in Nat
  PROVE  /\ Rooms(entries) \in [1..n -> Nat]
         /\ \A k \in 1..n : Rooms(entries)[k] > 0
<1>1. \A k \in 1..n : LET r == HeaderSize + Even(entries[k].size)
                      IN r \in Nat /\ r > 0
  BY DEF HeaderSize, Even
<1> QED
  BY <1>1 DEF Rooms

(* Where the members of f begin                                            *)
FirstPos(f) ==
  MagicSize
    + (IF DOMAIN f.symbols = {} THEN 0 ELSE SymbolTableSize(DOMAIN f.symbols))
    + (IF f.directory = <<>> THEN 0 ELSE LongNamesDirSize(f.directory))

LEMMA FilePositions ==
  ASSUME NEW f, DOMAIN f.symbols \subseteq Symbols, f.directory \in Seq(Names),
         NEW n \in Nat, DOMAIN f.entries = 1..n,
         \A k \in 1..n : f.entries[k].size \in Nat
  PROVE  /\ FirstPos(f) \in Nat
         /\ \A k \in 1..n : /\ FilePos(f, k) \in Nat
                            /\ FilePos(f, k) = FirstPos(f)
                                 + SumTo(Rooms(f.entries), k - 1)
         /\ \A k, l \in 1..n : FilePos(f, k) = FilePos(f, l) => k = l
<1> DEFINE r == Rooms(f.entries)
           first == FirstPos(f)
<1>1. r \in [1..n -> Nat] /\ \A k \in 1..n : r[k] > 0
  BY RoomsPositive
<1>2. first \in Nat
  <2>1. SymbolTableSize(DOMAIN f.symbols) \in Nat
    BY TableSizeIsNumber
  <2>2. DirectorySize(f.directory) \in Nat
    BY LocationsDiffer
  <2>3. LongNamesDirSize(f.directory) \in Nat
    BY <2>2 DEF LongNamesDirSize, HeaderSize, Even
  <2> QED
    BY <2>1, <2>3 DEF FirstPos, MagicSize
<1>3. \A k : FilePos(f, k) = first + SumTo(r, k - 1)
  BY DEF FilePos, FirstPos, Rooms
<1> HIDE DEF r, first
<1>4. /\ \A a \in 0..n : SumTo(r, a) \in Nat
      /\ \A a, b \in 0..n : a < b => SumTo(r, a) < SumTo(r, b)
  BY <1>1, SumToFacts, SumToGrows
<1>5. \A k \in 1..n : k - 1 \in 0..n /\ k \in Nat
  OBVIOUS
<1>6. \A k \in 1..n : FilePos(f, k) \in Nat
  BY <1>2, <1>3, <1>4, <1>5
<1>7. ASSUME NEW k \in 1..n, NEW l \in 1..n, k < l
      PROVE  FilePos(f, k) < FilePos(f, l)
  <2>1. k - 1 < l - 1
    BY <1>5, <1>7
  <2>2. SumTo(r, k - 1) < SumTo(r, l - 1)
    BY <1>4, <1>5, <2>1
  <2> QED
    BY <1>2, <1>3, <1>4, <1>5, <2>2
<1>8. ASSUME NEW k \in 1..n, NEW l \in 1..n, FilePos(f, k) = FilePos(f, l)
      PROVE  k = l
  <2>1. ~(k < l) /\ ~(l < k)
    BY <1>6, <1>7, <1>8
  <2> QED
    BY <2>1
<1> QED
  BY <1>2, <1>3, <1>6, <1>8 DEF r, first

-----------------------------------------------------------------------------
(* Loading                                                                 *)

MemberRecords ==
  [name : Texts, short : Shorts, size : Nat, data : Contents \cup {Unknown},
   filepos : Nat, cut : BOOLEAN, new : BOOLEAN]

LEMMA FileTyped ==
  ASSUME NEW f, IsFile(f)
  PROVE  /\ DOMAIN f.symbols \subseteq Symbols
         /\ f.symbols \in [DOMAIN f.symbols -> Nat]
         /\ f.directory \in Seq(Names)
         /\ Len(f.entries) \in Nat /\ DOMAIN f.entries = 1..Len(f.entries)
         /\ \A k \in 1..Len(f.entries) :
              /\ f.entries[k].short \in Shorts /\ f.entries[k].size \in Nat
              /\ f.entries[k].data \in Contents \cup {Unknown}
<1>1. /\ DOMAIN f.symbols \subseteq Symbols
      /\ f.symbols \in [DOMAIN f.symbols -> Nat]
      /\ f.directory \in Seq(Names) /\ f.entries \in Seq(EntryRecords)
  BY DEF IsFile, EntryRecords
<1>2. /\ Len(f.entries) \in Nat /\ DOMAIN f.entries = 1..Len(f.entries)
      /\ \A k \in 1..Len(f.entries) : f.entries[k] \in EntryRecords
  BY <1>1, LenProperties, ElementOfSeq
<1>3. \A e \in EntryRecords : /\ e.short \in Shorts /\ e.size \in Nat
                              /\ e.data \in Contents \cup {Unknown}
  BY DEF EntryRecords
<1> QED
  BY <1>1, <1>2, <1>3

(* load_members() stops before the first name it cannot convert.           *)
LEMMA AcceptedHaveNames ==
  ASSUME NEW f, IsFile(f), NEW dir \in Seq(Names)
  PROVE  /\ Accepted(f, dir) \in 0..Len(f.entries)
         /\ \A k \in 1..Accepted(f, dir) :
              NameOf(dir, f.entries[k].short) \in Texts
<1> DEFINE bad == {k \in DOMAIN f.entries :
                     NameOf(dir, f.entries[k].short) = None}
           first == CHOOSE k \in bad : \A l \in bad : k <= l
           n == Len(f.entries)
<1>1. /\ n \in Nat /\ DOMAIN f.entries = 1..n
      /\ \A k \in 1..n : f.entries[k].short \in Shorts
  BY FileTyped
<1>2. \A k \in 1..n : NameOf(dir, f.entries[k].short) \in Texts \cup {None}
  BY <1>1, NameOfTyped
<1>3. Accepted(f, dir) = IF bad = {} THEN n ELSE first - 1
  BY DEF Accepted
<1>4. CASE bad = {}
  <2>1. \A k \in 1..n : NameOf(dir, f.entries[k].short) # None
    BY <1>1, <1>4
  <2> HIDE DEF bad, n, first
  <2> QED
    BY <1>1, <1>2, <1>3, <1>4, <2>1 DEF n
<1>5. CASE bad # {}
  <2>1. bad \in SUBSET Nat
    BY <1>1
  <2>2. \E k \in bad : \A l \in bad : k <= l
    <3> HIDE DEF bad
    <3> QED
      BY <1>5, <2>1, LeastElement
  <2>3. first \in bad /\ \A l \in bad : first <= l
    <3> HIDE DEF bad
    <3> QED
      BY <2>2
  <2> HIDE DEF first
  <2>4. first \in 1..n
    BY <1>1, <2>3
  <2>5. ASSUME NEW k \in 1..first - 1
        PROVE  NameOf(dir, f.entries[k].short) \in Texts
    <3>1. k \in 1..n /\ ~(first <= k)
      BY <1>1, <2>4
    <3>2. k \notin bad
      BY <2>3, <3>1
    <3> QED
      BY <1>1, <1>2, <3>1, <3>2
  <2> QED
    BY <1>1, <1>3, <1>5, <2>4, <2>5
<1> QED
  BY <1>4, <1>5

LEMMA LoadedTyped ==
  ASSUME NEW f, IsFile(f), NEW dir \in Seq(Names)
  PROVE  /\ Loaded(f, dir) \in Seq(MemberRecords)
         /\ Len(Loaded(f, dir)) = Accepted(f, dir)
         /\ Accepted(f, dir) \in 0..Len(f.entries)
         /\ DOMAIN Loaded(f, dir) = 1..Accepted(f, dir)
         /\ \A k \in 1..Accepted(f, dir) :
              LET m == Loaded(f, dir)[k]
              IN /\ m.name = NameOf(dir, f.entries[k].short)
                 /\ m.short = f.entries[k].short
                 /\ m.data = f.entries[k].data
                 /\ m.filepos = FilePos(f, k)
<1> DEFINE a == Accepted(f, dir)
           ms == Loaded(f, dir)
<1>1. /\ DOMAIN f.symbols \subseteq Symbols /\ f.directory \in Seq(Names)
      /\ Len(f.entries) \in Nat /\ DOMAIN f.entries = 1..Len(f.entries)
      /\ \A k \in 1..Len(f.entries) :
           /\ f.entries[k].short \in Shorts /\ f.entries[k].size \in Nat
           /\ f.entries[k].data \in Contents \cup {Unknown}
  BY FileTyped
<1>2. /\ a \in 0..Len(f.entries)
      /\ \A k \in 1..a : NameOf(dir, f.entries[k].short) \in Texts
  BY AcceptedHaveNames
<1>3. \A k \in 1..Len(f.entries) : FilePos(f, k) \in Nat
  BY <1>1, FilePositions
<1>4. a \in Nat /\ \A k \in 1..a : k \in 1..Len(f.entries)
  BY <1>1, <1>2
<1> HIDE DEF a
<1>5. ASSUME NEW k \in 1..a
      PROVE  /\ ms[k] \in MemberRecords
             /\ ms[k].name = NameOf(dir, f.entries[k].short)
             /\ ms[k].short = f.entries[k].short
             /\ ms[k].data = f.entries[k].data
             /\ ms[k].filepos = FilePos(f, k)
  <2> DEFINE e == f.entries[k]
             c == f.tail = "cut" /\ k = Len(f.entries) /\ e.size > 0
  <2>1. ms[k] = Member(NameOf(dir, e.short), e.short, e.size, e.data,
                       FilePos(f, k), c, FALSE)
    BY DEF Loaded, a
  <2>2. /\ e.short \in Shorts /\ e.size \in Nat
        /\ e.data \in Contents \cup {Unknown} /\ c \in BOOLEAN
        /\ NameOf(dir, e.short) \in Texts /\ FilePos(f, k) \in Nat
    BY <1>1, <1>2, <1>3, <1>4
  <2> HIDE DEF e, c
  <2>3. /\ ms[k] \in MemberRecords /\ ms[k].name = NameOf(dir, e.short)
        /\ ms[k].short = e.short /\ ms[k].data = e.data
        /\ ms[k].filepos = FilePos(f, k)
    BY <2>1, <2>2 DEF Member, MemberRecords
  <2> QED
    BY <2>3 DEF e
<1>6. DOMAIN ms = 1..a /\ ms = [k \in 1..a |-> ms[k]]
  BY DEF Loaded, a
<1> HIDE DEF ms
<1>7. ms \in [1..a -> MemberRecords]
  BY <1>5, <1>6
<1>8. ms \in Seq(MemberRecords)
  BY <1>4, <1>7, IsASeq
<1>9. Len(ms) = a
  BY <1>4, <1>6, <1>8, LenProperties
<1> QED
  BY <1>2, <1>5, <1>6, <1>8, <1>9 DEF ms, a

(* Locations become the indexes of members, or 0.                          *)
LEMMA SubstitutedIndexes ==
  ASSUME NEW ms, NEW n \in Nat, DOMAIN ms = 1..n, NEW table
  PROVE  /\ DOMAIN Substituted(ms, table) = DOMAIN table
         /\ Substituted(ms, table) \in [DOMAIN table -> Nat]
         /\ \A s \in DOMAIN table : \/ Substituted(ms, table)[s] \in 0..n - 1
                                    \/ n = 0 /\ Substituted(ms, table)[s] = 0
<1> DEFINE at(s) == {k \in DOMAIN ms : ms[k].filepos = table[s]}
<1>1. ASSUME NEW s \in DOMAIN table
      PROVE  LET x == Substituted(ms, table)[s]
             IN x \in Nat /\ (x \in 0..n - 1 \/ (n = 0 /\ x = 0))
  <2>1. CASE at(s) = {}
    BY <2>1 DEF Substituted
  <2>2. CASE at(s) # {}
    <3> DEFINE k == CHOOSE k \in DOMAIN ms : ms[k].filepos = table[s]
    <3>1. k \in 1..n
      BY <2>2
    <3>2. Substituted(ms, table)[s] = k - 1
      BY <2>2 DEF Substituted
    <3> HIDE DEF k
    <3> QED
      BY <3>1, <3>2
  <2> QED
    BY <2>1, <2>2
<1>2. DOMAIN Substituted(ms, table) = DOMAIN table
  BY DEF Substituted
<1>3. Substituted(ms, table) = [s \in DOMAIN table |-> Substituted(ms, table)[s]]
  BY DEF Substituted
<1> QED
  BY <1>1, <1>2, <1>3

-----------------------------------------------------------------------------
(* The inductive invariant and the actions                                 *)

ArioInv == ArioTypeOK /\ NamesResolve /\ IndexesInRange

LEMMA MembersTyped ==
  ASSUME ArioTypeOK
  PROVE  /\ members \in Seq(MemberRecords) /\ Len(members) \in Nat
         /\ DOMAIN members = 1..Len(members)
         /\ \A k \in DOMAIN members :
              /\ members[k] \in MemberRecords
              /\ members[k].name \in Texts /\ members[k].name # None
              /\ members[k].short \in Shorts /\ members[k].size \in Nat
              /\ members[k].data \in Contents \cup {Unknown}
         /\ \A x \in Indexes : x + 1 \in DOMAIN members /\ x \in Nat
         /\ Indexes # {} => Len(members) > 0
<1>1. members \in Seq(MemberRecords)
  BY DEF ArioTypeOK, MemberRecords
<1>2. Len(members) \in Nat /\ DOMAIN members = 1..Len(members)
  BY <1>1, LenProperties
<1>3. ASSUME NEW k \in DOMAIN members
      PROVE  members[k] \in MemberRecords
  BY <1>1, <1>2, <1>3, ElementOfSeq
<1>4. \A m \in MemberRecords : /\ m.name \in Texts /\ m.name # None
                               /\ m.short \in Shorts /\ m.size \in Nat
                               /\ m.data \in Contents \cup {Unknown}
  BY ArioAssumption DEF MemberRecords
<1>5. \A x \in Indexes : x + 1 \in DOMAIN members /\ x \in Nat
  BY <1>2 DEF Indexes
<1>6. Indexes # {} => Len(members) > 0
  BY <1>2 DEF Indexes
<1> QED
  BY <1>1, <1>2, <1>3, <1>4, <1>5, <1>6

LEMMA ArioInitially ==
  ASSUME Init
  PROVE  ArioInv
<1>1. /\ members = <<>> /\ string_table = <<>> /\ source = None
      /\ stream_good = TRUE /\ saves = 0 /\ clean = TRUE
      /\ symbol_table = <<>> /\ disk \in Disks
  BY DEF Init
<1>2. DOMAIN symbol_table = {} /\ DOMAIN members = {}
  BY <1>1
<1>3. DOMAIN disk = Files /\ \A x \in Files : disk[x] = None \/ IsFile(disk[x])
  BY <1>1, DisksAssumption
<1>4. members \in Seq(MemberRecords) /\ string_table \in Seq(Names)
  BY <1>1
<1>5. symbol_table \in [DOMAIN symbol_table -> Nat]
  BY <1>1, <1>2
<1>6. MaxSaves \in Nat
  BY ArioAssumption
<1>7. ArioTypeOK
  BY <1>1, <1>2, <1>3, <1>4, <1>5, <1>6 DEF ArioTypeOK, MemberRecords
<1> QED
  BY <1>2, <1>7 DEF ArioInv, NamesResolve, IndexesInRange

LEMMA LoadAlienKeeps ==
  ASSUME ArioInv, NEW x \in Files, LoadAlien(x)
  PROVE  ArioInv'
<1>1. /\ members' = <<>> /\ source' = x /\ stream_good' \in BOOLEAN /\ clean' = FALSE
      /\ UNCHANGED <<disk, symbol_table, string_table, saves>>
  BY DEF LoadAlien
<1>2. members' \in Seq(MemberRecords) /\ DOMAIN members' = {}
  BY <1>1
<1>3. ArioTypeOK'
  BY <1>1, <1>2 DEF ArioInv, ArioTypeOK, MemberRecords
<1>4. NamesResolve' /\ IndexesInRange'
  BY <1>1, <1>2 DEF NamesResolve, IndexesInRange
<1> QED
  BY <1>3, <1>4 DEF ArioInv

LEMMA LoadKeeps ==
  ASSUME ArioInv, NEW x \in Files, Load(x)
  PROVE  ArioInv'
<1> DEFINE f == disk[x]
           dir == Directory(f)
           table == Overlaid(symbol_table, f.symbols)
           ms == Loaded(f, dir)
           n == Accepted(f, dir)
<1>1. /\ f # None /\ members' = ms /\ string_table' = dir
      /\ symbol_table' = IF Complete(f, dir) THEN Substituted(ms, table) ELSE table
      /\ clean' = Complete(f, dir) /\ stream_good' = ~Stuck(f, dir)
      /\ source' = x /\ UNCHANGED <<disk, saves>>
  BY DEF Load
<1>2. IsFile(f) /\ string_table \in Seq(Names)
  BY <1>1 DEF ArioInv, ArioTypeOK
<1> HIDE DEF f
<1>3. /\ DOMAIN f.symbols \subseteq Symbols
      /\ f.symbols \in [DOMAIN f.symbols -> Nat]
      /\ f.directory \in Seq(Names)
  BY <1>2, FileTyped
<1>4. dir \in Seq(Names)
  BY <1>2, <1>3 DEF Directory
<1>5. /\ DOMAIN table \subseteq Symbols /\ table \in [DOMAIN table -> Nat]
  BY <1>3 DEF ArioInv, ArioTypeOK, Overlaid
<1> HIDE DEF dir, table
<1>6. /\ ms \in Seq(MemberRecords) /\ Len(ms) = n /\ n \in 0..Len(f.entries)
      /\ DOMAIN ms = 1..n /\ n \in Nat
      /\ \A k \in 1..n : ms[k].name = NameOf(dir, ms[k].short)
  <2>1. Len(f.entries) \in Nat
    BY <1>2, FileTyped
  <2>2. /\ ms \in Seq(MemberRecords) /\ Len(ms) = n /\ n \in 0..Len(f.entries)
        /\ DOMAIN ms = 1..n
        /\ \A k \in 1..n : /\ ms[k].name = NameOf(dir, f.entries[k].short)
                           /\ ms[k].short = f.entries[k].short
    BY <1>2, <1>4, LoadedTyped
  <2> HIDE DEF ms, n
  <2> QED
    BY <2>1, <2>2
<1>7. Stuck(f, dir) \in BOOLEAN /\ Complete(f, dir) \in BOOLEAN
  BY DEF Stuck, Complete
<1> HIDE DEF ms, n
<1>8. /\ DOMAIN Substituted(ms, table) = DOMAIN table
      /\ Substituted(ms, table) \in [DOMAIN table -> Nat]
      /\ \A s \in DOMAIN table : \/ Substituted(ms, table)[s] \in 0..n - 1
                                 \/ n = 0 /\ Substituted(ms, table)[s] = 0
  BY <1>6, SubstitutedIndexes
<1>9. /\ DOMAIN symbol_table' \subseteq Symbols
      /\ symbol_table' \in [DOMAIN symbol_table' -> Nat]
  BY <1>1, <1>5, <1>8
<1>10. clean' \in BOOLEAN /\ stream_good' \in BOOLEAN
  BY <1>1, <1>7
<1>11. ArioTypeOK'
  BY <1>1, <1>4, <1>6, <1>9, <1>10 DEF ArioInv, ArioTypeOK, MemberRecords
<1>12. NamesResolve'
  BY <1>1, <1>6 DEF NamesResolve
<1>13. IndexesInRange'
  <2> SUFFICES ASSUME clean', NEW s \in DOMAIN symbol_table'
               PROVE  \/ symbol_table'[s] \in 0..Len(members') - 1
                      \/ members' = <<>> /\ symbol_table'[s] = 0
    BY DEF IndexesInRange, Indexes
  <2>1. symbol_table' = Substituted(ms, table) /\ s \in DOMAIN table
    BY <1>1, <1>8
  <2>2. CASE symbol_table'[s] \in 0..n - 1
    BY <1>1, <1>6, <2>2
  <2>3. CASE n = 0 /\ symbol_table'[s] = 0
    <3>1. members' = <<>>
      BY <1>1, <1>6, <2>3, EmptySeq
    <3> QED
      BY <2>3, <3>1
  <2> QED
    BY <1>8, <2>1, <2>2, <2>3
<1> QED
  BY <1>11, <1>12, <1>13 DEF ArioInv

(* The indexes of members stay when one is added.                          *)
LEMMA MemberAppended ==
  ASSUME ArioInv, NEW m \in MemberRecords, members' = Append(members, m),
         UNCHANGED <<symbol_table, clean>>
  PROVE  /\ members' \in Seq(MemberRecords) /\ IndexesInRange'
         /\ \A k \in DOMAIN members' :
              \/ k \in DOMAIN members /\ members'[k] = members[k]
              \/ members'[k] = m
<1>1. members \in Seq(MemberRecords) /\ Len(members) \in Nat
      /\ DOMAIN members = 1..Len(members)
  BY MembersTyped DEF ArioInv
<1>2. /\ members' \in Seq(MemberRecords) /\ Len(members') = Len(members) + 1
      /\ \A k \in 1..Len(members) : members'[k] = members[k]
      /\ members'[Len(members) + 1] = m
  BY <1>1, AppendProperties
<1>3. DOMAIN members' = 1..Len(members) + 1
  BY <1>2, LenProperties
<1>4. Indexes \subseteq Indexes'
  BY <1>1, <1>2 DEF Indexes
<1>5. IndexesInRange'
  <2>1. 0 \in Indexes'
    BY <1>1, <1>2 DEF Indexes
  <2> QED
    BY <1>4, <2>1 DEF ArioInv, IndexesInRange
<1>6. ASSUME NEW k \in DOMAIN members'
      PROVE  k \in DOMAIN members \/ k = Len(members) + 1
  BY <1>1, <1>3
<1> QED
  BY <1>1, <1>2, <1>5, <1>6

LEMMA AddMemberKeeps ==
  ASSUME ArioInv, NEW n \in Names, NEW c \in Contents, AddMember(n, c)
  PROVE  ArioInv'
<1>1. /\ UNCHANGED <<disk, symbol_table, source, stream_good, saves, clean>>
      /\ \/ /\ IsShort(n) /\ string_table' = string_table
            /\ members' = Append(members, Member(n, InHeader(n), Size[c], c, 0, FALSE, TRUE))
         \/ /\ string_table' = Append(string_table, n)
            /\ members' = Append(members, Member(n, InDirectory(DirectorySize(string_table)),
                                                 Size[c], c, 0, FALSE, TRUE))
  BY DEF AddMember, Appended
<1>2. string_table \in Seq(Names) /\ Size[c] \in Nat /\ NameSize[n] \in Nat
  BY ArioAssumption DEF ArioInv, ArioTypeOK
<1>3. DirectorySize(string_table) \in Nat
  BY <1>2, LocationsDiffer
<1>4. ASSUME NEW short \in Shorts
      PROVE  LET m == Member(n, short, Size[c], c, 0, FALSE, TRUE)
             IN m \in MemberRecords /\ m.name = n /\ m.short = short
  <2>1. n \in Texts
    BY ArioAssumption
  <2> QED
    BY <1>2, <2>1 DEF Member, MemberRecords
<1>5. InHeader(n) \in Shorts /\ InDirectory(DirectorySize(string_table)) \in Shorts
  BY <1>3 DEF InHeader, InDirectory, Shorts
<1>6. ASSUME NEW short \in Shorts, string_table' \in Seq(Names),
             members' = Append(members, Member(n, short, Size[c], c, 0, FALSE, TRUE)),
             NameOf(string_table', short) = n,
             \A s \in Shorts : NameOf(string_table, s) # None =>
               NameOf(string_table', s) = NameOf(string_table, s)
      PROVE  ArioInv'
  <2> DEFINE m == Member(n, short, Size[c], c, 0, FALSE, TRUE)
  <2>1. m \in MemberRecords /\ m.name = n /\ m.short = short
    BY <1>4
  <2>2. members' = Append(members, m)
    BY <1>6
  <2> HIDE DEF m
  <2>3. /\ members' \in Seq(MemberRecords) /\ IndexesInRange'
        /\ \A k \in DOMAIN members' :
             \/ k \in DOMAIN members /\ members'[k] = members[k]
             \/ members'[k] = m
    BY <1>1, <2>1, <2>2, MemberAppended
  <2>4. ArioTypeOK'
    BY <1>1, <1>6, <2>3 DEF ArioInv, ArioTypeOK, MemberRecords
  <2>5. ASSUME NEW k \in DOMAIN members'
        PROVE  NameOf(string_table', members'[k].short) = members'[k].name
    <3>1. CASE k \in DOMAIN members /\ members'[k] = members[k]
      <4>1. members[k].short \in Shorts /\ members[k].name # None
        BY <3>1, MembersTyped DEF ArioInv
      <4>2. NameOf(string_table, members[k].short) = members[k].name
        BY <3>1 DEF ArioInv, NamesResolve
      <4> QED
        BY <1>6, <3>1, <4>1, <4>2
    <3>2. CASE members'[k] = m
      BY <1>6, <2>1, <3>2
    <3> QED
      BY <2>3, <3>1, <3>2
  <2>6. NamesResolve'
    BY <2>5 DEF NamesResolve
  <2> QED
    BY <2>3, <2>4, <2>6 DEF ArioInv
<1>7. CASE /\ IsShort(n) /\ string_table' = string_table
           /\ members' = Append(members, Member(n, InHeader(n), Size[c], c, 0, FALSE, TRUE))
  <2>1. NameSize[n] + 1 <= FieldNameSize
    BY <1>2, <1>7 DEF IsShort, FieldNameSize
  <2>2. NameOf(string_table', InHeader(n)) = n
    BY <1>7, <2>1 DEF NameOf, InHeader
  <2>3. \A s \in Shorts : NameOf(string_table', s) = NameOf(string_table, s)
    BY <1>7
  <2> QED
    BY <1>2, <1>5, <1>6, <1>7, <2>2, <2>3
<1>8. CASE /\ string_table' = Append(string_table, n)
           /\ members' = Append(members, Member(n, InDirectory(DirectorySize(string_table)),
                                                Size[c], c, 0, FALSE, TRUE))
  <2>1. /\ string_table' \in Seq(Names)
        /\ LongName(string_table', DirectorySize(string_table)) = n
        /\ \A loc \in Nat : LongName(string_table, loc) # None =>
             LongName(string_table', loc) = LongName(string_table, loc)
    BY <1>2, <1>8, DirectoryAppended
  <2>2. NameOf(string_table', InDirectory(DirectorySize(string_table))) = n
    BY <2>1 DEF NameOf, InDirectory
  <2>3. \A s \in Shorts : NameOf(string_table, s) # None =>
          NameOf(string_table', s) = NameOf(string_table, s)
    <3>1. \A s \in Shorts : s.long => s.location \in Nat
      BY DEF Shorts
    <3> QED
      BY <2>1, <3>1 DEF NameOf
  <2> QED
    BY <1>5, <1>6, <1>8, <2>1, <2>2, <2>3
<1> QED
  BY <1>1, <1>7, <1>8

LEMMA AddSymbolsKeeps ==
  ASSUME ArioInv, NEW n, NEW S \in SUBSET Symbols, AddSymbols(n, S)
  PROVE  ArioInv'
<1>1. /\ symbol_table' = Overlaid(symbol_table, [s \in S |-> IndexOf(n)])
      /\ IndexOf(n) < Len(members)
      /\ UNCHANGED <<disk, members, string_table, source, stream_good, saves, clean>>
  BY DEF AddSymbols
<1>2. Len(members) \in Nat
  BY MembersTyped DEF ArioInv
<1>3. IndexOf(n) \in Indexes
  <2> DEFINE found == {x \in Indexes : members[x + 1].name = n}
             least == CHOOSE x \in Indexes :
                        /\ members[x + 1].name = n
                        /\ \A y \in Indexes : members[y + 1].name = n => x <= y
  <2>1. CASE found = {}
    <3>1. IndexOf(n) = Len(members)
      BY <2>1 DEF IndexOf
    <3> QED
      BY <1>1, <1>2, <3>1
  <2>2. CASE found # {}
    <3>1. found \in SUBSET Nat
      BY <1>2 DEF Indexes
    <3>2. \E x \in found : \A y \in found : x <= y
      <4> HIDE DEF found
      <4> QED
        BY <2>2, <3>1, LeastElement
    <3>3. \E x \in Indexes :
            /\ members[x + 1].name = n
            /\ \A y \in Indexes : members[y + 1].name = n => x <= y
      BY <3>2
    <3>4. least \in Indexes
      BY <3>3
    <3>5. IndexOf(n) = least
      BY <2>2 DEF IndexOf
    <3> QED
      BY <3>4, <3>5
  <2> QED
    BY <2>1, <2>2
<1>4. IndexOf(n) \in Nat
  BY <1>2, <1>3 DEF Indexes
<1> HIDE DEF IndexOf
<1>5. /\ DOMAIN symbol_table' = DOMAIN symbol_table \cup S
      /\ \A s \in DOMAIN symbol_table' :
           symbol_table'[s] = IF s \in S THEN IndexOf(n) ELSE symbol_table[s]
      /\ symbol_table' = [s \in DOMAIN symbol_table' |-> symbol_table'[s]]
  BY <1>1 DEF Overlaid
<1>6. \A s \in DOMAIN symbol_table : symbol_table[s] \in Nat
  BY DEF ArioInv, ArioTypeOK
<1>7. \A s \in DOMAIN symbol_table' : symbol_table'[s] \in Nat
  BY <1>4, <1>5, <1>6
<1>8. /\ DOMAIN symbol_table' \subseteq Symbols
      /\ symbol_table' \in [DOMAIN symbol_table' -> Nat]
  BY <1>5, <1>7 DEF ArioInv, ArioTypeOK
<1>9. ArioTypeOK'
  BY <1>1, <1>8 DEF ArioInv, ArioTypeOK
<1>10. NamesResolve'
  BY <1>1 DEF ArioInv, NamesResolve
<1>11. IndexesInRange'
  <2>1. members # <<>>
    BY <1>1, <1>2, <1>4
  <2> QED
    BY <1>1, <1>3, <1>5, <2>1 DEF ArioInv, IndexesInRange, Indexes
<1> QED
  BY <1>9, <1>10, <1>11 DEF ArioInv

LEMMA GetDataKeeps ==
  ASSUME ArioInv, NEW k \in DOMAIN members, GetData(k)
  PROVE  ArioInv'
<1>1. /\ stream_good' = FALSE
      /\ UNCHANGED <<disk, members, symbol_table, string_table, source, saves, clean>>
  BY DEF GetData
<1> QED
  BY <1>1 DEF ArioInv, ArioTypeOK, NamesResolve, IndexesInRange, Indexes

-----------------------------------------------------------------------------
(* Saving                                                                  *)

LEMMA DataTyped ==
  ASSUME ArioInv, NEW k \in DOMAIN members, NEW good \in BOOLEAN
  PROVE  Data(k, good) \in Contents \cup {Unknown}
BY MembersTyped DEF ArioInv, Data

(* What save() writes is a file, and its parts are those of the archive.   *)
LEMMA WrittenTyped ==
  ASSUME ArioInv, CanSave, NEW data,
         \A k \in DOMAIN members : data[k] \in Contents \cup {Unknown}
  PROVE  LET f == Written(data)
         IN /\ IsFile(f) /\ f.directory = string_table /\ f.tail = "clean"
            /\ DOMAIN f.symbols = DOMAIN symbol_table
            /\ \A s \in DOMAIN symbol_table :
                 f.symbols[s] = SavedLocation(symbol_table[s])
            /\ Len(f.entries) = Len(members)
            /\ DOMAIN f.entries = DOMAIN members
            /\ \A k \in DOMAIN members :
                 /\ f.entries[k].short = members[k].short
                 /\ f.entries[k].size = members[k].size
                 /\ f.entries[k].data = data[k]
<1> DEFINE f == Written(data)
           n == Len(members)
<1>1. /\ n \in Nat /\ DOMAIN members = 1..n
      /\ \A k \in DOMAIN members : members[k].short \in Shorts /\ members[k].size \in Nat
      /\ \A x \in Indexes : x + 1 \in DOMAIN members /\ x \in Nat
      /\ Indexes # {} => n > 0
  BY MembersTyped DEF ArioInv
<1>2. /\ DOMAIN symbol_table \subseteq Symbols /\ string_table \in Seq(Names)
      /\ \A s \in DOMAIN symbol_table : symbol_table[s] \in Indexes
  BY DEF ArioInv, ArioTypeOK, CanSave
<1>3. /\ f.symbols = [s \in DOMAIN symbol_table |-> SavedLocation(symbol_table[s])]
      /\ f.directory = string_table /\ f.tail = "clean"
      /\ f.entries = [k \in DOMAIN members |->
                        Entry(members[k].short, members[k].size, data[k])]
  BY DEF Written, File
<1> HIDE DEF f, n
<1>4. ASSUME NEW k \in DOMAIN members
      PROVE  /\ f.entries[k] \in EntryRecords
             /\ f.entries[k].short = members[k].short
             /\ f.entries[k].size = members[k].size
             /\ f.entries[k].data = data[k]
  <2>1. f.entries[k] = Entry(members[k].short, members[k].size, data[k])
    BY <1>3
  <2>2. /\ members[k].short \in Shorts /\ members[k].size \in Nat
        /\ data[k] \in Contents \cup {Unknown}
    BY <1>1
  <2> QED
    BY <2>1, <2>2 DEF Entry, EntryRecords
<1>5. DOMAIN f.entries = 1..n /\ f.entries \in Seq(EntryRecords) /\ Len(f.entries) = n
  <2>1. DOMAIN f.entries = 1..n
    BY <1>1, <1>3
  <2>2. f.entries = [k \in 1..n |-> f.entries[k]]
    BY <1>1, <1>3
  <2>3. f.entries \in [1..n -> EntryRecords]
    BY <1>1, <1>4, <2>2
  <2>4. f.entries \in Seq(EntryRecords)
    BY <1>1, <2>3, IsASeq
  <2> QED
    BY <1>1, <2>1, <2>4, LenProperties
<1>6. ASSUME NEW x \in Indexes
      PROVE  SavedLocation(x) \in Nat
  <2>1. Rooms(members) \in [1..n -> Nat]
    BY <1>1, RoomsPositive
  <2>2. x + 1 - 1 = x /\ x \in 0..n
    BY <1>1
  <2>3. RelativeOffset(members, x + 1) = SumTo(Rooms(members), x)
    BY <2>2 DEF RelativeOffset, Rooms
  <2>4. SumTo(Rooms(members), x) \in Nat
    BY <1>1, <2>1, <2>2, SumToFacts
  <2>5. SymbolTableSize(DOMAIN symbol_table) \in Nat
    BY <1>2, TableSizeIsNumber
  <2>6. LongNamesDirSize(string_table) \in Nat
    <3>1. DirectorySize(string_table) \in Nat
      BY <1>2, LocationsDiffer
    <3> QED
      BY <3>1 DEF LongNamesDirSize, HeaderSize, Even
  <2> QED
    BY <2>3, <2>4, <2>5, <2>6 DEF SavedLocation, MagicSize
<1>7. /\ DOMAIN f.symbols = DOMAIN symbol_table
      /\ f.symbols \in [DOMAIN f.symbols -> Nat]
      /\ \A s \in DOMAIN symbol_table :
           f.symbols[s] = SavedLocation(symbol_table[s])
  BY <1>2, <1>3, <1>6
<1>8. ASSUME NEW k \in DOMAIN f.entries, ~f.entries[k].short.long
      PROVE  NameSize[f.entries[k].short.name] < FieldNameSize
  <2> DEFINE short == members[k].short
  <2>1. k \in DOMAIN members /\ f.entries[k].short = short
    BY <1>1, <1>4, <1>5
  <2>2. NameOf(string_table, short) # None
    BY <2>1, MembersTyped DEF ArioInv, NamesResolve
  <2>3. short \in Shorts /\ ~short.long
    BY <1>1, <1>8, <2>1
  <2>4. short.name \in Names
    BY <2>3 DEF Shorts
  <2> HIDE DEF short
  <2>5. NameSize[short.name] \in Nat
    BY <2>4, ArioAssumption
  <2>6. NameSize[short.name] + 1 <= FieldNameSize
    BY <2>2, <2>3 DEF NameOf
  <2> QED
    BY <2>1, <2>5, <2>6 DEF FieldNameSize
<1>9. IsFile(f)
  BY <1>2, <1>3, <1>5, <1>7, <1>8 DEF IsFile, EntryRecords
<1> QED
  BY <1>1, <1>3, <1>4, <1>5, <1>7, <1>9 DEF f, n

LEMMA SaveKeeps ==
  ASSUME ArioInv, NEW x \in Files, Save(x)
  PROVE  ArioInv'
<1> DEFINE data == [k \in DOMAIN members |-> Data(k, GoodAfter(k - 1))]
<1>1. /\ CanSave /\ saves < MaxSaves /\ disk' = [disk EXCEPT ![x] = Written(data)]
      /\ stream_good' = GoodAfter(Len(members)) /\ saves' = saves + 1
      /\ UNCHANGED <<members, symbol_table, string_table, source, clean>>
  BY DEF Save
<1>2. \A n : GoodAfter(n) \in BOOLEAN
  BY DEF GoodAfter
<1>3. \A k \in DOMAIN members : data[k] \in Contents \cup {Unknown}
  BY <1>2, DataTyped
<1> HIDE DEF data
<1>4. IsFile(Written(data))
  BY <1>1, <1>3, WrittenTyped
<1>5. DOMAIN disk' = Files /\ \A y \in Files : disk'[y] = None \/ IsFile(disk'[y])
  <2>1. \A y \in Files : disk'[y] = disk[y] \/ disk'[y] = Written(data)
    BY <1>1 DEF ArioInv, ArioTypeOK
  <2>2. DOMAIN disk' = Files
    BY <1>1 DEF ArioInv, ArioTypeOK
  <2> QED
    BY <1>4, <2>1, <2>2 DEF ArioInv, ArioTypeOK
<1>6. saves' \in 0..MaxSaves
  BY <1>1, ArioAssumption DEF ArioInv, ArioTypeOK
<1>7. ArioTypeOK'
  BY <1>1, <1>2, <1>5, <1>6 DEF ArioInv, ArioTypeOK
<1> QED
  BY <1>1, <1>7 DEF ArioInv, NamesResolve, IndexesInRange, Indexes

LEMMA SaveOverSourceKeeps ==
  ASSUME ArioInv, NEW x \in Files, SaveOverSource(x)
  PROVE  ArioInv'
<1> DEFINE data == [k \in DOMAIN members |-> Data(k, FALSE)]
<1>1. PICK lost \in [DOMAIN members -> BOOLEAN] :
        members' = [k \in DOMAIN members |->
                      IF members[k].new THEN members[k]
                      ELSE [members[k] EXCEPT !.data = Unknown, !.cut = lost[k]]]
  BY DEF SaveOverSource
<1>2. /\ CanSave /\ saves < MaxSaves /\ disk' = [disk EXCEPT ![x] = Written(data)]
      /\ stream_good' \in {stream_good, FALSE} /\ saves' = saves + 1
      /\ UNCHANGED <<symbol_table, string_table, source, clean>>
  BY DEF SaveOverSource
<1>3. \A k \in DOMAIN members : data[k] \in Contents \cup {Unknown}
  BY DataTyped
<1> HIDE DEF data
<1>4. IsFile(Written(data))
  BY <1>2, <1>3, WrittenTyped
<1>5. DOMAIN disk' = Files /\ \A y \in Files : disk'[y] = None \/ IsFile(disk'[y])
  <2>1. \A y \in Files : disk'[y] = disk[y] \/ disk'[y] = Written(data)
    BY <1>2 DEF ArioInv, ArioTypeOK
  <2>2. DOMAIN disk' = Files
    BY <1>2 DEF ArioInv, ArioTypeOK
  <2> QED
    BY <1>4, <2>1, <2>2 DEF ArioInv, ArioTypeOK
<1>6. saves' \in 0..MaxSaves
  BY <1>2, ArioAssumption DEF ArioInv, ArioTypeOK
<1>7. /\ Len(members) \in Nat /\ DOMAIN members = 1..Len(members)
      /\ \A k \in DOMAIN members : members[k] \in MemberRecords
  BY MembersTyped DEF ArioInv
<1>8. ASSUME NEW k \in DOMAIN members
      PROVE  /\ members'[k] \in MemberRecords
             /\ members'[k].name = members[k].name
             /\ members'[k].short = members[k].short
  <2>1. PICK m \in MemberRecords : m = members[k]
    BY <1>7
  <2>2. PICK l \in BOOLEAN : l = lost[k]
    OBVIOUS
  <2>3. members'[k] = IF m.new THEN m ELSE [m EXCEPT !.data = Unknown, !.cut = l]
    BY <1>1, <2>1, <2>2
  <2>4. CASE members'[k] = m
    BY <2>1, <2>4
  <2>5. CASE members'[k] = [m EXCEPT !.data = Unknown, !.cut = l]
    <3> DEFINE o == [m EXCEPT !.data = Unknown, !.cut = l]
    <3>1. o \in MemberRecords /\ o.name = m.name /\ o.short = m.short
      BY DEF MemberRecords
    <3> QED
      BY <2>1, <2>5, <3>1
  <2> QED
    BY <2>3, <2>4, <2>5
<1>9. DOMAIN members' = DOMAIN members
  BY <1>1
<1>10. members' \in Seq(MemberRecords) /\ Len(members') = Len(members)
  <2>1. members' = [k \in 1..Len(members) |-> members'[k]]
    BY <1>1, <1>7
  <2>2. members' \in [1..Len(members) -> MemberRecords]
    BY <1>7, <1>8, <2>1
  <2>3. members' \in Seq(MemberRecords)
    BY <1>7, <2>2, IsASeq
  <2> QED
    BY <1>7, <1>9, <2>3, LenProperties
<1>11. ArioTypeOK'
  BY <1>2, <1>5, <1>6, <1>10 DEF ArioInv, ArioTypeOK, MemberRecords
<1>12. NamesResolve'
  BY <1>2, <1>8, <1>9 DEF ArioInv, NamesResolve
<1>13. IndexesInRange'
  <2>1. members = <<>> => members' = <<>>
    BY <1>10, EmptySeq
  <2> QED
    BY <1>2, <1>10, <2>1 DEF ArioInv, IndexesInRange, Indexes
<1> QED
  BY <1>11, <1>12, <1>13 DEF ArioInv

-----------------------------------------------------------------------------
(* The specification                                                       *)

LEMMA ArioStepwise ==
  ASSUME ArioInv, [Next]_vars
  PROVE  ArioInv'
<1>1. CASE UNCHANGED vars
  BY <1>1 DEF vars, ArioInv, ArioTypeOK, NamesResolve, IndexesInRange, Indexes
<1>2. CASE Next
  BY <1>2, LoadAlienKeeps, LoadKeeps, SaveKeeps, SaveOverSourceKeeps,
     AddMemberKeeps, AddSymbolsKeeps, GetDataKeeps DEF Next
<1> QED
  BY <1>1, <1>2

(* The inductive invariant holds in every state.                           *)
THEOREM ArioInvariance == Spec => []ArioInv
<1>1. Init => ArioInv
  BY ArioInitially
<1>2. ArioInv /\ [Next]_vars => ArioInv'
  BY ArioStepwise
<1> QED
  BY <1>1, <1>2, PTL DEF Spec

(* Whatever load() reads, every member it makes has a name, and what       *)
(* save() writes can be read as an archive.                                *)
THEOREM ArioTypeCorrect == Spec => []ArioTypeOK
<1>1. ArioInv => ArioTypeOK
  BY DEF ArioInv
<1> QED
  BY <1>1, ArioInvariance, PTL

(* The short name of a member leads to its name through the directory in   *)
(* force, after every sequence of load() and add_member().                 *)
THEOREM NamesAlwaysResolve == Spec => []NamesResolve
<1>1. ArioInv => NamesResolve
  BY DEF ArioInv
<1> QED
  BY <1>1, ArioInvariance, PTL

(* The indexes that find_symbol() and save() follow are those of members   *)
(* after any load that came to its end, one on top of symbols included;    *)
(* without a member they are all 0.                                        *)
THEOREM IndexesStayInRange == Spec => []IndexesInRange
<1>1. ArioInv => IndexesInRange
  BY DEF ArioInv
<1> QED
  BY <1>1, ArioInvariance, PTL

-----------------------------------------------------------------------------
(* What a save writes, a load reads                                        *)

(* The location that a symbol is saved with is the position of its member  *)
(* in the file, provided that there are long names.                        *)
LEMMA LocationIsPosition ==
  ASSUME ArioInv, NEW f, IsFile(f), f.directory = string_table,
         string_table # <<>>, DOMAIN f.symbols = DOMAIN symbol_table,
         DOMAIN symbol_table # {}, DOMAIN f.entries = DOMAIN members,
         \A k \in DOMAIN members : f.entries[k].size = members[k].size,
         NEW x \in Indexes
  PROVE  SavedLocation(x) = FilePos(f, x + 1)
<1>1. Rooms(members) = Rooms(f.entries)
  BY DEF Rooms
<1>2. \A k : RelativeOffset(members, k) = SumTo(Rooms(members), k - 1)
  BY DEF RelativeOffset, Rooms
<1>3. \A k : FilePos(f, k) =
        MagicSize + SymbolTableSize(DOMAIN symbol_table)
          + LongNamesDirSize(string_table) + SumTo(Rooms(f.entries), k - 1)
  BY DEF FilePos, Rooms
<1> QED
  BY <1>1, <1>2, <1>3 DEF SavedLocation

LEMMA SaveIsReloaded ==
  ASSUME ArioInv, NEW x \in Files, Save(x)
  PROVE  LET f == disk'[x]
             again == Loaded(f, f.directory)
         IN /\ Complete(f, f.directory)
            /\ \A k \in DOMAIN members :
                 /\ again[k].name = members[k].name
                 /\ members[k].new \/ GoodAfter(k) =>
                      again[k].data = members[k].data
            /\ string_table # <<>> =>
                 Substituted(again, f.symbols) = symbol_table
<1> DEFINE data == [k \in DOMAIN members |-> Data(k, GoodAfter(k - 1))]
           f == Written(data)
           again == Loaded(f, f.directory)
           n == Len(members)
<1>1. CanSave /\ disk' = [disk EXCEPT ![x] = f]
  BY DEF Save
<1>2. disk'[x] = f
  BY <1>1 DEF ArioInv, ArioTypeOK
<1>3. \A k \in DOMAIN members : data[k] \in Contents \cup {Unknown}
  <2>1. \A k : GoodAfter(k) \in BOOLEAN
    BY DEF GoodAfter
  <2> QED
    BY <2>1, DataTyped
<1>4. \A k \in DOMAIN members : data[k] = Data(k, GoodAfter(k - 1))
  OBVIOUS
<1> HIDE DEF data
<1>5. /\ IsFile(f) /\ f.directory = string_table /\ f.tail = "clean"
      /\ DOMAIN f.symbols = DOMAIN symbol_table
      /\ \A s \in DOMAIN symbol_table :
           f.symbols[s] = SavedLocation(symbol_table[s])
      /\ Len(f.entries) = n /\ DOMAIN f.entries = DOMAIN members
      /\ \A k \in DOMAIN members :
           /\ f.entries[k].short = members[k].short
           /\ f.entries[k].size = members[k].size
           /\ f.entries[k].data = data[k]
  BY <1>1, <1>3, WrittenTyped
<1> HIDE DEF f
<1>6. /\ n \in Nat /\ DOMAIN members = 1..n
      /\ \A k \in DOMAIN members : members[k].name # None
      /\ \A i \in Indexes : i + 1 \in DOMAIN members /\ i \in Nat
      /\ string_table \in Seq(Names)
  BY MembersTyped DEF ArioInv, ArioTypeOK
<1>7. ASSUME NEW k \in DOMAIN members
      PROVE  NameOf(f.directory, f.entries[k].short) = members[k].name
  BY <1>5 DEF ArioInv, NamesResolve
<1>8. Accepted(f, f.directory) = n
  <2>1. {k \in DOMAIN f.entries :
           NameOf(f.directory, f.entries[k].short) = None} = {}
    BY <1>5, <1>6, <1>7
  <2> QED
    BY <1>5, <2>1 DEF Accepted
<1>9. Complete(f, f.directory)
  BY <1>5, <1>8 DEF Complete
<1>10. /\ DOMAIN again = 1..n
       /\ \A k \in 1..n : /\ again[k].name = NameOf(f.directory, f.entries[k].short)
                          /\ again[k].data = f.entries[k].data
                          /\ again[k].filepos = FilePos(f, k)
  BY <1>5, <1>6, <1>8, LoadedTyped
<1> HIDE DEF again, n
<1>11. ASSUME NEW k \in DOMAIN members
       PROVE  /\ again[k].name = members[k].name
              /\ members[k].new \/ GoodAfter(k) =>
                   again[k].data = members[k].data
  <2>1. again[k].name = members[k].name /\ again[k].data = Data(k, GoodAfter(k - 1))
    BY <1>4, <1>5, <1>6, <1>7, <1>10
  <2>2. CASE members[k].new
    BY <2>1, <2>2 DEF Data
  <2>3. CASE GoodAfter(k)
    <3>1. k \in 1..k /\ \A j \in 1..k - 1 : j \in 1..k
      BY <1>6
    <3>2. GoodAfter(k - 1) /\ (members[k].new \/ ~members[k].cut)
      BY <2>3, <3>1 DEF GoodAfter, Readable
    <3> QED
      BY <2>1, <3>2 DEF Data
  <2> QED
    BY <2>1, <2>2, <2>3
<1>12. ASSUME string_table # <<>>
       PROVE  Substituted(again, f.symbols) = symbol_table
  <2>1. ASSUME NEW s \in DOMAIN symbol_table
        PROVE  Substituted(again, f.symbols)[s] = symbol_table[s]
    <3> DEFINE i == symbol_table[s]
    <3>1. i \in Indexes /\ i + 1 \in 1..n /\ i \in Nat
      BY <1>1, <1>6 DEF CanSave
    <3>2. SavedLocation(i) = FilePos(f, i + 1)
      BY <1>5, <1>12, <3>1, LocationIsPosition
    <3>3. \A k, l \in 1..n : FilePos(f, k) = FilePos(f, l) => k = l
      <4>1. /\ DOMAIN f.symbols \subseteq Symbols /\ f.directory \in Seq(Names)
            /\ DOMAIN f.entries = 1..n
            /\ \A k \in 1..n : f.entries[k].size \in Nat
        BY <1>5, <1>6, FileTyped
      <4> QED
        BY <1>6, <4>1, FilePositions
    <3>4. again[i + 1].filepos = f.symbols[s]
      BY <1>5, <1>10, <3>1, <3>2
    <3> HIDE DEF i
    <3>5. \A k \in 1..n : again[k].filepos = f.symbols[s] => k = i + 1
      BY <1>10, <3>1, <3>3, <3>4
    <3> DEFINE pick == CHOOSE k \in DOMAIN again : again[k].filepos = f.symbols[s]
    <3>6. pick = i + 1
      BY <1>10, <3>1, <3>4, <3>5
    <3>7. Substituted(again, f.symbols)[s] = pick - 1
      <4>1. s \in DOMAIN f.symbols /\ i + 1 \in DOMAIN again
        BY <1>5, <1>10, <3>1
      <4> QED
        BY <3>4, <4>1 DEF Substituted
    <3> HIDE DEF pick
    <3>8. Substituted(again, f.symbols)[s] = i
      BY <3>1, <3>6, <3>7
    <3> QED
      BY <3>1, <3>8 DEF i
  <2>2. Substituted(again, f.symbols) =
          [s \in DOMAIN symbol_table |-> Substituted(again, f.symbols)[s]]
    BY <1>5 DEF Substituted
  <2>3. symbol_table = [s \in DOMAIN symbol_table |-> symbol_table[s]]
    BY DEF ArioInv, ArioTypeOK
  <2> QED
    BY <2>1, <2>2, <2>3
<1> QED
  BY <1>2, <1>9, <1>11, <1>12 DEF again, n

(* An archive that was saved can be loaded again: every member has its     *)
(* name and its data, and with a directory of long names every symbol      *)
(* leads to its member.                                                    *)
THEOREM SavedArchivesReload == Spec => SaveRoundTrips
<1>1. ArioInv /\ [Next]_vars =>
        [\A x \in Files : Save(x) =>
           LET f == disk'[x]
               again == Loaded(f, f.directory)
           IN /\ Complete(f, f.directory)
              /\ \A k \in DOMAIN members :
                   /\ again[k].name = members[k].name
                   /\ members[k].new \/ GoodAfter(k) =>
                        again[k].data = members[k].data
              /\ string_table # <<>> =>
                   Substituted(again, f.symbols) = symbol_table]_vars
  BY SaveIsReloaded
<1> QED
  BY <1>1, ArioInvariance, PTL DEF Spec, SaveRoundTrips

=============================================================================
