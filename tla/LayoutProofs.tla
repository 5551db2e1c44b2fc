---------------------------- MODULE LayoutProofs ----------------------------
(***************************************************************************)
(* Proofs about the two phases of save() before it writes.  The ordering   *)
(* of segments, get_ordered_segments(), loses none, counts exactly and     *)
(* puts containers first.  The layout's loops stay in range, it never      *)
(* gives two sections the same bytes of the file, and each segment covers  *)
(* its sections, as long as the file position does not exceed a word; so   *)
(* too for an object that was loaded.                                      *)
(***************************************************************************)
EXTENDS Reload, NumberFacts, SequenceTheorems, FiniteSetTheorems, TLAPS

-----------------------------------------------------------------------------
(* Every bounded set of naturals has a greatest element.                   *)
LEMMA GreatestElement ==
  ASSUME NEW n \in Nat, NEW S \in SUBSET (0..n), S # {}
  PROVE  /\ Maximum(S) \in S
         /\ \A x \in S : x <= Maximum(S)
<1> DEFINE T == {x \in 0..n : n - x \in S}
<1>1. T \in SUBSET Nat /\ T # {}
  <2>1. PICK x \in S : TRUE
    OBVIOUS
  <2>2. n - x \in T
    BY <2>1
  <2>3. T \in SUBSET Nat
    OBVIOUS
  <2> HIDE DEF T
  <2> QED
    BY <2>2, <2>3
<1>2. \A x \in S : n - x \in T
  OBVIOUS
<1>3. \A x \in T : x \in 0..n /\ n - x \in S
  OBVIOUS
<1> HIDE DEF T
<1>4. PICK m \in T : \A y \in T : m <= y
  BY <1>1, LeastElement
<1>5. n - m \in S /\ \A x \in S : x <= n - m
  BY <1>2, <1>3, <1>4
<1> QED
  BY <1>5 DEF Maximum

(* Sequences                                                               *)

LEMMA MembersOfTail ==
  ASSUME NEW S, NEW s \in Seq(S), s # <<>>
  PROVE  Members(s) = {Head(s)} \cup Members(Tail(s))
<1>1. DOMAIN s = 1..Len(s) /\ DOMAIN Tail(s) = 1..Len(s) - 1
      /\ Len(s) \in Nat /\ Len(s) > 0 /\ Head(s) = s[1]
      /\ \A x \in 1..Len(s) - 1 : Tail(s)[x] = s[x + 1]
  BY HeadTailProperties, EmptySeq, LenProperties
<1>2. ASSUME NEW x \in 1..Len(s)
      PROVE  s[x] \in {Head(s)} \cup Members(Tail(s))
  <2>1. CASE x = 1
    BY <2>1, <1>1
  <2>2. CASE x # 1
    <3>1. x - 1 \in DOMAIN Tail(s) /\ Tail(s)[x - 1] = s[x]
      BY <2>2, <1>1
    <3> QED
      BY <3>1 DEF Members
  <2> QED
    BY <2>1, <2>2
<1>3. ASSUME NEW x \in DOMAIN Tail(s)
      PROVE  Tail(s)[x] \in Members(s)
  <2>1. x + 1 \in DOMAIN s /\ Tail(s)[x] = s[x + 1]
    BY <1>1
  <2> QED
    BY <2>1 DEF Members
<1>4. Head(s) \in Members(s)
  BY <1>1 DEF Members
<1> QED
  BY <1>1, <1>2, <1>3, <1>4 DEF Members

LEMMA MembersOfAppend ==
  ASSUME NEW S, NEW s \in Seq(S), NEW e \in S
  PROVE  Members(Append(s, e)) = Members(s) \cup {e}
<1>1. Len(s) \in Nat /\ DOMAIN s = 1..Len(s)
      /\ DOMAIN Append(s, e) = 1..Len(s) + 1
      /\ \A x \in 1..Len(s) : Append(s, e)[x] = s[x]
      /\ Append(s, e)[Len(s) + 1] = e
  BY LenProperties
<1>2. ASSUME NEW x \in 1..Len(s) + 1
      PROVE  Append(s, e)[x] \in Members(s) \cup {e}
  BY <1>1 DEF Members
<1>3. ASSUME NEW x \in 1..Len(s)
      PROVE  s[x] \in Members(Append(s, e))
  BY <1>1 DEF Members
<1>4. e \in Members(Append(s, e))
  BY <1>1 DEF Members
<1> QED
  BY <1>1, <1>2, <1>3, <1>4 DEF Members

LEMMA OnceInTail ==
  ASSUME NEW S, NEW s \in Seq(S), s # <<>>, Once(s)
  PROVE  Once(Tail(s)) /\ Head(s) \notin Members(Tail(s))
<1>1. DOMAIN s = 1..Len(s) /\ DOMAIN Tail(s) = 1..Len(s) - 1
      /\ Len(s) \in Nat /\ Len(s) > 0 /\ Head(s) = s[1]
      /\ \A x \in 1..Len(s) - 1 : Tail(s)[x] = s[x + 1]
  BY HeadTailProperties, EmptySeq, LenProperties
<1>2. Once(Tail(s))
  BY <1>1 DEF Once
<1>3. ASSUME NEW x \in 1..Len(s) - 1
      PROVE  Tail(s)[x] # Head(s)
  <2>1. s[x + 1] # s[1]
    BY <1>1 DEF Once
  <2> QED
    BY <1>1, <2>1
<1> QED
  BY <1>1, <1>2, <1>3 DEF Members

LEMMA OnceInAppend ==
  ASSUME NEW S, NEW s \in Seq(S), NEW e \in S, Once(s), e \notin Members(s)
  PROVE  Once(Append(s, e))
<1>1. Len(s) \in Nat /\ DOMAIN s = 1..Len(s)
      /\ DOMAIN Append(s, e) = 1..Len(s) + 1
      /\ \A x \in 1..Len(s) : Append(s, e)[x] = s[x]
      /\ Append(s, e)[Len(s) + 1] = e
  BY LenProperties
<1>2. \A x \in 1..Len(s) : s[x] # e
  BY <1>1 DEF Members
<1> QED
  BY <1>1, <1>2 DEF Once

LEMMA MembersOfSwap ==
  ASSUME NEW S, NEW s \in Seq(S), NEW a \in 1..Len(s), NEW b \in 1..Len(s),
         NEW t, t = [s EXCEPT ![a] = s[b], ![b] = s[a]]
  PROVE  /\ t \in Seq(S) /\ Len(t) = Len(s)
         /\ Members(t) = Members(s)
         /\ Once(s) => Once(t)
<1>1. Len(s) \in Nat /\ s \in [1..Len(s) -> S] /\ DOMAIN s = 1..Len(s)
  BY LenProperties
<1>2. t \in [1..Len(s) -> S]
  BY <1>1
<1>3. t \in Seq(S) /\ Len(t) = Len(s) /\ DOMAIN t = 1..Len(s)
  BY <1>1, <1>2, SeqDef, LenProperties
<1>4. \A x \in 1..Len(s) :
        t[x] = IF x = b THEN s[a] ELSE IF x = a THEN s[b] ELSE s[x]
  BY <1>1
<1>5. Members(t) = Members(s)
  <2>1. ASSUME NEW x \in 1..Len(s)
        PROVE  t[x] \in Members(s)
    <3>1. t[x] \in {s[a], s[b], s[x]}
      BY <1>4
    <3>2. {s[a], s[b], s[x]} \subseteq Members(s)
      BY <1>1 DEF Members
    <3> QED
      BY <3>1, <3>2
  <2>2. ASSUME NEW x \in 1..Len(s)
        PROVE  s[x] \in Members(t)
    <3>1. s[x] \in {t[a], t[b], t[x]}
      BY <1>4
    <3>2. {t[a], t[b], t[x]} \subseteq Members(t)
      BY <1>3 DEF Members
    <3> QED
      BY <3>1, <3>2
  <2>3. Members(t) \subseteq Members(s)
    BY <1>3, <2>1, Zenon DEF Members
  <2>4. Members(s) \subseteq Members(t)
    BY <1>1, <2>2, Zenon DEF Members
  <2> QED
    BY <2>3, <2>4
<1>6. Once(s) => Once(t)
  BY <1>1, <1>3, <1>4 DEF Once
<1> QED
  BY <1>3, <1>5, <1>6

-----------------------------------------------------------------------------
(* Finitely many naturals are bounded; so are the section numbers of a     *)
(* table, and the greatest is the greatest.                                *)

LEMMA FinitelyManyAreBounded ==
  ASSUME NEW N \in Nat, NEW f \in [1..N -> Nat]
  PROVE  \E n \in Nat : \A g \in 1..N : f[g] <= n
<1> DEFINE Bounded(m) == \E n \in Nat : \A g \in 1..m : f[g] <= n
           T == {m \in 0..N : ~Bounded(m)}
<1>1. Bounded(0)
  OBVIOUS
<1>2. ASSUME NEW m \in 1..N, Bounded(m - 1)
      PROVE  Bounded(m)
  <2>1. PICK n \in Nat : \A g \in 1..m - 1 : f[g] <= n
    BY <1>2
  <2>2. f[m] \in Nat
    OBVIOUS
  <2>3. \A g \in 1..m : f[g] <= n + f[m]
    BY <2>1, <2>2
  <2>4. n + f[m] \in Nat
    BY <2>2
  <2> QED
    BY <2>3, <2>4
<1> HIDE DEF Bounded
<1>3. ASSUME T # {}
      PROVE  FALSE
  <2>1. T \in SUBSET Nat
    OBVIOUS
  <2>2. PICK m \in T : \A y \in T : m <= y
    <3> HIDE DEF T
    <3> QED
      BY <1>3, <2>1, LeastElement
  <2>3. m \in 1..N /\ m - 1 \in 0..N /\ m - 1 \notin T
    BY <1>1, <2>2
  <2>4. Bounded(m - 1)
    BY <2>3
  <2> QED
    BY <1>2, <2>2, <2>3, <2>4
<1>4. N \notin T
  BY <1>3
<1>5. Bounded(N)
  BY <1>4
<1> QED
  BY <1>5 DEF Bounded

LEMMA GreatestCountBounds ==
  ASSUME NEW t, IsTable(t)
  PROVE  /\ GreatestCount(t) \in Nat
         /\ \A g \in 1..Len(t) : Len(t[g].sections) \in 0..GreatestCount(t)
<1> DEFINE f == [g \in 1..Len(t) |-> Len(t[g].sections)]
           S == {0} \cup {f[g] : g \in 1..Len(t)}
<1>1. Len(t) \in Nat /\ f \in [1..Len(t) -> Nat]
  BY DEF IsTable
<1>2. GreatestCount(t) = Maximum(S)
  BY DEF GreatestCount
<1>3. \A g \in 1..Len(t) : f[g] = Len(t[g].sections)
  OBVIOUS
<1> HIDE DEF f
<1>4. PICK n \in Nat : \A g \in 1..Len(t) : f[g] <= n
  BY <1>1, FinitelyManyAreBounded
<1>5. S \in SUBSET (0..n) /\ S # {}
  BY <1>1, <1>4
<1>6. \A g \in 1..Len(t) : f[g] \in S
  OBVIOUS
<1> HIDE DEF S
<1>7. Maximum(S) \in S /\ \A x \in S : x <= Maximum(S)
  BY <1>5, GreatestElement
<1> DEFINE M == Maximum(S)
<1> HIDE DEF M
<1>8. M \in 0..n /\ \A g \in 1..Len(t) : f[g] \in 0..M
  <2>1. M \in S /\ \A x \in S : x <= M
    BY <1>7 DEF M
  <2> QED
    BY <1>1, <1>5, <1>6, <2>1
<1>9. M \in Nat /\ \A g \in 1..Len(t) : Len(t[g].sections) \in 0..M
  BY <1>3, <1>8
<1> QED
  BY <1>2, <1>9 DEF M

-----------------------------------------------------------------------------
(* The inductive invariant: types, the partition of the segments into work *)
(* list and result, and counters that match the work list.                 *)

OrderInv == OrderTypeOK /\ EachSegmentOnce /\ CountsExact

LEMMA InitialOrder ==
  ASSUME IsTable(seg), OrderInit
  PROVE  OrderInv
<1>1. GreatestCount(seg) \in Nat
      /\ \A g \in SegIds : SectionCount(g) \in 0..GreatestCount(seg)
  BY GreatestCountBounds DEF SegIds, SectionCount
<1>2. Len(seg) \in Nat
  BY DEF IsTable
<1>3. /\ worklist \in Seq(SegIds) /\ Len(worklist) = Len(seg)
      /\ DOMAIN worklist = SegIds
      /\ \A g \in SegIds : worklist[g] = g
  BY <1>2 DEF OrderInit, AllSegments, SegIds
<1>4. Members(worklist) = SegIds
  BY <1>3 DEF Members
<1>5. res \in Seq(SegIds) /\ DOMAIN res = {}
  BY DEF OrderInit
<1>6. Members(res) = {} /\ Once(res)
  BY <1>5 DEF Members, Once
<1>7. \A c \in 0..GreatestCount(seg) :
        /\ CountSegments(seg)[c] \in Int
        /\ CountSegments(seg)[c] =
             Cardinality({g \in SegIds : SectionCount(g) = c})
  <2> TAKE c \in 0..GreatestCount(seg)
  <2> DEFINE C == {g \in SegIds : SectionCount(g) = c}
  <2>1. IsFiniteSet(C) /\ Cardinality(C) \in Nat
    <3>1. IsFiniteSet(SegIds)
      BY <1>2, FS_Interval DEF SegIds
    <3> QED
      BY <3>1, FS_Subset, FS_CardinalityType
  <2>2. CountSegments(seg)[c] = Cardinality(C)
    BY DEF CountSegments, SegIds, SectionCount
  <2> QED
    BY <2>1, <2>2
<1>8. OrderTypeOK
  <2>1. CountSegments(seg) \in [0..GreatestCount(seg) -> Int]
    <3>1. CountSegments(seg) =
            [c \in 0..GreatestCount(seg) |-> CountSegments(seg)[c]]
      BY DEF CountSegments
    <3> QED
      BY <1>7, <3>1
  <2>2. sectionCountFrequency \in [0..GreatestCount(seg) -> Int]
    BY <2>1 DEF OrderInit
  <2> QED
    BY <1>1, <1>2, <1>3, <1>5, <2>2 DEF OrderInit, OrderTypeOK
<1>9. EachSegmentOnce
  BY <1>3, <1>4, <1>6 DEF EachSegmentOnce, Once, OrderInit
<1>10. CountsExact
  <2>1. DOMAIN sectionCountFrequency = 0..GreatestCount(seg)
    BY DEF OrderInit, CountSegments
  <2> QED
    BY <1>1, <1>4, <1>7, <2>1 DEF CountsExact, OrderInit
<1> QED
  BY <1>8, <1>9, <1>10 DEF OrderInv

(* Without the first segment of the work list, the counters count the rest *)
(* and MaxWithout bounds it.                                               *)
LEMMA CountsWithoutHead ==
  ASSUME IsTable(seg), OrderInv, worklist # <<>>,
         NEW g, g = Head(worklist)
  PROVE  /\ g \in SegIds /\ SectionCount(g) \in 0..GreatestCount(seg)
         /\ FrequencyWithout(g) \in [0..GreatestCount(seg) -> Int]
         /\ \A c \in 0..GreatestCount(seg) :
               FrequencyWithout(g)[c] =
                 Cardinality({h \in Members(Tail(worklist)) :
                                SectionCount(h) = c})
         /\ MaxWithout(g) \in 0..maxSectionCount
         /\ \A h \in Members(Tail(worklist)) :
               SectionCount(h) <= MaxWithout(g)
<1> DEFINE G == GreatestCount(seg)
           W == Members(worklist)
           R == Members(Tail(worklist))
           F == FrequencyWithout(g)
           Of(X, c) == {h \in X : SectionCount(h) = c}
<1>1. /\ worklist \in Seq(SegIds)
      /\ sectionCountFrequency \in [0..G -> Int]
      /\ maxSectionCount \in 0..G
      /\ Once(worklist)
      /\ \A c \in 0..G : sectionCountFrequency[c] = Cardinality(Of(W, c))
      /\ \A h \in W : SectionCount(h) <= maxSectionCount
  BY DEF OrderInv, OrderTypeOK, EachSegmentOnce, CountsExact
<1>2. /\ g \in SegIds /\ Tail(worklist) \in Seq(SegIds)
      /\ W = {g} \cup R /\ g \notin R
  BY <1>1, HeadTailProperties, MembersOfTail, OnceInTail
<1>3. R \subseteq SegIds
  BY <1>2, LenProperties DEF Members
<1>4. G \in Nat /\ \A h \in SegIds : SectionCount(h) \in 0..G
  BY GreatestCountBounds DEF SegIds, SectionCount
<1> HIDE DEF G, W, R
<1>5. F = [sectionCountFrequency EXCEPT ![SectionCount(g)] = @ - 1]
  BY DEF FrequencyWithout
<1>6. F \in [0..G -> Int]
  BY <1>1, <1>2, <1>4, <1>5
<1>7. \A c \in 0..G : /\ IsFiniteSet(Of(W, c))
                       /\ IsFiniteSet(Of(R, c))
  <2>1. IsFiniteSet(SegIds)
    BY FS_Interval DEF SegIds, IsTable
  <2> QED
    BY <1>2, <1>3, <2>1, FS_Subset
<1>8. \A c \in 0..G : F[c] = Cardinality(Of(R, c))
  <2> TAKE c \in 0..G
  <2>1. Of(R, c) = Of(W, c) \ {g}
    BY <1>2
  <2>2. Cardinality(Of(R, c)) = IF g \in Of(W, c)
                                 THEN Cardinality(Of(W, c)) - 1
                                 ELSE Cardinality(Of(W, c))
    <3> HIDE DEF Of
    <3> QED
      BY <1>7, <2>1, FS_RemoveElement
  <2>3. g \in Of(W, c) <=> SectionCount(g) = c
    BY <1>2
  <2>4. F[c] = IF SectionCount(g) = c THEN sectionCountFrequency[c] - 1
                ELSE sectionCountFrequency[c]
    BY <1>1, <1>2, <1>4, <1>5
  <2>5. sectionCountFrequency[c] = Cardinality(Of(W, c))
    BY <1>1
  <2> HIDE DEF Of, F
  <2> QED
    BY <2>2, <2>3, <2>4, <2>5
<1> DEFINE M == {0} \cup {c \in 0..maxSectionCount : F[c] # 0}
<1>9. MaxWithout(g) = Maximum(M)
  BY DEF MaxWithout
<1>10. M \in SUBSET (0..maxSectionCount) /\ M # {} /\ maxSectionCount \in Nat
  BY <1>1, <1>4
<1>11. \A h \in R : SectionCount(h) \in M
  <2> TAKE h \in R
  <2>1. SectionCount(h) \in 0..maxSectionCount /\ SectionCount(h) \in 0..G
    BY <1>1, <1>2, <1>3, <1>4
  <2>2. h \in Of(R, SectionCount(h))
    OBVIOUS
  <2>3. Cardinality(Of(R, SectionCount(h))) # 0
    <3> HIDE DEF Of
    <3> QED
      BY <1>7, <2>1, <2>2, FS_EmptySet
  <2>4. F[SectionCount(h)] # 0
    BY <1>8, <2>1, <2>3
  <2> HIDE DEF F
  <2> QED
    BY <2>1, <2>4
<1> HIDE DEF M
<1>12. Maximum(M) \in M /\ \A c \in M : c <= Maximum(M)
  BY <1>10, GreatestElement
<1>13. MaxWithout(g) \in 0..maxSectionCount
  BY <1>9, <1>10, <1>12
<1>14. \A h \in R : SectionCount(h) <= MaxWithout(g)
  BY <1>9, <1>11, <1>12
<1> HIDE DEF F, Of
<1> QED
  BY <1>2, <1>4, <1>6, <1>8, <1>13, <1>14 DEF G, R, F, Of

-----------------------------------------------------------------------------
(* Each step keeps the invariant.                                          *)

LEMMA FrontStepKeeps ==
  ASSUME IsTable(seg), OrderInv, FrontStep, UNCHANGED seg
  PROVE  OrderInv'
<1> DEFINE slot == IF seg[worklist[nextSlot + 1]].offset = 0
                     THEN nextSlot + 1 ELSE nextSlot
<1>1. /\ worklist \in Seq(SegIds) /\ Len(worklist) = Len(seg)
      /\ Len(seg) \in Nat /\ i \in 0..Len(seg) - 1 /\ nextSlot \in 0..i
  BY DEF OrderInv, OrderTypeOK, FrontStep, IsTable
<1>2. SegIds' = SegIds /\ GreatestCount(seg)' = GreatestCount(seg)
      /\ \A h : SectionCount(h)' = SectionCount(h)
  BY DEF SegIds, GreatestCount, SectionCount
<1>3. /\ worklist' \in Seq(SegIds) /\ Len(worklist') = Len(worklist)
      /\ Members(worklist') = Members(worklist)
      /\ Once(worklist) => Once(worklist')
      /\ nextSlot' \in 0..i + 1
  <2>1. CASE i # nextSlot /\ StartsAtZero(worklist[i + 1])
    <3>1. slot \in 0..i /\ slot \in Nat
      BY <1>1, <2>1
    <3>2. worklist' = Swapped(i, slot) /\ nextSlot' = slot + 1
      BY <2>1 DEF FrontStep
    <3> HIDE DEF slot
    <3> DEFINE a == i + 1
               b == slot + 1
    <3>3. a \in 1..Len(worklist) /\ b \in 1..Len(worklist)
      BY <1>1, <3>1
    <3>4. worklist' = [worklist EXCEPT ![a] = worklist[b], ![b] = worklist[a]]
      BY <3>2 DEF Swapped
    <3> HIDE DEF a, b
    <3>5. nextSlot' \in 0..i + 1
      BY <1>1, <3>1, <3>2
    <3> DEFINE w == [worklist EXCEPT ![a] = worklist[b], ![b] = worklist[a]]
    <3>6. /\ w \in Seq(SegIds) /\ Len(w) = Len(worklist)
          /\ Members(w) = Members(worklist)
          /\ Once(worklist) => Once(w)
      BY <1>1, <3>3, MembersOfSwap
    <3>7. worklist' = w
      BY <3>4
    <3> HIDE DEF w
    <3> QED
      BY <3>5, <3>6, <3>7
  <2>2. CASE ~(i # nextSlot /\ StartsAtZero(worklist[i + 1]))
    BY <1>1, <2>2 DEF FrontStep
  <2> QED
    BY <2>1, <2>2
<1>4. OrderTypeOK'
  BY <1>1, <1>2, <1>3 DEF OrderInv, OrderTypeOK, FrontStep
<1>5. EachSegmentOnce'
  BY <1>2, <1>3 DEF OrderInv, EachSegmentOnce, FrontStep
<1>6. CountsExact'
  BY <1>2, <1>3 DEF OrderInv, CountsExact, FrontStep
<1> QED
  BY <1>4, <1>5, <1>6 DEF OrderInv

LEMMA RequeueKeeps ==
  ASSUME IsTable(seg), OrderInv, Requeue, UNCHANGED seg
  PROVE  /\ OrderInv'
         /\ Members(worklist') = Members(worklist)
<1> DEFINE g == Head(worklist)
           R == Members(Tail(worklist))
<1>1. /\ worklist \in Seq(SegIds) /\ worklist # <<>>
      /\ Once(worklist) /\ g \in SegIds /\ Tail(worklist) \in Seq(SegIds)
  BY HeadTailProperties
     DEF OrderInv, OrderTypeOK, EachSegmentOnce, Requeue
<1>2. SegIds' = SegIds /\ GreatestCount(seg)' = GreatestCount(seg)
      /\ \A h : SectionCount(h)' = SectionCount(h)
  BY DEF SegIds, GreatestCount, SectionCount
<1>3. /\ SectionCount(g) < MaxWithout(g)
      /\ worklist' = Append(Tail(worklist), g)
      /\ maxSectionCount' = MaxWithout(g)
      /\ phase = "queue" /\ UNCHANGED <<phase, sectionCountFrequency, i,
                                         nextSlot, res>>
  BY DEF Requeue, MustWait
<1>4. Members(worklist) = {g} \cup R /\ g \notin R /\ Once(Tail(worklist))
  BY <1>1, MembersOfTail, OnceInTail
<1>5. /\ worklist' \in Seq(SegIds)
      /\ Members(worklist') = Members(worklist) /\ Once(worklist')
  <2> DEFINE T == Tail(worklist)
  <2>1. worklist' = Append(T, g) /\ T \in Seq(SegIds) /\ g \in SegIds
        /\ Once(T) /\ g \notin Members(T)
        /\ Members(worklist) = {g} \cup Members(T)
    BY <1>1, <1>3, <1>4
  <2> HIDE DEF T, g
  <2>2. Append(T, g) \in Seq(SegIds)
    BY <2>1, AppendProperties
  <2>3. Members(Append(T, g)) = Members(T) \cup {g}
    BY <2>1, MembersOfAppend
  <2>4. Once(Append(T, g))
    BY <2>1, OnceInAppend
  <2> QED
    BY <2>1, <2>2, <2>3, <2>4
<1>6. /\ MaxWithout(g) \in 0..maxSectionCount
      /\ SectionCount(g) \in Nat
      /\ \A h \in R : SectionCount(h) <= MaxWithout(g)
  BY <1>1, CountsWithoutHead
<1>7. \A h \in Members(worklist) : SectionCount(h) <= MaxWithout(g)
  <2>1. SectionCount(g) <= MaxWithout(g)
    BY <1>3, <1>6
  <2> HIDE DEF R, g
  <2> QED
    BY <1>4, <1>6, <2>1
<1> HIDE DEF g, R
<1>8. OrderTypeOK'
  BY <1>2, <1>3, <1>5, <1>6, GreatestCountBounds DEF OrderInv, OrderTypeOK
<1>9. EachSegmentOnce'
  BY <1>2, <1>3, <1>5 DEF OrderInv, EachSegmentOnce
<1>10. CountsExact'
  BY <1>2, <1>3, <1>5, <1>7 DEF OrderInv, CountsExact
<1> QED
  BY <1>5, <1>8, <1>9, <1>10 DEF OrderInv

LEMMA TakeKeeps ==
  ASSUME IsTable(seg), OrderInv, Take, UNCHANGED seg
  PROVE  OrderInv'
<1> DEFINE g == Head(worklist)
           R == Members(Tail(worklist))
<1>1. /\ worklist \in Seq(SegIds) /\ worklist # <<>> /\ res \in Seq(SegIds)
      /\ Once(worklist) /\ Once(res)
      /\ g \in SegIds /\ Tail(worklist) \in Seq(SegIds)
  BY HeadTailProperties DEF OrderInv, OrderTypeOK, EachSegmentOnce, Take
<1>2. SegIds' = SegIds /\ GreatestCount(seg)' = GreatestCount(seg)
      /\ \A h : SectionCount(h)' = SectionCount(h)
  BY DEF SegIds, GreatestCount, SectionCount
<1>3. /\ worklist' = Tail(worklist) /\ res' = Append(res, g)
      /\ sectionCountFrequency' = FrequencyWithout(g)
      /\ maxSectionCount' = MaxWithout(g)
      /\ phase = "queue" /\ UNCHANGED <<phase, i, nextSlot>>
  BY DEF Take
<1>4. Members(worklist) = {g} \cup R /\ g \notin R /\ Once(Tail(worklist))
  BY <1>1, MembersOfTail, OnceInTail
<1>5. g \notin Members(res)
  BY <1>4 DEF OrderInv, EachSegmentOnce
<1>6. /\ res' \in Seq(SegIds) /\ Once(res')
      /\ Members(res') = Members(res) \cup {g}
  BY <1>1, <1>3, <1>5, AppendProperties, MembersOfAppend, OnceInAppend
<1>7. /\ FrequencyWithout(g) \in [0..GreatestCount(seg) -> Int]
      /\ \A c \in 0..GreatestCount(seg) :
            FrequencyWithout(g)[c] =
              Cardinality({h \in R : SectionCount(h) = c})
      /\ MaxWithout(g) \in 0..maxSectionCount
      /\ \A h \in R : SectionCount(h) <= MaxWithout(g)
  BY <1>1, CountsWithoutHead
<1>8. GreatestCount(seg) \in Nat
  BY GreatestCountBounds
<1>9. Members(worklist') = R
  BY <1>3
<1> HIDE DEF g, R
<1>10. OrderTypeOK'
  BY <1>1, <1>2, <1>3, <1>6, <1>7, <1>8 DEF OrderInv, OrderTypeOK
<1>11. EachSegmentOnce'
  BY <1>2, <1>3, <1>4, <1>5, <1>6, <1>9 DEF OrderInv, EachSegmentOnce
<1>12. CountsExact'
  <2>1. DOMAIN sectionCountFrequency' = 0..GreatestCount(seg)
    BY <1>3, <1>7
  <2> QED
    BY <1>2, <1>3, <1>7, <1>9, <2>1 DEF CountsExact
<1> QED
  BY <1>10, <1>11, <1>12 DEF OrderInv

LEMMA OrderStepKeeps ==
  ASSUME IsTable(seg), OrderInv, OrderNext, UNCHANGED seg
  PROVE  OrderInv'
<1>1. SegIds' = SegIds /\ GreatestCount(seg)' = GreatestCount(seg)
      /\ \A h : SectionCount(h)' = SectionCount(h)
  BY DEF SegIds, GreatestCount, SectionCount
<1>2. CASE FrontStep
  BY <1>2, FrontStepKeeps
<1>3. CASE FrontDone
  BY <1>1, <1>3
     DEF FrontDone, OrderInv, OrderTypeOK, EachSegmentOnce, CountsExact
<1>4. CASE Requeue
  BY <1>4, RequeueKeeps
<1>5. CASE Take
  BY <1>5, TakeKeeps
<1>6. CASE QueueDone
  <2>1. Members(worklist) = {}
    BY <1>6 DEF QueueDone, Members
  <2> QED
    BY <1>1, <1>6, <2>1
       DEF QueueDone, OrderInv, OrderTypeOK, EachSegmentOnce, CountsExact
<1> QED
  BY <1>2, <1>3, <1>4, <1>5, <1>6 DEF OrderNext

(* The segment that is taken is contained in none that is still in the     *)
(* list: it has as many sections as any of them, or the test was made.     *)
LEMMA TakenIsOutermost ==
  ASSUME IsTable(seg), OrderInv, Take,
         NEW h \in Members(Tail(worklist))
  PROVE  ~Contained(Head(worklist), h)
<1> DEFINE g == Head(worklist)
<1>1. worklist \in Seq(SegIds) /\ worklist # <<>>
  BY DEF OrderInv, OrderTypeOK, Take
<1>2. ~MustWait(g, Tail(worklist))
  BY DEF Take
<1>3. CASE SectionCount(g) < MaxWithout(g)
  <2>1. \A x \in DOMAIN Tail(worklist) : ~Contained(g, Tail(worklist)[x])
    BY <1>2, <1>3 DEF MustWait
  <2> QED
    BY <2>1 DEF Members
<1>4. CASE ~(SectionCount(g) < MaxWithout(g))
  <2>1. /\ SectionCount(h) <= MaxWithout(g) /\ MaxWithout(g) \in Int
        /\ SectionCount(g) \in Nat /\ SectionCount(h) \in Nat
    <3>1. h \in SegIds /\ g \in SegIds
      BY <1>1, HeadTailProperties, LenProperties DEF Members
    <3>2. /\ SectionCount(h) \in Nat /\ SectionCount(g) \in Nat
          /\ maxSectionCount \in Int
      BY <3>1, GreatestCountBounds
         DEF SegIds, SectionCount, OrderInv, OrderTypeOK
    <3> QED
      BY <1>1, <3>2, CountsWithoutHead
  <2>2. ~(SectionCount(g) < SectionCount(h))
    <3> HIDE DEF g
    <3> QED
      BY <1>4, <2>1
  <2> QED
    BY <2>2 DEF Contained, IsSubsequence, SectionCount
<1> QED
  BY <1>3, <1>4

LEMMA ContainersStayFirst ==
  ASSUME IsTable(seg), OrderInv, ContainersFirst, OrderNext, UNCHANGED seg
  PROVE  ContainersFirst'
<1>1. \A g, h : Contained(g, h)' = Contained(g, h)
  BY DEF Contained
<1>2. /\ worklist \in Seq(SegIds) /\ res \in Seq(SegIds)
  BY DEF OrderInv, OrderTypeOK
<1>3. CASE FrontStep
  <2>1. Members(worklist') = Members(worklist) /\ res' = res
    <3>1. OrderInv' /\ res' = res
      BY <1>3, FrontStepKeeps DEF FrontStep
    <3>2. Members(worklist') = SegIds \ Members(res)
          /\ Members(worklist) = SegIds \ Members(res)
      BY <3>1 DEF OrderInv, EachSegmentOnce, SegIds
    <3> QED
      BY <3>1, <3>2
  <2> QED
    BY <1>1, <2>1 DEF ContainersFirst
<1>4. CASE FrontDone \/ QueueDone
  BY <1>1, <1>4 DEF ContainersFirst, FrontDone, QueueDone
<1>5. CASE Requeue
  <2>1. Members(worklist') = Members(worklist) /\ res' = res
    BY <1>5, RequeueKeeps DEF Requeue
  <2> QED
    BY <1>1, <2>1 DEF ContainersFirst
<1>6. CASE Take
  <2> DEFINE g == Head(worklist)
             R == Members(Tail(worklist))
  <2>1. /\ Members(worklist) = {g} \cup R /\ g \in SegIds
        /\ Members(worklist') = R
        /\ res' = Append(res, g)
    BY <1>2, <1>6, MembersOfTail, HeadTailProperties DEF Take
  <2>2. \A h \in R : ~Contained(g, h)
    BY <1>6, TakenIsOutermost
  <2>3. /\ Len(res) \in Nat /\ DOMAIN res = 1..Len(res)
        /\ DOMAIN res' = 1..Len(res) + 1 /\ Len(res') = Len(res) + 1
        /\ \A x \in 1..Len(res) : res'[x] = res[x]
        /\ res'[Len(res) + 1] = g
    BY <1>2, <2>1, LenProperties, AppendProperties
  <2> HIDE DEF g, R
  <2>4. ASSUME NEW p \in 1..Len(res) + 1, NEW h \in R
        PROVE  ~Contained(res'[p], h)
    <3>1. CASE p = Len(res) + 1
      BY <2>2, <2>3, <3>1
    <3>2. CASE p # Len(res) + 1
      BY <2>1, <2>3, <3>2 DEF ContainersFirst
    <3> QED
      BY <3>1, <3>2
  <2>5. ASSUME NEW p \in 1..Len(res) + 1, NEW q \in p + 1..Len(res) + 1
        PROVE  ~Contained(res'[p], res'[q])
    <3>1. p \in 1..Len(res) /\ res'[p] = res[p]
      BY <2>3
    <3>2. CASE q = Len(res) + 1
      BY <2>1, <2>3, <3>1, <3>2 DEF ContainersFirst
    <3>3. CASE q # Len(res) + 1
      BY <2>3, <3>1, <3>3 DEF ContainersFirst
    <3> QED
      BY <3>2, <3>3
  <2> QED
    BY <1>1, <2>1, <2>3, <2>4, <2>5 DEF ContainersFirst
<1> QED
  BY <1>3, <1>4, <1>5, <1>6 DEF OrderNext

-----------------------------------------------------------------------------
(* The theorems                                                            *)

RunInv == IsTable(seg) /\ OrderInv /\ ContainersFirst

LEMMA Initially == seg \in SegTables /\ OrderInit => RunInv
<1> SUFFICES ASSUME seg \in SegTables, OrderInit
             PROVE  RunInv
  OBVIOUS
<1>1. IsTable(seg)
  BY SegTablesAssumption
<1>2. ContainersFirst
  BY DEF ContainersFirst, OrderInit
<1> QED
  BY <1>1, <1>2, InitialOrder DEF RunInv

LEMMA StepwiseInvariant ==
  RunInv /\ [OrderNext /\ UNCHANGED seg]_<<seg, orderVars>> => RunInv'
<1> SUFFICES ASSUME RunInv, [OrderNext /\ UNCHANGED seg]_<<seg, orderVars>>
             PROVE  RunInv'
  OBVIOUS
<1>1. CASE OrderNext /\ UNCHANGED seg
  <2>1. IsTable(seg)'
    BY <1>1 DEF RunInv, IsTable
  <2> QED
    BY <1>1, <2>1, OrderStepKeeps, ContainersStayFirst DEF RunInv
<1>2. CASE UNCHANGED <<seg, orderVars>>
  BY <1>2
     DEF RunInv, orderVars, IsTable, OrderInv, OrderTypeOK, EachSegmentOnce,
         CountsExact, ContainersFirst, SegIds, SectionCount, GreatestCount,
         Contained
<1> QED
  BY <1>1, <1>2

THEOREM Invariance == OrderSpec => []RunInv
BY Initially, StepwiseInvariant, PTL DEF OrderSpec

(* get_ordered_segments() indexes its lists and its counters in range, for *)
(* a table of any length.                                                  *)
THEOREM OrderTypeCorrect == OrderSpec => []OrderTypeOK
<1>1. RunInv => OrderTypeOK
  BY DEF RunInv, OrderInv
<1> QED
  BY <1>1, Invariance, PTL

(* It returns every segment once.                                          *)
THEOREM OrderIsPermutation == OrderSpec => []EachSegmentOnce
<1>1. RunInv => EachSegmentOnce
  BY DEF RunInv, OrderInv
<1> QED
  BY <1>1, Invariance, PTL

(* The counters that spare the containment tests agree with the list.      *)
THEOREM CountsCorrect == OrderSpec => []CountsExact
<1>1. RunInv => CountsExact
  BY DEF RunInv, OrderInv
<1> QED
  BY <1>1, Invariance, PTL

(* So no segment precedes one that contains it, whatever the test spared.  *)
THEOREM ContainersCorrect == OrderSpec => []ContainersFirst
<1>1. RunInv => ContainersFirst
  BY DEF RunInv
<1> QED
  BY <1>1, Invariance, PTL

-----------------------------------------------------------------------------
(* Words                                                                   *)

LEMMA PlusMinus ==
  ASSUME NEW a \in Words, NEW b \in Words
  PROVE  /\ Plus(a, b) \in Words /\ Minus(a, b) \in Words
         /\ a + b < Word => Plus(a, b) = a + b
BY LayoutAssumption DEF Words, Plus, Minus

LEMMA Remainders ==
  ASSUME NEW a \in Nat, NEW b \in Words, b > 0
  PROVE  a % b \in Words /\ a % b < b
BY LayoutAssumption DEF Words

LEMMA Padding ==
  ASSUME NEW pos \in Words, NEW align \in Words
  PROVE  PadTo(pos, align) \in Words
<1>1. CASE align > 1
  <2>1. pos \in Nat /\ align \in Nat
    BY LayoutAssumption DEF Words
  <2>2. pos % align \in Nat /\ pos % align < align
    BY <1>1, <2>1, Remainders
  <2> DEFINE r == align - (pos % align)
  <2>3. r \in Nat
    BY <2>1, <2>2
  <2>4. PadTo(pos, align) = r % align
    BY <1>1 DEF PadTo
  <2> HIDE DEF r
  <2> QED
    BY <1>1, <2>1, <2>3, <2>4, Remainders
<1>2. CASE ~(align > 1)
  BY <1>2, LayoutAssumption DEF PadTo, Words
<1> QED
  BY <1>1, <1>2

LEMMA PageAdjustments ==
  ASSUME NEW pos \in Words, NEW vaddr \in Words, NEW align \in Words
  PROVE  PageAdjustment(pos, vaddr, align) \in Words
<1> DEFINE unit == Atleast1(align)
<1>1. unit \in Words /\ unit > 0
  BY LayoutAssumption DEF Words, Atleast1
<1>2. pos \in Nat /\ vaddr \in Nat /\ \A w \in Words : w \in Nat
  BY LayoutAssumption DEF Words
<1> HIDE DEF unit
<1>3. pos % unit \in Words /\ vaddr % unit \in Words
  BY <1>1, <1>2, Remainders
<1>4. Plus(align, Minus(vaddr % unit, pos % unit)) \in Words
  BY <1>3, PlusMinus
<1> DEFINE d == Plus(align, Minus(vaddr % unit, pos % unit))
<1>5. PageAdjustment(pos, vaddr, align) = d % unit
  BY DEF PageAdjustment, unit
<1> HIDE DEF d
<1>6. d \in Nat
  BY <1>2, <1>4 DEF d
<1> QED
  BY <1>1, <1>5, <1>6, Remainders

-----------------------------------------------------------------------------
(* What the types give                                                     *)

LEMMA SectionsTyped ==
  ASSUME LayoutTypeOK
  PROVE  /\ sec \in [DOMAIN sec -> Section] /\ DOMAIN sec \subseteq Nat
         /\ 0 \in DOMAIN sec /\ sec[0].type = "NULL"
         /\ \A x \in DOMAIN sec : 0..x \subseteq DOMAIN sec
<1> DEFINE n == Cardinality(DOMAIN sec) - 1
<1>1. n \in Nat /\ sec \in [0..n -> Section] /\ sec[0].type = "NULL"
  BY DEF LayoutTypeOK, IsSections
<1> HIDE DEF n
<1> QED
  BY <1>1

LEMMA TypedIsTable ==
  ASSUME NEW S, NEW t, IsSegments(t, S)
  PROVE  /\ IsTable(t)
         /\ DOMAIN t = 1..Len(t)
         /\ \A g \in 1..Len(t) : t[g] \in Segment(S)
<1>1. Len(t) \in Nat /\ DOMAIN t = 1..Len(t)
      /\ \A g \in 1..Len(t) : t[g] \in Segment(S)
  BY LenProperties DEF IsSegments
<1>2. \A g \in 1..Len(t) : Len(t[g].sections) \in Nat
  BY <1>1, LenProperties DEF Segment
<1> QED
  BY <1>1, <1>2 DEF IsTable

LEMMA CurrentTyped ==
  ASSUME LayoutTypeOK, OrderInv, k < Len(res)
  PROVE  /\ Current \in 1..Len(seg)
         /\ seg[Current] \in Segment(DOMAIN sec)
<1>1. res \in Seq(SegIds) /\ k + 1 \in 1..Len(res)
  BY LenProperties DEF OrderInv, OrderTypeOK, LayoutTypeOK
<1>2. res[k + 1] \in 1..Len(seg)
  BY <1>1, LenProperties DEF SegIds
<1> QED
  BY <1>2, TypedIsTable DEF Current, LayoutTypeOK

LEMMA VisitedTyped ==
  ASSUME LayoutTypeOK, OrderInv, AtSection
  PROVE  /\ Current \in 1..Len(seg) /\ seg[Current] \in Segment(DOMAIN sec)
         /\ Visited \in DOMAIN sec /\ sec[Visited] \in Section
         /\ j + 1 <= Len(seg[Current].sections)
<1>1. k < Len(res) /\ j \in Nat /\ j < Len(seg[Current].sections)
  BY DEF AtSection, LayoutTypeOK
<1>2. Current \in 1..Len(seg) /\ seg[Current] \in Segment(DOMAIN sec)
  BY <1>1, CurrentTyped
<1> DEFINE list == seg[Current].sections
<1>3. list \in Seq(DOMAIN sec)
  BY <1>2 DEF Segment
<1> HIDE DEF list
<1>4. j + 1 \in 1..Len(list)
  BY <1>1, <1>3, LenProperties DEF list
<1>5. list[j + 1] \in DOMAIN sec
  BY <1>3, <1>4, LenProperties
<1>6. Visited \in DOMAIN sec
  BY <1>5 DEF Visited, list
<1> QED
  BY <1>2, <1>4, <1>6, SectionsTyped DEF list

(* The order does not depend on what the layout changes of a segment.      *)
LEMMA OrderUnmoved ==
  ASSUME OrderInv, UNCHANGED orderVars, Len(seg') = Len(seg),
         \A g \in 1..Len(seg) : seg'[g].sections = seg[g].sections
  PROVE  OrderInv'
<1>1. SegIds' = SegIds
  BY DEF SegIds
<1>2. \A g \in SegIds : SectionCount(g)' = SectionCount(g)
  BY DEF SegIds, SectionCount
<1>3. GreatestCount(seg') = GreatestCount(seg)
  <2>1. {Len(seg'[g].sections) : g \in 1..Len(seg')}
          = {Len(seg[g].sections) : g \in 1..Len(seg)}
    OBVIOUS
  <2> QED
    BY <2>1 DEF GreatestCount
<1>4. Members(worklist) \subseteq SegIds
  BY DEF OrderInv, EachSegmentOnce
<1>5. OrderTypeOK'
  BY <1>1, <1>3 DEF OrderInv, OrderTypeOK, orderVars
<1>6. EachSegmentOnce'
  BY <1>1 DEF OrderInv, EachSegmentOnce, orderVars
<1>7. CountsExact'
  <2>1. \A c : {g \in Members(worklist) : SectionCount(g)' = c}
                 = {g \in Members(worklist) : SectionCount(g) = c}
    BY <1>2, <1>4
  <2> QED
    BY <1>2, <1>4, <2>1 DEF OrderInv, CountsExact, orderVars
<1> QED
  BY <1>5, <1>6, <1>7 DEF OrderInv

-----------------------------------------------------------------------------
(* The layout keeps behind it what it has placed.                          *)

Behind == Laying /\ ~wrapped => HeadersEnd(seg) <= current_file_pos

LayoutInv ==
  OrderInv /\ LayoutTypeOK /\ HeadersEnd(seg) < Word /\ Behind /\ Disjoint

PlacedExtents ==
  \A x \in Placed : /\ x \in DOMAIN sec
                    /\ sec[x].offset \in Int /\ sec[x].size \in Int

LEMMA PlacedTyped == LayoutTypeOK => PlacedExtents
<1> SUFFICES ASSUME LayoutTypeOK
             PROVE  PlacedExtents
  OBVIOUS
<1>1. \A x \in DOMAIN sec : sec[x] \in Section
  BY SectionsTyped
<1> QED
  BY <1>1, LayoutAssumption DEF PlacedExtents, Placed, Section, Words

LEMMA PlacedTypedNext == LayoutTypeOK' => PlacedExtents'
BY PlacedTyped, PTL

LEMMA PositionsTyped ==
  ASSUME LayoutInv, LayoutTypeOK'
  PROVE  /\ HeadersEnd(seg) \in Int
         /\ current_file_pos \in Int /\ current_file_pos' \in Int
<1>1. Len(seg) \in Nat
  BY TypedIsTable DEF LayoutInv, LayoutTypeOK, IsTable
<1>2. HeadersEnd(seg) \in Int
  BY <1>1, LayoutAssumption DEF HeadersEnd
<1>3. current_file_pos \in Words /\ current_file_pos' \in Words
  BY DEF LayoutInv, LayoutTypeOK
<1> QED
  BY <1>2, <1>3, LayoutAssumption DEF Words

(* A step that moves the position on and places nothing                    *)
LEMMA PlacingNone ==
  ASSUME LayoutInv, Laying, wrapped => wrapped', UNCHANGED sec,
         HeadersEnd(seg') = HeadersEnd(seg),
         ~wrapped' => current_file_pos <= current_file_pos',
         Placed' \subseteq Placed, LayoutTypeOK'
  PROVE  Behind' /\ Disjoint'
<1> SUFFICES ASSUME ~wrapped'
             PROVE  /\ HeadersEnd(seg) <= current_file_pos'
                    /\ \A x \in Placed : /\ HeadersEnd(seg) <= Begin(x)
                                         /\ End(x) <= current_file_pos'
                    /\ \A x, y \in Placed : x # y =>
                          End(x) <= Begin(y) \/ End(y) <= Begin(x)
  BY DEF Behind, Disjoint, Begin, End
<1>1. /\ HeadersEnd(seg) <= current_file_pos
      /\ \A x \in Placed : /\ HeadersEnd(seg) <= Begin(x)
                           /\ End(x) <= current_file_pos
      /\ \A x, y \in Placed : x # y =>
            End(x) <= Begin(y) \/ End(y) <= Begin(x)
  BY DEF LayoutInv, Behind, Disjoint
<1>2. \A x \in Placed : Begin(x) \in Int /\ End(x) \in Int
  BY PlacedTyped DEF LayoutInv, PlacedExtents, Begin, End
<1> QED
  BY <1>1, <1>2, PositionsTyped

(* A step that places one section between the old position and the new     *)
LEMMA PlacingOne ==
  ASSUME LayoutInv, Laying, wrapped => wrapped', NEW x,
         HeadersEnd(seg') = HeadersEnd(seg),
         \A y \in DOMAIN sec : y # x => sec'[y] = sec[y],
         Placed' \subseteq Placed \cup {x}, LayoutTypeOK',
         ~wrapped' => current_file_pos <= current_file_pos',
         ~wrapped' /\ x \in Placed' =>
           /\ current_file_pos <= sec'[x].offset
           /\ sec'[x].offset + sec'[x].size <= current_file_pos'
  PROVE  Behind' /\ Disjoint'
<1> SUFFICES ASSUME ~wrapped'
             PROVE  /\ HeadersEnd(seg) <= current_file_pos'
                    /\ \A y \in Placed' :
                         /\ HeadersEnd(seg) <= sec'[y].offset
                         /\ sec'[y].offset + sec'[y].size <= current_file_pos'
                    /\ \A y, z \in Placed' : y # z =>
                         \/ sec'[y].offset + sec'[y].size <= sec'[z].offset
                         \/ sec'[z].offset + sec'[z].size <= sec'[y].offset
  BY DEF Behind, Disjoint, Begin, End
<1>1. /\ HeadersEnd(seg) <= current_file_pos
      /\ \A y \in Placed : /\ HeadersEnd(seg) <= sec[y].offset
                           /\ sec[y].offset + sec[y].size <= current_file_pos
      /\ \A y, z \in Placed : y # z =>
            \/ sec[y].offset + sec[y].size <= sec[z].offset
            \/ sec[z].offset + sec[z].size <= sec[y].offset
  BY DEF LayoutInv, Behind, Disjoint, Begin, End
<1>2. /\ HeadersEnd(seg) \in Int /\ current_file_pos \in Int
      /\ current_file_pos' \in Int
  BY PositionsTyped
<1>3. \A y \in Placed' : /\ sec'[y].offset \in Int /\ sec'[y].size \in Int
                         /\ y # x => y \in Placed /\ sec'[y] = sec[y]
  <2>1. \A y \in Placed : y \in DOMAIN sec
    BY DEF Placed
  <2> QED
    BY <2>1, PlacedTypedNext DEF PlacedExtents
<1>4. current_file_pos <= current_file_pos'
  OBVIOUS
<1>5. HeadersEnd(seg) <= current_file_pos'
  BY <1>1, <1>2, <1>4
<1>6. ASSUME NEW y \in Placed', y # x
      PROVE  /\ HeadersEnd(seg) <= sec'[y].offset
             /\ sec'[y].offset + sec'[y].size <= current_file_pos
  BY <1>1, <1>3, <1>6
<1>7. ASSUME x \in Placed'
      PROVE  /\ current_file_pos <= sec'[x].offset
             /\ sec'[x].offset + sec'[x].size <= current_file_pos'
  BY <1>7
<1>8. ASSUME NEW y \in Placed'
      PROVE  /\ HeadersEnd(seg) <= sec'[y].offset
             /\ sec'[y].offset + sec'[y].size <= current_file_pos'
  BY <1>1, <1>2, <1>3, <1>4, <1>6, <1>7
<1>9. ASSUME NEW y \in Placed', NEW z \in Placed', y # z
      PROVE  \/ sec'[y].offset + sec'[y].size <= sec'[z].offset
             \/ sec'[z].offset + sec'[z].size <= sec'[y].offset
  <2>1. CASE y # x /\ z # x
    BY <1>1, <1>3, <1>9, <2>1
  <2>2. CASE y = x
    <3>1. sec'[z].offset + sec'[z].size <= current_file_pos
      BY <1>6, <1>9, <2>2
    <3>2. current_file_pos <= sec'[y].offset
      BY <1>7, <2>2
    <3> QED
      BY <1>2, <1>3, <3>1, <3>2
  <2>3. CASE z = x
    <3>1. sec'[y].offset + sec'[y].size <= current_file_pos
      BY <1>6, <1>9, <2>3
    <3>2. current_file_pos <= sec'[z].offset
      BY <1>7, <2>3
    <3> QED
      BY <1>2, <1>3, <3>1, <3>2
  <2> QED
    BY <2>1, <2>2, <2>3
<1> QED
  BY <1>5, <1>8, <1>9

-----------------------------------------------------------------------------
(* The steps                                                               *)

LEMMA AlignedRow ==
  ASSUME NEW S, NEW r \in Segment(S), NEW m \in Words
  PROVE  /\ [r EXCEPT !.align = m] \in Segment(S)
         /\ [r EXCEPT !.align = m].sections = r.sections
BY DEF Segment

LEMMA AlignedTyped ==
  ASSUME LayoutTypeOK
  PROVE  /\ IsSegments(Aligned(seg), DOMAIN sec)
         /\ Len(Aligned(seg)) = Len(seg)
         /\ \A g \in 1..Len(seg) : Aligned(seg)[g].sections = seg[g].sections
<1>1. /\ seg \in Seq(Segment(DOMAIN sec)) /\ Len(seg) \in Nat
      /\ DOMAIN seg = 1..Len(seg)
      /\ \A g \in 1..Len(seg) : seg[g] \in Segment(DOMAIN sec)
  BY TypedIsTable DEF LayoutTypeOK, IsTable, IsSegments
<1> DEFINE A(g) == {seg[g].align} \cup {sec[x].align : x \in Members(seg[g].sections)}
<1>2. ASSUME NEW g \in 1..Len(seg)
      PROVE  Maximum(A(g)) \in Words
  <2>1. seg[g].align \in Words /\ seg[g].sections \in Seq(DOMAIN sec)
    BY <1>1 DEF Segment
  <2>2. Members(seg[g].sections) \subseteq DOMAIN sec
    BY <2>1, LenProperties DEF Members
  <2>3. \A x \in DOMAIN sec : sec[x].align \in Words
    BY SectionsTyped DEF Section
  <2>4. A(g) \in SUBSET Words /\ A(g) # {}
    BY <2>1, <2>2, <2>3
  <2> HIDE DEF A
  <2>5. Word - 1 \in Nat
    BY LayoutAssumption
  <2>6. Maximum(A(g)) \in A(g)
    BY <2>4, <2>5, GreatestElement DEF Words
  <2> QED
    BY <2>4, <2>6
<1>3. Aligned(seg) = [g \in 1..Len(seg) |-> [seg[g] EXCEPT !.align = Maximum(A(g))]]
  BY <1>1 DEF Aligned
<1> HIDE DEF A
<1>4. \A g \in 1..Len(seg) : /\ Aligned(seg)[g] \in Segment(DOMAIN sec)
                             /\ Aligned(seg)[g].sections = seg[g].sections
  <2> TAKE g \in 1..Len(seg)
  <2> DEFINE m == Maximum(A(g))
  <2>1. m \in Words
    BY <1>2
  <2>2. Aligned(seg)[g] = [seg[g] EXCEPT !.align = m]
    BY <1>3
  <2> HIDE DEF m
  <2> QED
    BY <1>1, <2>1, <2>2, AlignedRow
<1>5. Aligned(seg) \in [1..Len(seg) -> Segment(DOMAIN sec)]
  BY <1>3, <1>4
<1>6. Aligned(seg) \in Seq(Segment(DOMAIN sec)) /\ Len(Aligned(seg)) = Len(seg)
  BY <1>1, <1>5, SeqDef, LenProperties
<1> QED
  BY <1>4, <1>6 DEF IsSegments

LEMMA InitialOrderNext == (IsTable(seg) /\ OrderInit)' => OrderInv'
<1>1. IsTable(seg) /\ OrderInit => OrderInv
  BY InitialOrder
<1> QED
  BY <1>1, PTL

(* The order is made anew: nothing is needed of the previous one.          *)
LEMMA BeginSaveKeeps ==
  ASSUME LayoutTypeOK, HeadersEnd(seg) < Word, BeginSave
  PROVE  LayoutInv'
<1>1. LayoutTypeOK /\ HeadersEnd(seg) < Word
  OBVIOUS
<1>2. /\ IsSegments(seg', DOMAIN sec) /\ Len(seg') = Len(seg)
      /\ \A g \in 1..Len(seg) : seg'[g].sections = seg[g].sections
      /\ sec' = sec /\ IsTable(seg') /\ Len(seg) \in Nat
  <2>1. /\ IsSegments(seg', DOMAIN sec) /\ Len(seg') = Len(seg)
        /\ \A g \in 1..Len(seg) : seg'[g].sections = seg[g].sections
        /\ sec' = sec
    BY <1>1, AlignedTyped DEF BeginSave
  <2>2. IsTable(seg')
    BY <2>1, TypedIsTable
  <2> QED
    BY <2>1, <2>2 DEF IsTable
<1>3. OrderInv'
  <2>1. AllSegments(seg') = AllSegments(seg)
    BY <1>2 DEF AllSegments
  <2>2. GreatestCount(seg') = GreatestCount(seg)
    <3>1. {Len(seg'[g].sections) : g \in 1..Len(seg')}
            = {Len(seg[g].sections) : g \in 1..Len(seg)}
      BY <1>2
    <3> QED
      BY <3>1 DEF GreatestCount
  <2>3. CountSegments(seg') = CountSegments(seg)
    <3>1. \A c : {g \in 1..Len(seg') : Len(seg'[g].sections) = c}
                   = {g \in 1..Len(seg) : Len(seg[g].sections) = c}
      BY <1>2
    <3> QED
      BY <2>2, <3>1 DEF CountSegments
  <2>4. OrderInit'
    BY <2>1, <2>2, <2>3 DEF BeginSave, OrderInit
  <2> QED
    BY <1>2, <2>4, InitialOrderNext
<1>4. HeadersEnd(seg') = HeadersEnd(seg)
  BY <1>2 DEF HeadersEnd
<1>5. HeadersEnd(seg) \in Words /\ 0 \in Words
  BY <1>1, <1>2, LayoutAssumption DEF HeadersEnd, Words
<1>6. LayoutTypeOK'
  <2>1. k' = 0 /\ j' = 0 /\ res' = <<>> /\ pc' = "segments"
        /\ section_generated' = {} /\ current_file_pos' = HeadersEnd(seg)
        /\ sections_offset' = 0 /\ UNCHANGED <<segmentVars, wrapped>>
    BY DEF BeginSave
  <2>2. IsSections(sec)' /\ IsSegments(seg, DOMAIN sec)'
    BY <1>1, <1>2 DEF LayoutTypeOK
  <2>3. {current_file_pos, seg_start_pos, segment_memory, segment_filesize,
         sections_offset}' \subseteq Words
    BY <1>1, <1>5, <2>1 DEF LayoutTypeOK, segmentVars
  <2> QED
    BY <1>1, <2>1, <2>2, <2>3 DEF LayoutTypeOK
<1>7. Placed' = {}
  BY DEF Placed, BeginSave
<1>8. Behind' /\ Disjoint'
  BY <1>4, <1>5, <1>7, LayoutAssumption DEF Behind, Disjoint, BeginSave, Words
<1> QED
  BY <1>1, <1>3, <1>4, <1>6, <1>8 DEF LayoutInv

LEMMA OrderStepKeepsInv ==
  ASSUME LayoutInv, OrderStep
  PROVE  LayoutInv'
<1>1. LayoutTypeOK /\ OrderInv /\ pc = "segments" /\ OrderNext
      /\ UNCHANGED <<seg, layoutVars>>
  BY DEF LayoutInv, OrderStep
<1>2. OrderInv'
  BY <1>1, OrderStepKeeps, TypedIsTable DEF LayoutTypeOK
<1>3. Len(res) \in Nat /\ Len(res') \in Nat /\ Len(res) <= Len(res')
  <2>1. res \in Seq(SegIds) /\ res' \in Seq(SegIds')
    BY <1>1, <1>2 DEF OrderInv, OrderTypeOK
  <2>2. Len(res) \in Nat /\ Len(res') \in Nat
    BY <2>1, LenProperties
  <2>3. res' = res \/ \E g \in SegIds : res' = Append(res, g)
    <3>1. CASE Take
      <4>1. Head(worklist) \in SegIds
        BY <1>1, <3>1, HeadTailProperties DEF Take, OrderInv, OrderTypeOK
      <4> QED
        BY <3>1, <4>1 DEF Take
    <3> QED
      BY <1>1, <3>1
         DEF OrderNext, FrontStep, FrontDone, Requeue, QueueDone
  <2> QED
    BY <2>1, <2>2, <2>3, AppendProperties
<1>4. LayoutTypeOK'
  BY <1>1, <1>3 DEF LayoutTypeOK, layoutVars, segmentVars
<1>5. Placed' = Placed
  BY <1>1 DEF Placed, Occupies, InFile, layoutVars
<1>6. Behind' /\ Disjoint'
  BY <1>1, <1>5
     DEF LayoutInv, Behind, Disjoint, Laying, Begin, End, HeadersEnd, layoutVars
<1> QED
  BY <1>1, <1>2, <1>4, <1>6 DEF LayoutInv, HeadersEnd

LEMMA StartSegmentKeeps ==
  ASSUME LayoutInv, StartSegment
  PROVE  LayoutInv'
<1>1. /\ LayoutTypeOK /\ OrderInv /\ pc = "segments" /\ pc' = "sections"
      /\ k < Len(res) /\ j' = 0
      /\ UNCHANGED <<seg, orderVars, sec, saves, section_generated, k,
                     sections_offset>>
  BY DEF LayoutInv, StartSegment
<1>2. Current \in 1..Len(seg) /\ seg[Current] \in Segment(DOMAIN sec)
  BY <1>1, CurrentTyped
<1>3. OrderInv'
  BY <1>1, OrderUnmoved
<1>4. /\ HeaderSize \in Words /\ EntrySize * Len(seg) \in Words /\ 0 \in Words
      /\ current_file_pos \in Words /\ segment_memory \in Words
      /\ seg_start_pos \in Words /\ segment_filesize \in Words
  <2>1. Len(seg) \in Nat
    BY <1>1, TypedIsTable DEF LayoutTypeOK, IsTable
  <2>2. EntrySize * Len(seg) \in Nat
    BY <2>1, LayoutAssumption
  <2>3. HeaderSize + EntrySize * Len(seg) < Word
    BY DEF LayoutInv, HeadersEnd
  <2> DEFINE e == EntrySize * Len(seg)
  <2> HIDE DEF e
  <2>4. HeaderSize \in Words /\ e \in Words /\ 0 \in Words
    BY <2>2, <2>3, LayoutAssumption DEF Words, e
  <2> QED
    BY <1>1, <2>4 DEF LayoutTypeOK, e
<1>5. /\ {current_file_pos', seg_start_pos', segment_memory',
          segment_filesize'} \subseteq Words
      /\ ~wrapped' => current_file_pos <= current_file_pos'
  <2> DEFINE g == Current
             n == PageAdjustment(current_file_pos, seg[g].vaddr, seg[g].align)
  <2>1. n \in Words
    BY <1>2, <1>4, PageAdjustments DEF Segment
  <2>2. wrapped \in BOOLEAN /\ current_file_pos \in Nat
    BY <1>1, <1>4, LayoutAssumption DEF LayoutTypeOK, Words
  <2>3. CASE IsHeaderSegment(g)
    BY <1>4, <2>2, <2>3 DEF StartSegment
  <2>4. CASE ~IsHeaderSegment(g) /\ StartsAtZero(g)
    BY <1>4, <2>2, <2>4 DEF StartSegment
  <2>5. CASE ~IsHeaderSegment(g) /\ ~StartsAtZero(g) /\ IsFresh(g)
    <3>1. /\ current_file_pos' = Plus(current_file_pos, n)
          /\ wrapped' = (wrapped \/ current_file_pos + n >= Word)
          /\ seg_start_pos' = current_file_pos'
          /\ segment_memory' = 0 /\ segment_filesize' = 0
      BY <2>5 DEF StartSegment, Advance
    <3> HIDE DEF n
    <3>2. /\ Plus(current_file_pos, n) \in Words
          /\ current_file_pos + n < Word =>
               Plus(current_file_pos, n) = current_file_pos + n
      BY <1>4, <2>1, PlusMinus
    <3>3. n \in Nat /\ Word \in Nat
      BY <2>1, LayoutAssumption DEF Words
    <3>4. ASSUME ~wrapped'
          PROVE  current_file_pos <= current_file_pos'
      <4>1. ~(current_file_pos + n >= Word)
        BY <3>1, <3>4
      <4> QED
        BY <2>2, <3>1, <3>2, <3>3, <4>1
    <3> QED
      BY <1>4, <2>2, <3>1, <3>2, <3>4
  <2>6. CASE ~IsHeaderSegment(g) /\ ~StartsAtZero(g) /\ ~IsFresh(g)
    <3>1. HasSections(g) => sec[First(g)].offset \in Words
      <4>1. SUFFICES ASSUME HasSections(g)
                     PROVE  sec[First(g)].offset \in Words
        OBVIOUS
      <4> DEFINE list == seg[g].sections
      <4>2. list \in Seq(DOMAIN sec) /\ list # <<>>
        BY <1>2, <4>1 DEF Segment, HasSections
      <4>3. list[1] \in DOMAIN sec
        <5> HIDE DEF list
        <5> QED
          BY <4>2, EmptySeq, LenProperties
      <4>4. First(g) \in DOMAIN sec
        BY <4>3 DEF First
      <4> QED
        BY <1>1, <4>4, SectionsTyped DEF Section
    <3> QED
      BY <1>4, <2>2, <2>6, <3>1 DEF StartSegment
  <2> QED
    BY <2>3, <2>4, <2>5, <2>6
<1>6. wrapped' \in BOOLEAN /\ (wrapped => wrapped')
  <2>1. wrapped \in BOOLEAN
    BY <1>1 DEF LayoutTypeOK
  <2> DEFINE n == PageAdjustment(current_file_pos, seg[Current].vaddr,
                                 seg[Current].align)
             exceeded == current_file_pos + n >= Word
  <2>2. wrapped' = wrapped \/ wrapped' = (wrapped \/ exceeded)
    BY Zenon DEF StartSegment, Advance
  <2>3. exceeded \in BOOLEAN
    OBVIOUS
  <2> HIDE DEF exceeded
  <2> QED
    BY <2>1, <2>2, <2>3
<1>7. LayoutTypeOK'
  <2>1. Current' = Current /\ seg' = seg
    BY <1>1 DEF Current, orderVars
  <2>2. j' <= Len(seg'[Current'].sections)
    <3>1. Len(seg[Current].sections) \in Nat
      BY <1>2, LenProperties DEF Segment
    <3> QED
      BY <1>1, <2>1, <3>1
  <2>3. /\ pc' \in {"idle", "segments", "sections", "rest", "done", "failed"}
        /\ IsSections(sec') /\ IsSegments(seg', DOMAIN sec')
        /\ section_generated' \subseteq DOMAIN sec'
        /\ k' \in 0..Len(res') /\ k' < Len(res') /\ j' \in Nat
        /\ sections_offset' \in Words /\ pc' # "rest"
    BY <1>1 DEF LayoutTypeOK, orderVars
  <2>4. {current_file_pos', seg_start_pos', segment_memory',
         segment_filesize', sections_offset'} \subseteq Words
    BY <1>5, <2>3
  <2> QED
    BY <1>5, <1>6, <2>2, <2>3, <2>4, Zenon DEF LayoutTypeOK
<1>8. Placed' = Placed
  BY <1>1 DEF Placed, Occupies, InFile
<1>9. Behind' /\ Disjoint'
  <2>1. Laying /\ HeadersEnd(seg') = HeadersEnd(seg) /\ Placed' \subseteq Placed
        /\ sec' = sec
    BY <1>1, <1>8 DEF Laying
  <2> QED
    BY <1>5, <1>7, <1>6, <2>1, PlacingNone, Zenon
<1> QED
  BY <1>1, <1>3, <1>7, <1>9 DEF LayoutInv, HeadersEnd

LEMMA VisitNullKeeps ==
  ASSUME LayoutInv, VisitNull
  PROVE  LayoutInv'
<1>1. /\ LayoutTypeOK /\ OrderInv /\ AtSection /\ pc = "sections"
      /\ k < Len(res) /\ j \in Nat /\ j' = j + 1
      /\ section_generated' = section_generated \cup {Visited}
      /\ UNCHANGED <<seg, orderVars, sec, pc, saves, current_file_pos, k,
                     segmentVars, sections_offset, wrapped>>
      /\ sec[Visited].type = "NULL"
  BY DEF LayoutInv, VisitNull, AtSection, LayoutTypeOK
<1>2. Visited \in DOMAIN sec /\ j + 1 <= Len(seg[Current].sections)
  BY <1>1, VisitedTyped
<1>3. OrderInv'
  BY <1>1, OrderUnmoved
<1>4. LayoutTypeOK'
  <2>1. Current' = Current
    BY <1>1 DEF Current, orderVars
  <2> QED
    BY <1>1, <1>2, <2>1 DEF LayoutTypeOK, orderVars, segmentVars
<1>5. Placed' \subseteq Placed
  BY <1>1 DEF Placed, Occupies, InFile
<1>6. Behind' /\ Disjoint'
  <2>1. Laying /\ HeadersEnd(seg') = HeadersEnd(seg) /\ sec' = sec
        /\ (wrapped => wrapped')
    BY <1>1 DEF Laying
  <2>2. current_file_pos <= current_file_pos'
    BY <1>1, <1>4, PositionsTyped
  <2> QED
    BY <1>4, <1>5, <2>1, <2>2, PlacingNone, Zenon
<1> QED
  BY <1>1, <1>3, <1>4, <1>6 DEF LayoutInv

LEMMA AbortKeeps ==
  ASSUME LayoutInv, Abort
  PROVE  LayoutInv'
<1>1. /\ LayoutTypeOK /\ OrderInv /\ pc' = "failed" /\ k < Len(res)
      /\ UNCHANGED <<seg, orderVars, sec, saves, current_file_pos,
                     section_generated, k, j, segmentVars, sections_offset,
                     wrapped>>
  BY DEF LayoutInv, Abort, AtSection, LayoutTypeOK
<1>2. OrderInv'
  BY <1>1, OrderUnmoved
<1>3. LayoutTypeOK'
  BY <1>1 DEF LayoutTypeOK, orderVars, segmentVars
<1>4. Behind' /\ Disjoint'
  BY <1>1 DEF Behind, Disjoint, Laying
<1> QED
  BY <1>1, <1>2, <1>3, <1>4 DEF LayoutInv

(* The padding and the sizes of a section being visited are words.         *)
LEMMA VisitTyped ==
  ASSUME LayoutInv, AtSection
  PROVE  /\ Gap(Visited) \in Words /\ Position(Visited) \in Words
         /\ InFileSize(Visited) \in Words
         /\ Account(Visited) => /\ segment_memory' \in Words
                                /\ segment_filesize' \in Words
<1> DEFINE x == Visited
<1>1. LayoutTypeOK /\ OrderInv
  BY DEF LayoutInv
<1>2. x \in DOMAIN sec /\ sec[x] \in Section
      /\ seg[Current] \in Segment(DOMAIN sec)
  BY <1>1, VisitedTyped
<1> HIDE DEF x
<1>3. /\ sec[x].addr \in Words /\ sec[x].align \in Words
      /\ sec[x].size \in Words /\ sec[x].offset \in Words
      /\ seg[Current].vaddr \in Words
  BY <1>2 DEF Section, Segment
<1>4. /\ current_file_pos \in Words /\ seg_start_pos \in Words
      /\ segment_memory \in Words /\ segment_filesize \in Words
      /\ 0 \in Words
  BY <1>1, LayoutAssumption DEF LayoutTypeOK, Words
<1>5. Gap(x) \in Words
  <2>1. Required(x, Current) \in Words /\ Reached \in Words
    BY <1>3, <1>4, PlusMinus DEF Required, Reached
  <2>2. Minus(Required(x, Current), Reached) \in Words
    BY <2>1, PlusMinus
  <2>3. Minus(sec[x].offset, seg_start_pos) \in Words
    BY <1>3, <1>4, PlusMinus
  <2>4. Minus(Minus(sec[x].offset, seg_start_pos), segment_filesize) \in Words
    BY <1>4, <2>3, PlusMinus
  <2>5. PadTo(current_file_pos, sec[x].align) \in Words
    BY <1>3, <1>4, Padding
  <2> QED
    BY <1>4, <2>2, <2>4, <2>5 DEF Gap
<1>6. Position(x) \in Words
  BY <1>4, <1>5, PlusMinus DEF Position
<1>7. InFileSize(x) \in Words
  BY <1>3, <1>4 DEF InFileSize
<1>8. ASSUME Account(x)
      PROVE  segment_memory' \in Words /\ segment_filesize' \in Words
  <2>1. Plus(sec[x].size, Gap(x)) \in Words
    BY <1>3, <1>5, PlusMinus
  <2>2. /\ Plus(segment_memory, Plus(sec[x].size, Gap(x))) \in Words
        /\ Plus(segment_filesize, Plus(sec[x].size, Gap(x))) \in Words
    BY <1>4, <2>1, PlusMinus
  <2> QED
    BY <1>4, <1>8, <2>2 DEF Account
<1> QED
  BY <1>5, <1>6, <1>7, <1>8 DEF x

LEMMA RevisitSectionKeeps ==
  ASSUME LayoutInv, RevisitSection
  PROVE  LayoutInv'
<1>1. /\ LayoutTypeOK /\ OrderInv /\ AtSection /\ pc = "sections"
      /\ k < Len(res) /\ j \in Nat /\ j' = j + 1 /\ Account(Visited)
      /\ UNCHANGED <<seg, orderVars, sec, pc, saves, current_file_pos,
                     section_generated, k, seg_start_pos, sections_offset,
                     wrapped>>
  BY DEF LayoutInv, RevisitSection, AtSection, LayoutTypeOK
<1>2. j + 1 <= Len(seg[Current].sections)
  BY <1>1, VisitedTyped
<1>3. segment_memory' \in Words /\ segment_filesize' \in Words
  BY <1>1, VisitTyped
<1>4. OrderInv'
  BY <1>1, OrderUnmoved
<1>5. LayoutTypeOK'
  <2>1. Current' = Current
    BY <1>1 DEF Current, orderVars
  <2> QED
    BY <1>1, <1>2, <1>3, <2>1 DEF LayoutTypeOK, orderVars
<1>6. Behind' /\ Disjoint'
  <2>1. /\ Laying /\ HeadersEnd(seg') = HeadersEnd(seg) /\ sec' = sec
        /\ (wrapped => wrapped')
        /\ Placed' \subseteq Placed
    BY <1>1 DEF Laying, Placed, Occupies, InFile
  <2>2. current_file_pos <= current_file_pos'
    BY <1>1, <1>5, PositionsTyped
  <2> QED
    BY <1>5, <2>1, <2>2, PlacingNone, Zenon
<1> QED
  BY <1>1, <1>4, <1>5, <1>6 DEF LayoutInv

LEMMA PlaceSectionKeeps ==
  ASSUME LayoutInv, PlaceSection
  PROVE  LayoutInv'
<1> DEFINE x == Visited
           pos == Position(x)
<1>1. /\ LayoutTypeOK /\ OrderInv /\ AtSection /\ pc = "sections"
      /\ k < Len(res) /\ j \in Nat /\ j' = j + 1 /\ Account(x)
      /\ sec[x].type # "NULL" /\ sec' = PlacedSection(x)
      /\ current_file_pos' = Plus(pos, InFileSize(x))
      /\ section_generated' = section_generated \cup {x}
      /\ UNCHANGED <<seg, orderVars, pc, saves, k, seg_start_pos,
                     sections_offset>>
  BY DEF LayoutInv, PlaceSection, AtSection, LayoutTypeOK
<1>2. /\ x \in DOMAIN sec /\ sec[x] \in Section
      /\ seg[Current] \in Segment(DOMAIN sec)
      /\ j + 1 <= Len(seg[Current].sections)
  BY <1>1, VisitedTyped
<1>3. /\ Gap(x) \in Words /\ pos \in Words /\ InFileSize(x) \in Words
      /\ segment_memory' \in Words /\ segment_filesize' \in Words
  BY <1>1, VisitTyped
<1>4. /\ pos = Plus(current_file_pos, Gap(x))
      /\ wrapped' = (wrapped \/ current_file_pos + Gap(x) >= Word
                             \/ pos + InFileSize(x) >= Word)
  BY DEF PlaceSection, Position
<1>5. x # 0
  BY <1>1, SectionsTyped
<1> HIDE DEF x
<1>6. /\ sec' \in [DOMAIN sec -> Section] /\ DOMAIN sec' = DOMAIN sec
      /\ \A y \in DOMAIN sec : y # x => sec'[y] = sec[y]
      /\ sec'[x].offset = pos
      /\ sec'[x].type = sec[x].type /\ sec'[x].size = sec[x].size
  <2> DEFINE row == [sec[x] EXCEPT !.offset = PlacedOffset(x),
                                   !.addr = PlacedAddress(x),
                                   !.addr_set = TRUE]
  <2>1. PlacedAddress(x) \in Words
    <3>1. /\ seg[Current].vaddr \in Words /\ sec[x].addr \in Words
          /\ seg_start_pos \in Words
      BY <1>1, <1>2 DEF Section, Segment, LayoutTypeOK
    <3>2. Plus(seg[Current].vaddr, pos) \in Words
      BY <1>3, <3>1, PlusMinus
    <3>3. Minus(Plus(seg[Current].vaddr, pos), seg_start_pos) \in Words
      BY <3>1, <3>2, PlusMinus
    <3> QED
      BY <3>1, <3>3 DEF PlacedAddress
  <2>2. PlacedOffset(x) = pos
    BY <1>5 DEF PlacedOffset
  <2>3. sec' = [sec EXCEPT ![x] = row]
    BY <1>1 DEF PlacedSection
  <2> HIDE DEF pos
  <2>4. row \in Section /\ row.offset = pos
        /\ row.type = sec[x].type /\ row.size = sec[x].size
    <3> DEFINE o == PlacedOffset(x)
               a == PlacedAddress(x)
    <3>1. row = [sec[x] EXCEPT !.offset = o, !.addr = a, !.addr_set = TRUE]
      OBVIOUS
    <3>2. o \in Words /\ a \in Words /\ o = pos
      BY <1>3, <2>1, <2>2
    <3> HIDE DEF row, o, a
    <3> QED
      BY <1>2, <3>1, <3>2 DEF Section
  <2> HIDE DEF row
  <2>5. sec \in [DOMAIN sec -> Section]
    BY <1>1, SectionsTyped
  <2> QED
    BY <1>2, <2>3, <2>4, <2>5
<1> HIDE DEF pos
<1>7. OrderInv'
  BY <1>1, OrderUnmoved
<1>8. current_file_pos' \in Words
  BY <1>1, <1>3, PlusMinus
<1>9. wrapped \in BOOLEAN /\ wrapped' \in BOOLEAN /\ (wrapped => wrapped')
  <2>1. wrapped \in BOOLEAN
    BY <1>1 DEF LayoutTypeOK
  <2> DEFINE exceeded == \/ current_file_pos + Gap(x) >= Word
                         \/ pos + InFileSize(x) >= Word
  <2>2. wrapped' = (wrapped \/ exceeded)
    BY <1>4, Zenon
  <2>3. exceeded \in BOOLEAN
    OBVIOUS
  <2> HIDE DEF exceeded
  <2> QED
    BY <2>1, <2>2, <2>3
<1>10. IsSections(sec')
  <2>1. LET last == Cardinality(DOMAIN sec) - 1
        IN last \in Nat /\ DOMAIN sec = 0..last
    BY <1>1 DEF LayoutTypeOK, IsSections
  <2>2. sec'[0].type = "NULL"
    BY <1>1, <1>5, <1>6, SectionsTyped
  <2> QED
    BY <1>6, <2>1, <2>2 DEF IsSections
<1>11. LayoutTypeOK'
  <2>1. Current' = Current /\ seg' = seg /\ Len(res') = Len(res)
    BY <1>1 DEF Current, orderVars
  <2>2. (pc = "sections" => k < Len(res) /\ j <= Len(seg[Current].sections))'
    BY <1>1, <1>2, <2>1
  <2>3. /\ pc' = "sections" /\ pc' # "rest"
        /\ pc' \in {"idle", "segments", "sections", "rest", "done", "failed"}
        /\ IsSegments(seg', DOMAIN sec')
        /\ section_generated' \subseteq DOMAIN sec'
        /\ k' \in 0..Len(res') /\ j' \in Nat
    BY <1>1, <1>2, <1>6, <2>1 DEF LayoutTypeOK
  <2>4. {current_file_pos', seg_start_pos', segment_memory',
         segment_filesize', sections_offset'} \subseteq Words
    BY <1>1, <1>3, <1>8 DEF LayoutTypeOK
  <2> QED
    BY <1>9, <1>10, <2>2, <2>3, <2>4, Zenon DEF LayoutTypeOK
<1>12. ASSUME ~wrapped'
       PROVE  /\ pos = current_file_pos + Gap(x)
              /\ current_file_pos' = pos + InFileSize(x)
              /\ current_file_pos \in Nat /\ Gap(x) \in Nat
              /\ InFileSize(x) \in Nat
  <2>1. ~(current_file_pos + Gap(x) >= Word) /\ ~(pos + InFileSize(x) >= Word)
    BY <1>4, <1>12, Zenon
  <2>2. /\ current_file_pos \in Words /\ Gap(x) \in Words /\ pos \in Words
        /\ InFileSize(x) \in Words
    BY <1>1, <1>3 DEF LayoutTypeOK
  <2>3. /\ current_file_pos \in Nat /\ Gap(x) \in Nat /\ pos \in Nat
        /\ InFileSize(x) \in Nat /\ Word \in Nat
    BY <2>2, LayoutAssumption DEF Words
  <2>4. current_file_pos + Gap(x) < Word /\ pos + InFileSize(x) < Word
    BY <2>1, <2>3
  <2> QED
    BY <1>1, <1>4, <2>2, <2>3, <2>4, PlusMinus
<1>13. Placed' \subseteq Placed \cup {x}
  BY <1>1, <1>6 DEF Placed, Occupies, InFile
<1>14. x \in Placed' => InFileSize(x) = sec'[x].size
  BY <1>6 DEF Placed, Occupies, InFile, InFileSize
<1>15. ~wrapped' => current_file_pos <= current_file_pos'
  <2>1. SUFFICES ASSUME ~wrapped'
                 PROVE  current_file_pos <= current_file_pos'
    OBVIOUS
  <2> QED
    BY <1>12, <2>1
<1>16. ~wrapped' /\ x \in Placed' =>
         /\ current_file_pos <= sec'[x].offset
         /\ sec'[x].offset + sec'[x].size <= current_file_pos'
  <2>1. SUFFICES ASSUME ~wrapped', x \in Placed'
                 PROVE  /\ current_file_pos <= sec'[x].offset
                        /\ sec'[x].offset + sec'[x].size <= current_file_pos'
    OBVIOUS
  <2>2. /\ pos = current_file_pos + Gap(x)
        /\ current_file_pos' = pos + InFileSize(x)
        /\ current_file_pos \in Nat /\ Gap(x) \in Nat /\ InFileSize(x) \in Nat
    BY <1>12, <2>1, Zenon
  <2>3. InFileSize(x) = sec'[x].size
    BY <1>14, <2>1
  <2> QED
    BY <1>6, <2>2, <2>3
<1>17. Laying /\ HeadersEnd(seg') = HeadersEnd(seg)
  BY <1>1 DEF Laying
<1>18. Behind' /\ Disjoint'
  BY <1>6, <1>9, <1>11, <1>13, <1>15, <1>16, <1>17, PlacingOne, Zenon
<1> QED
  BY <1>1, <1>7, <1>11, <1>18 DEF LayoutInv

LEMMA EndSegmentKeeps ==
  ASSUME LayoutInv, EndSegment
  PROVE  LayoutInv'
<1> DEFINE g == Current
           m == Larger(seg[g].memsz, segment_memory)
           row == [seg[g] EXCEPT !.filesz = segment_filesize, !.memsz = m,
                                 !.offset = seg_start_pos, !.offset_set = TRUE]
<1>1. /\ LayoutTypeOK /\ OrderInv /\ pc = "sections" /\ pc' = "segments"
      /\ k < Len(res) /\ k' = k + 1 /\ j' = 0 /\ seg' = LaidOut(g)
      /\ UNCHANGED <<orderVars, sec, saves, current_file_pos,
                     section_generated, segmentVars, sections_offset, wrapped>>
  BY DEF LayoutInv, EndSegment, LayoutTypeOK
<1>2. g \in 1..Len(seg) /\ seg[g] \in Segment(DOMAIN sec)
  BY <1>1, CurrentTyped
<1>3. seg' = [seg EXCEPT ![g] = row]
  BY <1>1 DEF LaidOut
<1> HIDE DEF g
<1>4. row \in Segment(DOMAIN sec) /\ row.sections = seg[g].sections
  <2>1. /\ m \in Words /\ segment_filesize \in Words /\ seg_start_pos \in Words
    BY <1>1, <1>2 DEF LayoutTypeOK, Segment, Larger
  <2> HIDE DEF m
  <2>2. row = [seg[g] EXCEPT !.filesz = segment_filesize, !.memsz = m,
                             !.offset = seg_start_pos, !.offset_set = TRUE]
    OBVIOUS
  <2> HIDE DEF row
  <2> QED
    BY <1>2, <2>1, <2>2 DEF Segment
<1> HIDE DEF m, row
<1>5. /\ seg' \in Seq(Segment(DOMAIN sec)) /\ Len(seg') = Len(seg)
      /\ \A h \in 1..Len(seg) : seg'[h].sections = seg[h].sections
  <2>1. seg \in Seq(Segment(DOMAIN sec))
    BY <1>1 DEF LayoutTypeOK, IsSegments
  <2>2. /\ [seg EXCEPT ![g] = row] \in Seq(Segment(DOMAIN sec))
        /\ Len([seg EXCEPT ![g] = row]) = Len(seg)
        /\ \A h \in 1..Len(seg) :
              [seg EXCEPT ![g] = row][h] = IF h = g THEN row ELSE seg[h]
    BY <1>2, <1>4, <2>1, ExceptSeq
  <2> QED
    BY <1>3, <1>4, <2>2
<1>6. OrderInv'
  BY <1>1, <1>5, OrderUnmoved
<1>7. LayoutTypeOK'
  <2>1. res' = res /\ Len(res) \in Nat
    BY <1>1, LenProperties DEF orderVars, OrderInv, OrderTypeOK
  <2>2. IsSegments(seg', DOMAIN sec')
    BY <1>1, <1>5 DEF IsSegments
  <2> QED
    BY <1>1, <2>1, <2>2 DEF LayoutTypeOK, segmentVars
<1>8. HeadersEnd(seg') = HeadersEnd(seg)
  BY <1>5 DEF HeadersEnd
<1>9. Behind' /\ Disjoint'
  <2>1. /\ Laying /\ sec' = sec /\ (wrapped => wrapped')
        /\ Placed' \subseteq Placed
    BY <1>1 DEF Laying, Placed, Occupies, InFile
  <2>2. current_file_pos <= current_file_pos'
    BY <1>1, <1>7, PositionsTyped
  <2> QED
    BY <1>7, <1>8, <2>1, <2>2, PlacingNone, Zenon
<1> QED
  BY <1>6, <1>7, <1>8, <1>9 DEF LayoutInv

LEMMA EndSegmentsKeeps ==
  ASSUME LayoutInv, EndSegments
  PROVE  LayoutInv'
<1>1. /\ LayoutTypeOK /\ OrderInv /\ pc = "segments" /\ pc' = "rest"
      /\ j' = 0
      /\ UNCHANGED <<seg, orderVars, sec, saves, current_file_pos,
                     section_generated, k, segmentVars, sections_offset,
                     wrapped>>
  BY DEF LayoutInv, EndSegments
<1>2. OrderInv'
  BY <1>1, OrderUnmoved
<1>3. LayoutTypeOK'
  BY <1>1 DEF LayoutTypeOK, orderVars, segmentVars
<1>4. Placed' \subseteq Placed
  <2>1. DOMAIN sec \subseteq Nat
    BY <1>1, SectionsTyped
  <2> QED
    BY <1>1, <2>1 DEF Placed, Occupies, InFile
<1>5. Behind' /\ Disjoint'
  <2>1. Laying /\ HeadersEnd(seg') = HeadersEnd(seg) /\ sec' = sec
        /\ (wrapped => wrapped')
    BY <1>1 DEF Laying
  <2>2. current_file_pos <= current_file_pos'
    BY <1>1, <1>3, PositionsTyped
  <2> QED
    BY <1>3, <1>4, <2>1, <2>2, PlacingNone, Zenon
<1> QED
  BY <1>1, <1>2, <1>3, <1>5 DEF LayoutInv

LEMMA SkipGeneratedKeeps ==
  ASSUME LayoutInv, SkipGenerated
  PROVE  LayoutInv'
<1>1. /\ LayoutTypeOK /\ OrderInv /\ pc = "rest" /\ j \in section_generated
      /\ j \in Nat /\ j' = j + 1
      /\ UNCHANGED <<seg, orderVars, sec, pc, saves, current_file_pos,
                     section_generated, k, segmentVars, sections_offset,
                     wrapped>>
  BY DEF LayoutInv, SkipGenerated, LayoutTypeOK
<1>2. OrderInv'
  BY <1>1, OrderUnmoved
<1>3. LayoutTypeOK'
  <2>1. j \in DOMAIN sec /\ 0..j - 1 \subseteq DOMAIN sec
    BY <1>1 DEF LayoutTypeOK
  <2>2. 0..j' - 1 \subseteq DOMAIN sec
    BY <1>1, <2>1
  <2> QED
    BY <1>1, <2>2 DEF LayoutTypeOK, orderVars, segmentVars
<1>4. Placed' \subseteq Placed
  <2>1. DOMAIN sec \subseteq Nat
    BY <1>1, SectionsTyped
  <2> QED
    BY <1>1, <2>1 DEF Placed, Occupies, InFile
<1>5. Behind' /\ Disjoint'
  <2>1. Laying /\ HeadersEnd(seg') = HeadersEnd(seg) /\ sec' = sec
        /\ (wrapped => wrapped')
    BY <1>1 DEF Laying
  <2>2. current_file_pos <= current_file_pos'
    BY <1>1, <1>3, PositionsTyped
  <2> QED
    BY <1>3, <1>4, <2>1, <2>2, PlacingNone, Zenon
<1> QED
  BY <1>1, <1>2, <1>3, <1>5 DEF LayoutInv

LEMMA PlaceRestKeeps ==
  ASSUME LayoutInv, PlaceRest
  PROVE  LayoutInv'
<1> DEFINE pad == PadTo(current_file_pos, sec[j].align)
           pos == Plus(current_file_pos, pad)
           n == InFileSize(j)
<1>1. /\ LayoutTypeOK /\ OrderInv /\ pc = "rest" /\ j \in Nat
      /\ j \in DOMAIN sec /\ j \notin section_generated
      /\ sec' = IF j = 0 THEN sec ELSE [sec EXCEPT ![j].offset = pos]
      /\ current_file_pos' = Plus(pos, n)
      /\ j' = j + 1
      /\ UNCHANGED <<seg, orderVars, pc, saves, section_generated, k,
                     segmentVars, sections_offset>>
  BY DEF LayoutInv, PlaceRest, LayoutTypeOK
<1>2. wrapped' = (wrapped \/ current_file_pos + pad >= Word
                         \/ pos + n >= Word)
  BY DEF PlaceRest
<1>3. /\ sec \in [DOMAIN sec -> Section] /\ sec[j] \in Section
      /\ DOMAIN sec \subseteq Nat /\ sec[0].type = "NULL"
  BY <1>1, SectionsTyped
<1>4. current_file_pos \in Words /\ sec[j].align \in Words
      /\ sec[j].size \in Words /\ 0 \in Words
  <2>1. current_file_pos \in Words
    BY <1>1 DEF LayoutTypeOK
  <2>2. sec[j].align \in Words /\ sec[j].size \in Words
    BY <1>3 DEF Section
  <2>3. 0 \in Words
    BY LayoutAssumption DEF Words
  <2> QED
    BY <2>1, <2>2, <2>3, Zenon
<1>5. pad \in Words
  BY <1>4, Padding
<1>6. n \in Words
  BY <1>4 DEF InFileSize
<1> HIDE DEF pad, n
<1>7. pos \in Words
  BY <1>4, <1>5, PlusMinus
<1>8. current_file_pos' \in Words
  <2> HIDE DEF pos
  <2> QED
    BY <1>1, <1>6, <1>7, PlusMinus
<1>9. ASSUME ~wrapped'
      PROVE  /\ pos = current_file_pos + pad
             /\ current_file_pos' = pos + n
             /\ current_file_pos \in Nat /\ pad \in Nat /\ n \in Nat
  <2>1. ~(current_file_pos + pad >= Word) /\ ~(pos + n >= Word)
    BY <1>2, <1>9, Zenon
  <2>2. pos \in Words /\ current_file_pos' = Plus(pos, n)
    BY <1>1, <1>7
  <2>3. (current_file_pos + pad < Word) => pos = current_file_pos + pad
    BY <1>4, <1>5, PlusMinus
  <2> HIDE DEF pos
  <2>4. /\ current_file_pos \in Nat /\ pad \in Nat /\ pos \in Nat
        /\ n \in Nat /\ Word \in Nat
    BY <1>4, <1>5, <1>6, <2>2, LayoutAssumption DEF Words
  <2>5. current_file_pos + pad < Word /\ pos + n < Word
    BY <2>1, <2>4
  <2>6. Plus(pos, n) = pos + n
    BY <1>6, <2>2, <2>5, PlusMinus
  <2> QED
    BY <2>2, <2>3, <2>4, <2>5, <2>6
<1>10. wrapped' \in BOOLEAN /\ (wrapped => wrapped')
  <2>1. wrapped \in BOOLEAN
    BY <1>1 DEF LayoutTypeOK
  <2> DEFINE exceeded == \/ current_file_pos + pad >= Word
                         \/ pos + n >= Word
  <2>2. wrapped' = (wrapped \/ exceeded)
    BY <1>2, Zenon
  <2>3. exceeded \in BOOLEAN
    OBVIOUS
  <2> HIDE DEF exceeded
  <2> QED
    BY <2>1, <2>2, <2>3
<1> HIDE DEF pos
<1>11. /\ sec' \in [DOMAIN sec -> Section] /\ DOMAIN sec' = DOMAIN sec
       /\ \A y \in DOMAIN sec : y # j => sec'[y] = sec[y]
       /\ sec'[j].type = sec[j].type /\ sec'[j].size = sec[j].size
       /\ j # 0 => sec'[j].offset = pos
  <2> DEFINE row == [sec[j] EXCEPT !.offset = pos]
  <2>1. row \in Section /\ row.offset = pos
        /\ row.type = sec[j].type /\ row.size = sec[j].size
    BY <1>3, <1>7 DEF Section
  <2>2. sec' = IF j = 0 THEN sec ELSE [sec EXCEPT ![j] = row]
    BY <1>1
  <2> HIDE DEF row
  <2> QED
    BY <1>1, <1>3, <2>1, <2>2
<1>12. OrderInv'
  BY <1>1, OrderUnmoved
<1>13. IsSections(sec')
  <2>1. LET last == Cardinality(DOMAIN sec) - 1
        IN last \in Nat /\ DOMAIN sec = 0..last
    BY <1>1 DEF LayoutTypeOK, IsSections
  <2>2. sec'[0].type = "NULL"
    BY <1>1, <1>3, <1>11, SectionsTyped
  <2> QED
    BY <1>11, <2>1, <2>2 DEF IsSections
<1>14. LayoutTypeOK'
  <2>1. 0..j' - 1 \subseteq DOMAIN sec'
    <3>1. 0..j - 1 \subseteq DOMAIN sec
      BY <1>1 DEF LayoutTypeOK
    <3> QED
      BY <1>1, <1>11, <3>1
  <2>2. /\ pc' = "rest" /\ pc' # "sections"
        /\ pc' \in {"idle", "segments", "sections", "rest", "done", "failed"}
        /\ IsSegments(seg', DOMAIN sec')
        /\ section_generated' \subseteq DOMAIN sec'
        /\ k' \in 0..Len(res') /\ j' \in Nat
    BY <1>1, <1>11 DEF LayoutTypeOK, orderVars
  <2>3. {current_file_pos', seg_start_pos', segment_memory',
         segment_filesize', sections_offset'} \subseteq Words
    BY <1>1, <1>8 DEF LayoutTypeOK, segmentVars
  <2> QED
    BY <1>10, <1>13, <2>1, <2>2, <2>3, Zenon DEF LayoutTypeOK
<1>15. Placed' \subseteq Placed \cup {j}
  <2> SUFFICES ASSUME NEW y \in Placed', y # j
               PROVE  y \in Placed
    OBVIOUS
  <2>1. y \in DOMAIN sec /\ sec'[y] = sec[y] /\ y \in Nat
    BY <1>3, <1>11 DEF Placed
  <2>2. Occupies(y) /\ (y \in section_generated \/ y < j + 1)
    BY <1>1, <2>1 DEF Placed, Occupies, InFile
  <2> QED
    BY <1>1, <2>1, <2>2 DEF Placed
<1>16. j \in Placed' => n = sec'[j].size /\ j # 0
  BY <1>3, <1>11 DEF Placed, Occupies, InFile, InFileSize, n
<1>17. ~wrapped' => current_file_pos <= current_file_pos'
  <2>1. SUFFICES ASSUME ~wrapped'
                 PROVE  current_file_pos <= current_file_pos'
    OBVIOUS
  <2> QED
    BY <1>9, <2>1
<1>18. ~wrapped' /\ j \in Placed' =>
         /\ current_file_pos <= sec'[j].offset
         /\ sec'[j].offset + sec'[j].size <= current_file_pos'
  <2>1. SUFFICES ASSUME ~wrapped', j \in Placed'
                 PROVE  /\ current_file_pos <= sec'[j].offset
                        /\ sec'[j].offset + sec'[j].size <= current_file_pos'
    OBVIOUS
  <2>2. /\ pos = current_file_pos + pad
        /\ current_file_pos' = pos + n
        /\ current_file_pos \in Nat /\ pad \in Nat /\ n \in Nat
    BY <1>9, <2>1, Zenon
  <2>3. n = sec'[j].size /\ sec'[j].offset = pos
    BY <1>11, <1>16, <2>1
  <2> QED
    BY <2>2, <2>3
<1>19. Laying /\ HeadersEnd(seg') = HeadersEnd(seg)
  BY <1>1 DEF Laying
<1>20. Behind' /\ Disjoint'
  BY <1>10, <1>11, <1>14, <1>15, <1>17, <1>18, <1>19, PlacingOne, Zenon
<1> QED
  BY <1>1, <1>12, <1>14, <1>20 DEF LayoutInv

LEMMA LayoutTableKeeps ==
  ASSUME LayoutInv, LayoutTable
  PROVE  LayoutInv'
<1> DEFINE unit == TableAlign - (current_file_pos % TableAlign)
<1>1. /\ LayoutTypeOK /\ OrderInv /\ pc = "rest" /\ pc' = "done"
      /\ j \notin DOMAIN sec /\ j \in Nat
      /\ current_file_pos' = Plus(current_file_pos, unit)
      /\ wrapped' = (wrapped \/ current_file_pos + unit >= Word)
      /\ sections_offset' = current_file_pos'
      /\ UNCHANGED <<seg, orderVars, sec, saves, section_generated, k, j,
                     segmentVars>>
  BY DEF LayoutInv, LayoutTable, Advance, LayoutTypeOK
<1>2. current_file_pos \in Words /\ current_file_pos \in Nat /\ Word \in Nat
  BY <1>1, LayoutAssumption DEF LayoutTypeOK, Words
<1>3. unit \in Words /\ unit \in Nat
  <2>1. TableAlign \in Words /\ TableAlign > 0 /\ TableAlign \in Nat
    BY LayoutAssumption DEF Words
  <2>2. current_file_pos % TableAlign \in Nat
        /\ current_file_pos % TableAlign < TableAlign
    BY <1>2, <2>1
  <2> DEFINE r == current_file_pos % TableAlign
  <2> HIDE DEF r
  <2>3. r \in Nat /\ r < TableAlign
    BY <2>2 DEF r
  <2>4. TableAlign - r \in Words /\ TableAlign - r \in Nat
    BY <2>1, <2>3, LayoutAssumption DEF Words
  <2> QED
    BY <2>4 DEF r
<1> HIDE DEF unit
<1>4. /\ current_file_pos' \in Words
      /\ current_file_pos + unit < Word =>
           current_file_pos' = current_file_pos + unit
  BY <1>1, <1>2, <1>3, PlusMinus
<1>5. wrapped' \in BOOLEAN /\ (wrapped => wrapped')
  <2>1. wrapped \in BOOLEAN
    BY <1>1 DEF LayoutTypeOK
  <2> DEFINE exceeded == current_file_pos + unit >= Word
  <2>2. wrapped' = (wrapped \/ exceeded)
    BY <1>1, Zenon
  <2>3. exceeded \in BOOLEAN
    OBVIOUS
  <2> HIDE DEF exceeded
  <2> QED
    BY <2>1, <2>2, <2>3
<1>6. ~wrapped' => current_file_pos <= current_file_pos'
  <2>1. SUFFICES ASSUME ~wrapped'
                 PROVE  current_file_pos <= current_file_pos'
    OBVIOUS
  <2>2. ~(current_file_pos + unit >= Word)
    BY <1>1, <2>1, Zenon
  <2> QED
    BY <1>2, <1>3, <1>4, <2>2
<1>7. OrderInv'
  BY <1>1, OrderUnmoved
<1>8. LayoutTypeOK'
  <2>1. /\ pc' # "rest" /\ pc' # "sections"
        /\ pc' \in {"idle", "segments", "sections", "rest", "done", "failed"}
        /\ IsSections(sec') /\ IsSegments(seg', DOMAIN sec')
        /\ section_generated' \subseteq DOMAIN sec'
        /\ k' \in 0..Len(res') /\ j' \in Nat
    BY <1>1 DEF LayoutTypeOK, orderVars
  <2>2. {current_file_pos', seg_start_pos', segment_memory',
         segment_filesize', sections_offset'} \subseteq Words
    BY <1>1, <1>4 DEF LayoutTypeOK, segmentVars
  <2> QED
    BY <1>5, <2>1, <2>2, Zenon DEF LayoutTypeOK
<1>9. Placed' \subseteq Placed
  <2> SUFFICES ASSUME NEW x \in Placed'
               PROVE  x \in Placed
    OBVIOUS
  <2>1. x \in DOMAIN sec /\ Occupies(x)
    BY <1>1 DEF Placed, Occupies, InFile
  <2>2. x \in Nat /\ 0..x \subseteq DOMAIN sec
    BY <1>1, <2>1, SectionsTyped
  <2>3. x < j
    BY <1>1, <2>2
  <2> QED
    BY <1>1, <2>1, <2>3 DEF Placed
<1>10. Behind' /\ Disjoint'
  <2>1. Laying /\ HeadersEnd(seg') = HeadersEnd(seg) /\ sec' = sec
    BY <1>1 DEF Laying
  <2> QED
    BY <1>5, <1>6, <1>8, <1>9, <2>1, PlacingNone, Zenon
<1> QED
  BY <1>1, <1>7, <1>8, <1>10 DEF LayoutInv

LEMMA EditKeeps ==
  ASSUME LayoutInv, NEW x \in DOMAIN sec, NEW n \in Sizes, Edit(x, n)
  PROVE  LayoutInv'
<1>1. /\ LayoutTypeOK /\ OrderInv /\ pc' = "idle" /\ pc \in {"done", "failed"}
      /\ sec[x].type # "NULL" /\ sec' = [sec EXCEPT ![x].size = n]
      /\ UNCHANGED <<seg, orderVars, saves, current_file_pos,
                     section_generated, k, j, segmentVars, sections_offset,
                     wrapped>>
  BY DEF LayoutInv, Edit
<1>2. sec \in [DOMAIN sec -> Section] /\ n \in Words /\ sec[0].type = "NULL"
      /\ x # 0
  BY <1>1, SectionsTyped, LayoutAssumption
<1>3. /\ sec' \in [DOMAIN sec -> Section] /\ DOMAIN sec' = DOMAIN sec
      /\ sec'[0] = sec[0]
  <2> DEFINE row == [sec[x] EXCEPT !.size = n]
  <2>1. row \in Section
    BY <1>2 DEF Section
  <2>2. sec' = [sec EXCEPT ![x] = row]
    BY <1>1
  <2> HIDE DEF row
  <2> QED
    BY <1>1, <1>2, <2>1, <2>2, SectionsTyped
<1>4. OrderInv'
  BY <1>1, OrderUnmoved
<1>5. IsSections(sec')
  <2>1. LET last == Cardinality(DOMAIN sec) - 1
        IN last \in Nat /\ DOMAIN sec = 0..last
    BY <1>1 DEF LayoutTypeOK, IsSections
  <2> QED
    BY <1>2, <1>3, <2>1 DEF IsSections
<1>6. LayoutTypeOK'
  <2>1. IsSegments(seg', DOMAIN sec') /\ section_generated' \subseteq DOMAIN sec'
    BY <1>1, <1>3 DEF LayoutTypeOK
  <2> QED
    BY <1>1, <1>5, <2>1 DEF LayoutTypeOK, orderVars, segmentVars
<1>7. Behind' /\ Disjoint'
  BY <1>1 DEF Behind, Disjoint, Laying
<1> QED
  BY <1>1, <1>4, <1>6, <1>7 DEF LayoutInv

-----------------------------------------------------------------------------
(* The theorems                                                            *)

LEMMA LayoutInitially == Init => LayoutInv
<1> SUFFICES ASSUME Init
             PROVE  LayoutInv
  OBVIOUS
<1>1. /\ seg \in SegTables /\ sec \in SecTables(seg) /\ OrderInit
      /\ pc = "idle" /\ k = 0 /\ j = 0 /\ res = <<>>
      /\ section_generated = {} /\ wrapped = FALSE
  BY DEF Init, OrderInit
<1>2. HeadersEnd(seg) < Word /\ IsSections(sec) /\ IsSegments(seg, DOMAIN sec)
  BY <1>1, LayoutAssumption
<1>3. OrderInv
  BY <1>1, SegTablesAssumption, InitialOrder
<1>4. {current_file_pos, seg_start_pos, segment_memory, segment_filesize,
       sections_offset} \subseteq Words
  BY LayoutAssumption DEF Init, Words
<1>5. LayoutTypeOK
  <2>1. /\ pc # "rest" /\ pc # "sections"
        /\ pc \in {"idle", "segments", "sections", "rest", "done", "failed"}
        /\ section_generated \subseteq DOMAIN sec
        /\ k \in 0..Len(res) /\ j \in Nat
    BY <1>1
  <2>2. wrapped \in BOOLEAN
    BY <1>1
  <2> QED
    BY <1>2, <1>4, <2>1, <2>2, Zenon DEF LayoutTypeOK
<1>6. Behind /\ Disjoint
  BY <1>1 DEF Behind, Disjoint, Laying
<1> QED
  BY <1>2, <1>3, <1>5, <1>6 DEF LayoutInv

LEMMA LayoutStepwise == LayoutInv /\ [Next]_vars => LayoutInv'
<1> SUFFICES ASSUME LayoutInv, [Next]_vars
             PROVE  LayoutInv'
  OBVIOUS
<1>1. CASE BeginSave
  BY <1>1, BeginSaveKeeps DEF LayoutInv
<1>2. CASE OrderStep
  BY <1>2, OrderStepKeepsInv
<1>3. CASE StartSegment
  BY <1>3, StartSegmentKeeps
<1>4. CASE VisitNull
  BY <1>4, VisitNullKeeps
<1>5. CASE Abort
  BY <1>5, AbortKeeps
<1>6. CASE RevisitSection
  BY <1>6, RevisitSectionKeeps
<1>7. CASE PlaceSection
  BY <1>7, PlaceSectionKeeps
<1>8. CASE EndSegment
  BY <1>8, EndSegmentKeeps
<1>9. CASE EndSegments
  BY <1>9, EndSegmentsKeeps
<1>10. CASE SkipGenerated
  BY <1>10, SkipGeneratedKeeps
<1>11. CASE PlaceRest
  BY <1>11, PlaceRestKeeps
<1>12. CASE LayoutTable
  BY <1>12, LayoutTableKeeps
<1>13. CASE \E x \in DOMAIN sec : \E n \in Sizes : Edit(x, n)
  BY <1>13, EditKeeps
<1>14. CASE UNCHANGED vars
  <2>1. UNCHANGED <<seg, orderVars, sec, pc, current_file_pos,
                    section_generated, k, j, segmentVars, sections_offset,
                    wrapped>>
    BY <1>14 DEF vars, layoutVars
  <2>2. OrderInv'
    BY <2>1, OrderUnmoved DEF LayoutInv
  <2>3. LayoutTypeOK'
    BY <2>1 DEF LayoutInv, LayoutTypeOK, orderVars, segmentVars, Current
  <2>4. Behind' /\ Disjoint'
    BY <2>1 DEF LayoutInv, Behind, Disjoint, Laying, Placed, Occupies, InFile,
                Begin, End
  <2> QED
    BY <2>1, <2>2, <2>3, <2>4 DEF LayoutInv
<1> QED
  BY <1>1, <1>2, <1>3, <1>4, <1>5, <1>6, <1>7, <1>8, <1>9, <1>10, <1>11,
     <1>12, <1>13, <1>14 DEF Next

THEOREM LayoutInvariance == Spec => []LayoutInv
BY LayoutInitially, LayoutStepwise, PTL DEF Spec

(* The loops of save() index segments and sections that exist, whatever    *)
(* the tables, and every offset they compute is a word.                    *)
THEOREM LayoutTypeCorrect == Spec => []LayoutTypeOK
<1>1. LayoutInv => LayoutTypeOK
  BY DEF LayoutInv
<1> QED
  BY <1>1, LayoutInvariance, PTL

(* No two sections share bytes of the file, none lies over the headers, as *)
(* long as the file position has not exceeded a word.                      *)
THEOREM SectionsAreDisjoint == Spec => []Disjoint
<1>1. LayoutInv => Disjoint
  BY DEF LayoutInv
<1> QED
  BY <1>1, LayoutInvariance, PTL

-----------------------------------------------------------------------------
(* Segments cover their sections.                                          *)

Listed(g, p) == seg[g].sections[p]

Distinct(g) ==
  \A p, q \in DOMAIN seg[g].sections : p < q => Listed(g, p) # Listed(g, q)

Regular(g) == NobitsLast(g) /\ AllOrNone(g) /\ Distinct(g)

(* Where the file extent of the current segment ends by now                *)
Span == seg_start_pos + segment_filesize

(* The segment is the first to place its sections: its extent ends at the  *)
(* file position, until sections without file contents follow.             *)
Growing(g) ==
  /\ \A p \in j + 1..Len(seg[g].sections) : Listed(g, p) \notin section_generated
  /\ (\A p \in 1..j : sec[Listed(g, p)].type # "NOBITS") => Span = current_file_pos
  /\ \A p \in 1..j :
       Occupies(Listed(g, p)) =>
         seg_start_pos <= Begin(Listed(g, p)) /\ End(Listed(g, p)) <= Span

(* An earlier segment has placed all its sections: the extent starts at or *)
(* before each of them and has reached those visited.                      *)
Revisiting(g) ==
  /\ Members(seg[g].sections) \subseteq section_generated
  /\ InOrder(g) =>
       /\ \A x \in Members(seg[g].sections) :
            InFile(x) => seg_start_pos <= Begin(x)
       /\ \A p \in 1..j : Occupies(Listed(g, p)) => End(Listed(g, p)) <= Span

(* What is known of a segment that is laid out, from then on               *)
Settled(g) ==
  /\ Members(seg[g].sections) \subseteq section_generated
  /\ ~wrapped /\ NobitsLast(g) /\ AllOrNone(g) /\ InOrder(g) => Covers(g)

(* Nothing is laid out before the order is known.                          *)
Ordering ==
  phase # "ordered" =>
    /\ pc \notin {"sections", "rest", "done", "failed"}
    /\ pc = "segments" => k = 0

Finished == {res[m] : m \in 1..k}

(* A section gets its place with a segment, and all of the segment do.     *)
Sources ==
  \A x \in section_generated :
    \/ \E h \in Finished : x \in Members(seg[h].sections)
    \/ pc = "sections" /\ \E p \in 1..j : x = Listed(Current, p)

Underway ==
  pc = "sections" =>
    /\ \A p \in 1..j : Listed(Current, p) \in section_generated
    /\ ~wrapped /\ Regular(Current) => Growing(Current) \/ Revisiting(Current)

CoverInv ==
  /\ LayoutInv /\ Ordering
  /\ pc \in {"rest", "done"} => k = Len(res)
  /\ Laying => Sources /\ \A g \in Finished : Settled(g)
  /\ Underway

(* What a step of a save leaves alone once the order is known              *)
Steady ==
  /\ UNCHANGED orderVars
  /\ Len(seg') = Len(seg)
  /\ \A g \in SegIds : seg'[g].sections = seg[g].sections
  /\ DOMAIN sec' = DOMAIN sec
  /\ \A x \in DOMAIN sec : sec'[x].type = sec[x].type
  /\ \A x \in section_generated : sec'[x] = sec[x]
  /\ section_generated \subseteq section_generated'
  /\ wrapped => wrapped'

LEMMA ListTyped ==
  ASSUME LayoutTypeOK, NEW g \in SegIds
  PROVE  /\ Len(seg[g].sections) \in Nat
         /\ DOMAIN seg[g].sections = 1..Len(seg[g].sections)
         /\ \A p \in 1..Len(seg[g].sections) :
              /\ Listed(g, p) \in DOMAIN sec
              /\ Listed(g, p) \in Members(seg[g].sections)
         /\ \A x \in Members(seg[g].sections) :
              /\ x \in DOMAIN sec
              /\ \E p \in 1..Len(seg[g].sections) : x = Listed(g, p)
<1>1. seg[g] \in Segment(DOMAIN sec)
  BY TypedIsTable DEF LayoutTypeOK, SegIds
<1> DEFINE list == seg[g].sections
<1>2. list \in Seq(DOMAIN sec)
  BY <1>1 DEF Segment
<1>3. /\ Len(list) \in Nat /\ DOMAIN list = 1..Len(list)
      /\ \A p \in 1..Len(list) : list[p] \in DOMAIN sec
  BY <1>2, LenProperties
<1> QED
  BY <1>3 DEF Listed, Members

LEMMA OrderedTyped ==
  ASSUME LayoutInv
  PROVE  /\ LayoutTypeOK /\ OrderInv /\ Len(res) \in Nat
         /\ DOMAIN res = 1..Len(res) /\ k \in 0..Len(res)
         /\ \A m \in 1..Len(res) : res[m] \in SegIds
         /\ \A m, n \in 1..Len(res) : res[m] = res[n] => m = n
         /\ k < Len(res) => Current \in SegIds
<1>1. res \in Seq(SegIds) /\ Once(res) /\ k \in 0..Len(res)
  BY DEF LayoutInv, OrderInv, OrderTypeOK, EachSegmentOnce, LayoutTypeOK
<1>2. /\ Len(res) \in Nat /\ DOMAIN res = 1..Len(res)
      /\ \A m \in 1..Len(res) : res[m] \in SegIds
  BY <1>1, LenProperties
<1>3. k < Len(res) => k + 1 \in 1..Len(res)
  BY <1>1, <1>2
<1> QED
  BY <1>1, <1>2, <1>3 DEF LayoutInv, Once, Current

(* The conditions under which a segment covers its sections are fixed once *)
(* the order is known, and those about offsets once they are given.        *)
LEMMA ConditionsStay ==
  ASSUME LayoutInv, Steady, NEW g \in SegIds
  PROVE  /\ AllOrNone(g)' <=> AllOrNone(g)
         /\ NobitsLast(g)' <=> NobitsLast(g)
         /\ Distinct(g)' <=> Distinct(g)
         /\ Regular(g)' <=> Regular(g)
<1>1. LayoutTypeOK /\ DOMAIN res = 1..Len(res)
      /\ \A m \in 1..Len(res) : res[m] \in SegIds
  BY OrderedTyped
<1>2. res' = res /\ \A h \in SegIds : seg'[h].sections = seg[h].sections
  BY DEF Steady, orderVars
<1>3. AllOrNone(g)' <=> AllOrNone(g)
  <2>1. \A m \in DOMAIN res : seg'[res[m]].sections = seg[res[m]].sections
    BY <1>1, <1>2
  <2> QED
    BY <1>2, <2>1 DEF AllOrNone
<1>4. Distinct(g)' <=> Distinct(g)
  BY <1>2 DEF Distinct, Listed
<1>5. NobitsLast(g)' <=> NobitsLast(g)
  <2>1. \A p \in DOMAIN seg[g].sections : seg[g].sections[p] \in DOMAIN sec
    BY <1>1, ListTyped DEF Listed
  <2>2. \A x \in DOMAIN sec : sec'[x].type = sec[x].type
    BY DEF Steady
  <2> QED
    BY <1>2, <2>1, <2>2 DEF NobitsLast, InFile
<1> QED
  BY <1>3, <1>4, <1>5 DEF Regular

LEMMA PlacesStay ==
  ASSUME LayoutInv, Steady, NEW g \in SegIds,
         Members(seg[g].sections) \subseteq section_generated
  PROVE  /\ InOrder(g)' <=> InOrder(g)
         /\ seg'[g] = seg[g] => (Covers(g)' <=> Covers(g))
         /\ Members(seg'[g].sections) = Members(seg[g].sections)
<1>1. seg'[g].sections = seg[g].sections
  BY DEF Steady
<1>2. \A x \in Members(seg[g].sections) : sec'[x] = sec[x]
  BY DEF Steady
<1>3. \A p \in DOMAIN seg[g].sections :
        sec'[seg[g].sections[p]] = sec[seg[g].sections[p]]
  BY <1>2 DEF Members
<1>4. InOrder(g)' <=> InOrder(g)
  BY <1>1, <1>3 DEF InOrder, End, Begin
<1>5. seg'[g] = seg[g] => (Covers(g)' <=> Covers(g))
  BY <1>1, <1>2 DEF Covers, Occupies, InFile, Begin, End, FileEnd
<1> QED
  BY <1>1, <1>4, <1>5

LEMMA SettledStays ==
  ASSUME LayoutInv, Steady, NEW g \in SegIds, seg'[g] = seg[g], Settled(g)
  PROVE  Settled(g)'
<1>1. Members(seg[g].sections) \subseteq section_generated
  BY DEF Settled
<1>2. /\ AllOrNone(g)' <=> AllOrNone(g)
      /\ NobitsLast(g)' <=> NobitsLast(g)
  BY ConditionsStay
<1>3. /\ InOrder(g)' <=> InOrder(g)
      /\ Covers(g)' <=> Covers(g)
      /\ Members(seg'[g].sections) = Members(seg[g].sections)
  BY <1>1, PlacesStay
<1>4. section_generated \subseteq section_generated' /\ (wrapped => wrapped')
  BY DEF Steady
<1> QED
  BY <1>1, <1>2, <1>3, <1>4 DEF Settled

LEMMA FinishedTyped ==
  ASSUME LayoutInv
  PROVE  Finished \subseteq SegIds
<1>1. /\ Len(res) \in Nat /\ k \in 0..Len(res)
      /\ \A m \in 1..Len(res) : res[m] \in SegIds
  BY OrderedTyped
<1> QED
  BY <1>1 DEF Finished

(* Steps of a save that lays out no part of a segment                      *)
LEMMA UnsegmentedCovers ==
  ASSUME CoverInv, LayoutInv', Steady, Laying, pc # "sections",
         phase = "ordered", UNCHANGED <<seg, k, section_generated>>,
         pc' \in {"rest", "done"}, k = Len(res)
  PROVE  CoverInv'
<1>1. LayoutInv /\ Finished \subseteq SegIds
  BY FinishedTyped DEF CoverInv
<1>2. res' = res /\ phase' = phase /\ Finished' = Finished
  BY DEF Steady, orderVars, Finished
<1>3. \A g \in Finished' : Settled(g)'
  <2> SUFFICES ASSUME NEW g \in Finished
               PROVE  Settled(g)'
    BY <1>2
  <2>1. g \in SegIds /\ Settled(g)
    BY <1>1 DEF CoverInv
  <2> QED
    BY <1>1, <2>1, SettledStays
<1>4. Sources'
  BY <1>2 DEF CoverInv, Sources
<1> QED
  BY <1>2, <1>3, <1>4 DEF CoverInv, Ordering, Underway

LEMMA EndSegmentsCovers ==
  ASSUME CoverInv, EndSegments
  PROVE  CoverInv'
<1>1. LayoutInv'
  BY EndSegmentsKeeps DEF CoverInv
<1>2. Steady
  BY DEF EndSegments, Steady
<1> QED
  BY <1>1, <1>2, UnsegmentedCovers DEF EndSegments, Laying

LEMMA SkipGeneratedCovers ==
  ASSUME CoverInv, SkipGenerated
  PROVE  CoverInv'
<1>1. LayoutInv'
  BY SkipGeneratedKeeps DEF CoverInv
<1>2. Steady
  BY DEF SkipGenerated, Steady
<1>3. phase = "ordered" /\ k = Len(res)
  BY DEF CoverInv, Ordering, SkipGenerated
<1> QED
  BY <1>1, <1>2, <1>3, UnsegmentedCovers DEF SkipGenerated, Laying

LEMMA LayoutTableCovers ==
  ASSUME CoverInv, LayoutTable
  PROVE  CoverInv'
<1>1. LayoutInv'
  BY LayoutTableKeeps DEF CoverInv
<1>2. Steady
  BY DEF LayoutTable, Advance, Steady
<1>3. phase = "ordered" /\ k = Len(res)
  BY DEF CoverInv, Ordering, LayoutTable
<1> QED
  BY <1>1, <1>2, <1>3, UnsegmentedCovers DEF LayoutTable, Laying

LEMMA PlaceRestSteady ==
  ASSUME LayoutInv, PlaceRest
  PROVE  Steady
<1>1. /\ pc = "rest" /\ pc' = pc /\ j \in DOMAIN sec \ section_generated
      /\ UNCHANGED <<seg, orderVars, k, section_generated>>
      /\ wrapped => wrapped'
  BY DEF PlaceRest
<1>2. sec \in [DOMAIN sec -> Section]
  BY SectionsTyped DEF LayoutInv
<1>3. PICK pos : sec' = IF j = 0 THEN sec ELSE [sec EXCEPT ![j].offset = pos]
  BY DEF PlaceRest
<1>4. /\ DOMAIN sec' = DOMAIN sec
      /\ \A x \in DOMAIN sec : x # j => sec'[x] = sec[x]
      /\ sec'[j].type = sec[j].type
  <2>1. [sec[j] EXCEPT !.offset = pos].type = sec[j].type
    BY <1>1, <1>2 DEF Section
  <2> QED
    BY <1>1, <1>2, <1>3, <2>1
<1>5. section_generated \subseteq DOMAIN sec
  BY DEF LayoutInv, LayoutTypeOK
<1> QED
  BY <1>1, <1>4, <1>5 DEF Steady

LEMMA PlaceRestCovers ==
  ASSUME CoverInv, PlaceRest
  PROVE  CoverInv'
<1>1. LayoutInv' /\ Steady
  BY PlaceRestKeeps, PlaceRestSteady DEF CoverInv
<1>2. phase = "ordered" /\ k = Len(res)
  BY DEF CoverInv, Ordering, PlaceRest
<1> QED
  BY <1>1, <1>2, UnsegmentedCovers DEF PlaceRest, Laying

LEMMA OrderStepCovers ==
  ASSUME CoverInv, OrderStep
  PROVE  CoverInv'
<1>1. LayoutInv' /\ LayoutInv
  BY OrderStepKeepsInv DEF CoverInv
<1>2. pc = "segments" /\ OrderNext /\ UNCHANGED <<seg, layoutVars>>
  BY DEF OrderStep
<1>3. phase # "ordered"
  BY <1>2 DEF OrderNext, FrontStep, FrontDone, Take, Requeue, QueueDone
<1>4. k = 0 /\ k' = 0 /\ pc' = "segments"
  BY <1>2, <1>3 DEF CoverInv, Ordering, layoutVars
<1>5. Finished = {} /\ Finished' = {}
  BY <1>4 DEF Finished
<1>6. section_generated = {}
  BY <1>2, <1>5 DEF CoverInv, Sources, Laying
<1>7. section_generated' = {}
  BY <1>2, <1>6 DEF layoutVars
<1> QED
  BY <1>1, <1>4, <1>5, <1>7 DEF CoverInv, Ordering, Sources, Underway

(* Steps of a save that visit one section of the current segment           *)
LEMMA VisitedOne ==
  ASSUME CoverInv, LayoutInv', Steady, AtSection, UNCHANGED <<seg, k, pc>>,
         j' = j + 1, section_generated' = section_generated \cup {Visited},
         NEW g \in SegIds, g = Current,
         ~wrapped' /\ Regular(g) =>
           Growing(g)' \/ Revisiting(g)'
  PROVE  CoverInv'
<1>1. /\ LayoutInv /\ LayoutTypeOK /\ Finished \subseteq SegIds
      /\ pc = "sections" /\ j \in Nat
  BY FinishedTyped DEF CoverInv, LayoutInv, LayoutTypeOK, AtSection
<1>2. /\ res' = res /\ phase' = phase /\ Finished' = Finished
      /\ g = Current' /\ pc' = "sections"
  BY <1>1 DEF Steady, orderVars, Finished, Current
<1>3. \A h \in Finished' : Settled(h)'
  <2> SUFFICES ASSUME NEW h \in Finished
               PROVE  Settled(h)'
    BY <1>2
  <2>1. h \in SegIds /\ Settled(h)
    BY <1>1 DEF CoverInv, Laying
  <2> QED
    BY <1>1, <2>1, SettledStays
<1>4. /\ \A p \in 1..j' : p \in 1..j \/ p = j + 1
      /\ \A p \in 1..j : p \in 1..j'
      /\ j + 1 \in 1..j'
  BY <1>1
<1>5. Listed(g, j + 1) = Visited
  BY DEF Listed, Visited
<1>6. Sources'
  <2>1. Sources
    BY <1>1 DEF CoverInv, Laying
  <2> QED
    BY <1>1, <1>2, <1>4, <1>5, <2>1 DEF Sources, Listed
<1>7. \A p \in 1..j' : Listed(g, p)' \in section_generated'
  BY <1>1, <1>4, <1>5 DEF CoverInv, Underway, Listed
<1>8. Regular(g)' => Regular(g)
  BY <1>1, ConditionsStay
<1>9. Underway'
  BY <1>2, <1>7, <1>8 DEF Underway
<1> QED
  BY <1>1, <1>2, <1>3, <1>6, <1>9 DEF CoverInv, Ordering, Laying

LEMMA VisitNullCovers ==
  ASSUME CoverInv, VisitNull
  PROVE  CoverInv'
<1>1. LayoutInv' /\ LayoutInv /\ LayoutTypeOK /\ OrderInv
  BY VisitNullKeeps DEF CoverInv, LayoutInv
<1>2. /\ AtSection /\ pc = "sections" /\ sec[Visited].type = "NULL"
      /\ section_generated' = section_generated \cup {Visited}
      /\ j' = j + 1
      /\ UNCHANGED <<seg, orderVars, sec, pc, current_file_pos, k,
                     segmentVars, wrapped>>
  BY DEF VisitNull, AtSection
<1>3. Steady
  BY <1>2 DEF Steady
<1>4. PICK g \in SegIds : g = Current
  BY <1>1, <1>2, VisitedTyped DEF SegIds
<1>5. j \in Nat /\ j + 1 <= Len(seg[g].sections)
      /\ Len(seg[g].sections) \in Nat
  BY <1>1, <1>2, <1>4, VisitedTyped, ListTyped DEF LayoutTypeOK
<1>6. Visited = Listed(g, j + 1)
  BY <1>4 DEF Visited, Listed
<1>7. /\ \A p \in 1..j' : p \in 1..j \/ p = j + 1
      /\ \A p \in 1..j : p \in 1..j'
      /\ \A p \in j' + 1..Len(seg[g].sections) :
           p \in j + 1..Len(seg[g].sections) /\ j + 1 < p
  BY <1>2, <1>5
<1>8. ~Occupies(Visited)
  BY <1>2 DEF Occupies, InFile
<1>9. Span' = Span
  BY <1>2 DEF Span, segmentVars
<1>10. ASSUME Growing(g), Distinct(g)
       PROVE  Growing(g)'
  <2>1. \A p \in j' + 1..Len(seg[g].sections) :
          Listed(g, p) \notin section_generated'
    <3>1. \A p \in j' + 1..Len(seg[g].sections) :
            Listed(g, p) # Listed(g, j + 1)
      BY <1>1, <1>5, <1>7, <1>10, ListTyped DEF Distinct
    <3> QED
      BY <1>2, <1>6, <1>7, <1>10, <3>1 DEF Growing
  <2>2. \A p \in 1..j' : Occupies(Listed(g, p)) =>
          seg_start_pos <= Begin(Listed(g, p)) /\ End(Listed(g, p)) <= Span
    BY <1>6, <1>7, <1>8, <1>10 DEF Growing
  <2>3. (\A p \in 1..j' : sec[Listed(g, p)].type # "NOBITS")
          => Span = current_file_pos
    BY <1>7, <1>10 DEF Growing
  <2> QED
    BY <1>2, <1>9, <2>1, <2>2, <2>3
       DEF Growing, Listed, Occupies, InFile, Begin, End, segmentVars
<1>11. ASSUME Revisiting(g)
       PROVE  Revisiting(g)'
  <2>1. InOrder(g) => \A p \in 1..j' :
          Occupies(Listed(g, p)) => End(Listed(g, p)) <= Span
    BY <1>6, <1>7, <1>8, <1>11 DEF Revisiting
  <2> QED
    BY <1>2, <1>9, <1>11, <2>1
       DEF Revisiting, Listed, Occupies, InFile, Begin, End, InOrder,
           segmentVars
<1>12. ~wrapped' /\ Regular(g) => Growing(g)' \/ Revisiting(g)'
  BY <1>2, <1>4, <1>10, <1>11 DEF CoverInv, Underway, Regular
<1> QED
  BY <1>1, <1>2, <1>3, <1>4, <1>12, VisitedOne

(* The part of a section in a segment that is already laid out            *)
LEMMA RevisitedSpan ==
  ASSUME LayoutInv, LayoutInv', RevisitSection, NEW x, x = Visited,
         ~wrapped, InFile(x), seg_start_pos <= Begin(x)
  PROVE  Span' = End(x)
<1>1. /\ LayoutTypeOK /\ LayoutTypeOK' /\ OrderInv /\ AtSection
      /\ pc = "sections" /\ x \in section_generated
      /\ Account(x) /\ seg_start_pos' = seg_start_pos
  BY DEF LayoutInv, RevisitSection, AtSection
<1>2. x \in DOMAIN sec /\ sec[x] \in Section
  BY <1>1, VisitedTyped
<1> DEFINE s == seg_start_pos
           f == segment_filesize
           o == sec[x].offset
           n == sec[x].size
           c == current_file_pos
<1>3. s \in Words /\ f \in Words /\ o \in Words /\ n \in Words /\ c \in Words
  BY <1>1, <1>2 DEF LayoutTypeOK, Section
<1>4. Word \in Nat /\ s \in Nat /\ f \in Nat /\ o \in Nat /\ n \in Nat
      /\ c \in Nat /\ s < Word /\ f < Word /\ o < Word /\ n < Word /\ c < Word
  BY <1>3, LayoutAssumption DEF Words
<1>5. s <= o
  BY DEF Begin
<1>6. o + n < Word
  <2>1. n # 0 => o + n <= c
    BY <1>1, <1>2 DEF LayoutInv, Disjoint, Laying, Placed, Occupies, End
  <2> QED
    BY <1>4, <2>1
<1>7. Gap(x) = Minus(Minus(o, s), f)
  BY <1>1 DEF Gap, PlacedByAddress
<1>8. segment_filesize' = Plus(f, Plus(n, Gap(x)))
  BY <1>1 DEF Account, InFile
<1> HIDE DEF s, f, o, n, c
<1>9. Minus(o, s) = o - s
  BY <1>5 DEF Minus
<1>10. Gap(x) = IF f <= o - s THEN o - s - f ELSE o - s + Word - f
  BY <1>7, <1>9 DEF Minus
<1>11. segment_filesize' = o + n - s
  <2>1. CASE f <= o - s
    BY <1>4, <1>5, <1>6, <1>8, <1>10, <2>1 DEF Plus
  <2>2. CASE ~(f <= o - s)
    BY <1>4, <1>5, <1>6, <1>8, <1>10, <2>2 DEF Plus
  <2> QED
    BY <2>1, <2>2
<1>12. seg_start_pos' = s
  BY <1>1 DEF s
<1> QED
  BY <1>4, <1>11, <1>12 DEF Span, End, o, n

LEMMA RevisitSectionCovers ==
  ASSUME CoverInv, RevisitSection
  PROVE  CoverInv'
<1>1. LayoutInv' /\ LayoutInv /\ LayoutTypeOK /\ OrderInv
  BY RevisitSectionKeeps DEF CoverInv, LayoutInv
<1>2. /\ AtSection /\ pc = "sections" /\ sec[Visited].type # "NULL"
      /\ Visited \in section_generated /\ Account(Visited)
      /\ j' = j + 1
      /\ UNCHANGED <<seg, orderVars, sec, pc, current_file_pos,
                     section_generated, k, seg_start_pos, wrapped>>
  BY DEF RevisitSection, AtSection
<1>3. Steady
  BY <1>2 DEF Steady
<1>4. PICK g \in SegIds : g = Current
  BY <1>1, <1>2, VisitedTyped DEF SegIds
<1>5. j \in Nat /\ j + 1 <= Len(seg[g].sections)
      /\ Len(seg[g].sections) \in Nat
  BY <1>1, <1>2, <1>4, VisitedTyped, ListTyped DEF LayoutTypeOK
<1>6. Visited = Listed(g, j + 1) /\ j + 1 \in 1..Len(seg[g].sections)
  BY <1>4, <1>5 DEF Visited, Listed
<1>7. \A p \in 1..j' : p \in 1..j \/ p = j + 1
  BY <1>2, <1>5
<1>8. ~Growing(g)
  <2>1. j + 1 \in j + 1..Len(seg[g].sections)
    BY <1>5
  <2> QED
    BY <1>2, <1>6, <2>1 DEF Growing
<1>9. ASSUME ~wrapped, Revisiting(g), InOrder(g), NEW p \in 1..j',
             Occupies(Listed(g, p))
      PROVE  End(Listed(g, p)) <= Span'
  <2> DEFINE x == Listed(g, j + 1)
             y == Listed(g, p)
  <2>1. x \in DOMAIN sec /\ x \in Members(seg[g].sections)
    BY <1>1, <1>6, ListTyped
  <2>2. CASE sec[x].type = "NOBITS"
    <3>1. Span' = Span
      BY <1>2, <1>6, <2>2 DEF Account, Span
    <3>2. p # j + 1
      BY <1>9, <2>2 DEF Occupies, InFile
    <3> QED
      BY <1>7, <1>9, <3>1, <3>2 DEF Revisiting
  <2>3. CASE sec[x].type # "NOBITS"
    <3>1. InFile(x)
      BY <1>2, <1>6, <2>3 DEF InFile
    <3>2. seg_start_pos <= Begin(x)
      BY <1>9, <2>1, <3>1 DEF Revisiting
    <3>3. Span' = End(x)
      BY <1>1, <1>6, <1>9, <3>1, <3>2, RevisitedSpan
    <3>4. \A z \in DOMAIN sec : Begin(z) \in Nat /\ sec[z].size \in Nat
      <4>1. \A z \in DOMAIN sec : sec[z].offset \in Words /\ sec[z].size \in Words
        BY <1>1, SectionsTyped DEF Section
      <4> QED
        BY <4>1, LayoutAssumption DEF Begin, Words
    <3>5. Begin(x) <= End(x)
      BY <2>1, <3>4 DEF Begin, End
    <3>6. CASE p = j + 1
      BY <2>1, <3>3, <3>4, <3>6 DEF Begin, End
    <3>7. CASE p # j + 1
      <4>1. p \in 1..j /\ p \in 1..Len(seg[g].sections) /\ p < j + 1
        BY <1>5, <1>7, <3>7
      <4>2. y \in DOMAIN sec
        BY <1>1, <4>1, ListTyped
      <4>3. End(y) <= Begin(x)
        <5>1. DOMAIN seg[g].sections = 1..Len(seg[g].sections)
          BY <1>1, ListTyped
        <5>2. sec[y].type # "NOBITS"
          BY <1>9 DEF Occupies, InFile
        <5> QED
          BY <1>6, <1>9, <2>3, <4>1, <5>1, <5>2 DEF InOrder, Listed
      <4>4. End(y) \in Nat /\ Begin(x) \in Nat /\ End(x) \in Nat
        BY <2>1, <3>4, <4>2 DEF End, Begin
      <4> QED
        BY <3>3, <3>5, <4>3, <4>4
    <3> QED
      BY <3>6, <3>7
  <2> QED
    BY <2>2, <2>3
<1>10. ASSUME ~wrapped, Revisiting(g)
       PROVE  Revisiting(g)'
  BY <1>2, <1>9, <1>10
     DEF Revisiting, Listed, Occupies, InFile, Begin, End, InOrder
<1>11. ~wrapped' /\ Regular(g) => Growing(g)' \/ Revisiting(g)'
  BY <1>2, <1>4, <1>8, <1>10 DEF CoverInv, Underway
<1>12. section_generated' = section_generated \cup {Visited}
  BY <1>2
<1> QED
  BY <1>1, <1>2, <1>3, <1>4, <1>11, <1>12, VisitedOne

(* What placing a section does to it, to the position and to the extent of *)
(* its segment                                                             *)
LEMMA PlacedOnce ==
  ASSUME LayoutInv, LayoutInv', PlaceSection, NEW x, x = Visited
  PROVE  /\ x \in DOMAIN sec /\ DOMAIN sec' = DOMAIN sec
         /\ \A y \in DOMAIN sec : /\ y # x => sec'[y] = sec[y]
                                  /\ sec'[y].type = sec[y].type
         /\ sec'[x].size = sec[x].size
         /\ wrapped => wrapped'
         /\ sec[x].type = "NOBITS" => Span' = Span
         /\ ~wrapped' /\ InFile(x) =>
              /\ current_file_pos <= sec'[x].offset
              /\ sec'[x].offset + sec'[x].size = current_file_pos'
              /\ Span = current_file_pos => Span' = current_file_pos'
              /\ Span <= current_file_pos => Span' <= current_file_pos'
<1> DEFINE pos == Position(x)
<1>1. /\ LayoutTypeOK /\ LayoutTypeOK' /\ OrderInv /\ AtSection
      /\ sec[x].type # "NULL" /\ sec' = PlacedSection(x) /\ Account(x)
      /\ current_file_pos' = Plus(pos, InFileSize(x))
      /\ seg_start_pos' = seg_start_pos
      /\ wrapped' = (wrapped \/ current_file_pos + Gap(x) >= Word
                             \/ pos + InFileSize(x) >= Word)
  BY DEF LayoutInv, PlaceSection
<1>2. x \in DOMAIN sec /\ sec[x] \in Section /\ sec \in [DOMAIN sec -> Section]
  BY <1>1, VisitedTyped, SectionsTyped
<1>3. x # 0
  BY <1>1, SectionsTyped
<1>4. /\ DOMAIN sec' = DOMAIN sec
      /\ \A y \in DOMAIN sec : y # x => sec'[y] = sec[y]
      /\ sec'[x].type = sec[x].type /\ sec'[x].size = sec[x].size
      /\ sec'[x].offset = pos
  <2> DEFINE o == PlacedOffset(x)
             a == PlacedAddress(x)
             row == [sec[x] EXCEPT !.offset = o, !.addr = a, !.addr_set = TRUE]
  <2>1. sec' = [sec EXCEPT ![x] = row]
    BY <1>1 DEF PlacedSection
  <2>2. o = pos
    BY <1>3 DEF PlacedOffset
  <2> HIDE DEF o, a
  <2>3. row.type = sec[x].type /\ row.size = sec[x].size /\ row.offset = o
    BY <1>2 DEF Section
  <2> HIDE DEF row
  <2> QED
    BY <1>2, <2>1, <2>2, <2>3
<1>5. wrapped \in BOOLEAN /\ (wrapped => wrapped')
  BY <1>1 DEF LayoutTypeOK
<1>6. sec[x].type = "NOBITS" => Span' = Span
  BY <1>1 DEF Account, Span
<1>7. ASSUME ~wrapped', InFile(x)
      PROVE  /\ current_file_pos <= sec'[x].offset
             /\ sec'[x].offset + sec'[x].size = current_file_pos'
             /\ Span = current_file_pos => Span' = current_file_pos'
             /\ Span <= current_file_pos => Span' <= current_file_pos'
  <2> DEFINE c == current_file_pos
             s == seg_start_pos
             f == segment_filesize
             n == sec[x].size
             w == Gap(x)
  <2>1. /\ c \in Words /\ s \in Words /\ f \in Words /\ n \in Words
        /\ w \in Words /\ pos \in Words
    BY <1>1, <1>2, VisitTyped DEF LayoutTypeOK, Section
  <2>2. /\ Word \in Nat /\ c \in Nat /\ s \in Nat /\ f \in Nat /\ n \in Nat
        /\ w \in Nat /\ pos \in Nat
    BY <2>1, LayoutAssumption DEF Words
  <2>3. InFileSize(x) = n
    BY <1>7 DEF InFileSize
  <2>4. ~(c + w >= Word) /\ ~(pos + n >= Word)
    BY <1>1, <1>7, <2>3, Zenon
  <2>5. c + w < Word /\ pos + n < Word
    BY <2>2, <2>4
  <2>6. pos = c + w
    BY <2>1, <2>5, PlusMinus DEF Position
  <2>7. current_file_pos' = pos + n
    BY <1>1, <2>1, <2>3, <2>5, PlusMinus
  <2>8. segment_filesize' = Plus(f, Plus(n, w))
    BY <1>1, <1>7 DEF Account, InFile
  <2>9. Span = s + f /\ Span' = s + segment_filesize'
    BY <1>1 DEF Span
  <2>10. sec'[x].offset = pos /\ sec'[x].size = n
    BY <1>4
  <2> HIDE DEF c, s, f, n, w, pos
  <2>11. s + f <= c => Plus(n, w) = n + w /\ Plus(f, n + w) = f + n + w
    BY <2>2, <2>5, <2>6 DEF Plus
  <2>12. s + f <= c => Span' = s + f + n + w
    <3>1. SUFFICES ASSUME s + f <= c
                   PROVE  Span' = s + f + n + w
      OBVIOUS
    <3>2. Plus(n, w) = n + w /\ Plus(f, n + w) = f + n + w
      BY <2>11, <3>1
    <3>3. segment_filesize' = f + n + w
      BY <2>8, <3>2, Zenon
    <3> QED
      BY <2>2, <2>9, <3>3
  <2>13. s + f <= c => Span' <= current_file_pos'
    BY <2>2, <2>6, <2>7, <2>12
  <2>14. s + f = c => Span' = current_file_pos'
    BY <2>2, <2>6, <2>7, <2>12
  <2> QED
    BY <2>2, <2>6, <2>7, <2>9, <2>10, <2>13, <2>14 DEF c
<1> QED
  BY <1>2, <1>4, <1>5, <1>6, <1>7

LEMMA PlaceSectionCovers ==
  ASSUME CoverInv, PlaceSection
  PROVE  CoverInv'
<1> DEFINE x == Visited
<1>1. LayoutInv' /\ LayoutInv /\ LayoutTypeOK /\ LayoutTypeOK' /\ OrderInv
  BY PlaceSectionKeeps DEF CoverInv, LayoutInv
<1>2. /\ AtSection /\ pc = "sections" /\ sec[x].type # "NULL"
      /\ x \notin section_generated
      /\ section_generated' = section_generated \cup {x}
      /\ j' = j + 1
      /\ UNCHANGED <<seg, orderVars, pc, k, seg_start_pos>>
  BY DEF PlaceSection, AtSection
<1>3. /\ x \in DOMAIN sec /\ DOMAIN sec' = DOMAIN sec
      /\ \A y \in DOMAIN sec : /\ y # x => sec'[y] = sec[y]
                               /\ sec'[y].type = sec[y].type
      /\ sec'[x].size = sec[x].size
      /\ wrapped => wrapped'
      /\ sec[x].type = "NOBITS" => Span' = Span
      /\ ~wrapped' /\ InFile(x) =>
           /\ current_file_pos <= sec'[x].offset
           /\ sec'[x].offset + sec'[x].size = current_file_pos'
           /\ Span = current_file_pos => Span' = current_file_pos'
  BY <1>1, PlacedOnce
<1>4. section_generated \subseteq DOMAIN sec
  BY <1>1 DEF LayoutTypeOK
<1>5. \A y \in section_generated : y # x /\ sec'[y] = sec[y]
  BY <1>2, <1>3, <1>4
<1>6. Steady
  BY <1>2, <1>3, <1>5 DEF Steady
<1>7. PICK g \in SegIds : g = Current
  BY <1>1, <1>2, VisitedTyped DEF SegIds
<1>8. j \in Nat /\ j + 1 <= Len(seg[g].sections)
      /\ Len(seg[g].sections) \in Nat
  BY <1>1, <1>2, <1>7, VisitedTyped, ListTyped DEF LayoutTypeOK
<1>9. x = Listed(g, j + 1) /\ j + 1 \in 1..Len(seg[g].sections)
  BY <1>7, <1>8 DEF Visited, Listed
<1> HIDE DEF x
<1>10. /\ \A p \in 1..j' : p \in 1..j \/ p = j + 1
       /\ \A p \in 1..j : /\ p \in 1..j' /\ p < j + 1
                          /\ p \in 1..Len(seg[g].sections)
       /\ \A p \in j' + 1..Len(seg[g].sections) :
            /\ p \in j + 1..Len(seg[g].sections) /\ j + 1 < p
            /\ p \in 1..Len(seg[g].sections)
       /\ j + 1 \in 1..j'
  BY <1>2, <1>8
<1>11. /\ \A p \in 1..j : Listed(g, p) \in section_generated
       /\ \A p \in 1..Len(seg[g].sections) : Listed(g, p) \in DOMAIN sec
       /\ DOMAIN seg[g].sections = 1..Len(seg[g].sections)
  BY <1>1, <1>2, <1>7, ListTyped DEF CoverInv, Underway
<1>12. ~Revisiting(g)
  BY <1>1, <1>2, <1>9, ListTyped DEF Revisiting
<1>13. ASSUME ~wrapped', Growing(g), Regular(g)
       PROVE  Growing(g)'
  <2>1. \A p \in j' + 1..Len(seg[g].sections) :
          Listed(g, p) \notin section_generated'
    <3>1. \A p \in j' + 1..Len(seg[g].sections) : Listed(g, p) # x
      BY <1>9, <1>10, <1>11, <1>13 DEF Regular, Distinct
    <3> QED
      BY <1>2, <1>10, <1>13, <3>1 DEF Growing
  <2>2. InFile(x) => \A p \in 1..j : sec[Listed(g, p)].type # "NOBITS"
    BY <1>9, <1>10, <1>11, <1>13 DEF Regular, NobitsLast, Listed
  <2>3. InFile(x) => /\ current_file_pos <= sec'[x].offset
                     /\ sec'[x].offset + sec'[x].size = current_file_pos'
                     /\ Span = current_file_pos /\ Span' = current_file_pos'
    BY <1>3, <1>13, <2>2 DEF Growing
  <2>4. InFile(x) \/ sec[x].type = "NOBITS"
    BY <1>2 DEF InFile, x
  <2>5. ASSUME \A p \in 1..j' : sec'[Listed(g, p)].type # "NOBITS"
        PROVE  Span' = current_file_pos'
    <3>1. sec'[x].type # "NOBITS"
      BY <1>9, <1>10, <2>5
    <3> QED
      BY <1>3, <2>3, <2>4, <3>1
  <2>6. /\ Span \in Nat /\ Span' \in Nat /\ seg_start_pos \in Nat
        /\ seg_start_pos <= Span
        /\ \A y \in DOMAIN sec : sec'[y].offset \in Nat /\ sec'[y].size \in Nat
    <3>1. /\ seg_start_pos \in Words /\ segment_filesize \in Words
          /\ seg_start_pos' \in Words /\ segment_filesize' \in Words
      BY <1>1 DEF LayoutTypeOK
    <3>2. \A y \in DOMAIN sec' : sec'[y] \in Section
      <4>1. IsSections(sec')
        BY <1>1 DEF LayoutTypeOK
      <4>2. PICK n : sec' \in [0..n -> Section]
        BY <4>1 DEF IsSections
      <4> QED
        BY <4>2
    <3>3. \A y \in DOMAIN sec : sec'[y].offset \in Words /\ sec'[y].size \in Words
      BY <1>3, <3>2 DEF Section
    <3> QED
      BY <3>1, <3>3, LayoutAssumption DEF Span, Words
  <2>7. Span <= Span'
    <3>1. InFile(x) => Span <= Span'
      <4> SUFFICES ASSUME InFile(x) PROVE Span <= Span'
        OBVIOUS
      <4>1. sec'[x].offset \in Nat /\ sec'[x].size \in Nat
        BY <1>3, <2>6
      <4> QED
        BY <2>3, <2>6, <4>1
    <3> QED
      BY <1>3, <2>4, <2>6, <3>1
  <2>8. ASSUME NEW p \in 1..j', sec'[Listed(g, p)].type \notin {"NOBITS", "NULL"},
               sec'[Listed(g, p)].size # 0
        PROVE  /\ seg_start_pos <= sec'[Listed(g, p)].offset
               /\ sec'[Listed(g, p)].offset + sec'[Listed(g, p)].size <= Span'
    <3>1. CASE p \in 1..j
      <4> DEFINE y == Listed(g, p)
      <4>1. y \in DOMAIN sec /\ sec'[y] = sec[y]
        BY <1>4, <1>5, <1>11, <3>1
      <4>2. Occupies(y)
        BY <2>8, <4>1 DEF Occupies, InFile
      <4>3. seg_start_pos <= sec[y].offset /\ sec[y].offset + sec[y].size <= Span
        BY <1>13, <3>1, <4>2 DEF Growing, Begin, End
      <4>4. sec[y].offset \in Nat /\ sec[y].size \in Nat
        BY <2>6, <4>1
      <4> QED
        BY <2>6, <2>7, <4>1, <4>3, <4>4
    <3>2. CASE p = j + 1
      <4>1. InFile(x)
        BY <1>3, <1>9, <2>8, <3>2 DEF InFile
      <4>2. sec'[x].offset \in Nat /\ sec'[x].size \in Nat
        BY <1>3, <2>6
      <4> QED
        BY <1>9, <2>3, <2>6, <3>2, <4>1, <4>2
    <3> QED
      BY <1>10, <3>1, <3>2
  <2>9. seg' = seg /\ seg_start_pos' = seg_start_pos
    BY <1>2
  <2>10. \A p : Listed(g, p)' = Listed(g, p)
    BY <2>9 DEF Listed
  <2> QED
    BY <2>1, <2>5, <2>8, <2>9, <2>10
       DEF Growing, Listed, Occupies, InFile, Begin, End
<1>14. ~wrapped' /\ Regular(g) => Growing(g)' \/ Revisiting(g)'
  BY <1>2, <1>3, <1>7, <1>12, <1>13 DEF CoverInv, Underway
<1>15. /\ AtSection /\ UNCHANGED <<seg, k, pc>> /\ j' = j + 1
       /\ section_generated' = section_generated \cup {Visited}
  BY <1>2 DEF x
<1> QED
  BY <1>1, <1>6, <1>7, <1>14, <1>15, VisitedOne

LEMMA StartSegmentCovers ==
  ASSUME CoverInv, StartSegment
  PROVE  CoverInv'
<1>1. LayoutInv' /\ LayoutInv /\ LayoutTypeOK /\ OrderInv
      /\ Finished \subseteq SegIds
  BY StartSegmentKeeps, FinishedTyped DEF CoverInv, LayoutInv
<1>2. /\ pc = "segments" /\ phase = "ordered" /\ k < Len(res)
      /\ pc' = "sections" /\ j' = 0
      /\ UNCHANGED <<seg, orderVars, sec, section_generated, k>>
  BY DEF StartSegment
<1>3. PICK g \in SegIds : g = Current
  BY <1>1, <1>2, OrderedTyped
<1> DEFINE mine == Members(seg[g].sections)
<1>4. wrapped => wrapped'
  <2>1. wrapped' = wrapped \/ wrapped' = (wrapped \/ current_file_pos +
           PageAdjustment(current_file_pos, seg[Current].vaddr,
                          seg[Current].align) >= Word)
    BY Zenon DEF StartSegment, Advance
  <2> QED
    BY <2>1, Zenon
<1>5. Steady
  BY <1>2, <1>4 DEF Steady
<1>6. /\ res' = res /\ phase' = phase /\ Finished' = Finished
      /\ g = Current'
  BY <1>2, <1>3 DEF orderVars, Finished, Current
<1>7. \A h \in Finished' : Settled(h)'
  <2> SUFFICES ASSUME NEW h \in Finished
               PROVE  Settled(h)'
    BY <1>6
  <2>1. h \in SegIds /\ Settled(h)
    BY <1>1, <1>2 DEF CoverInv, Laying
  <2> QED
    BY <1>1, <1>2, <1>5, <2>1, SettledStays
<1>8. Sources /\ Sources'
  <2>1. Sources
    BY <1>2 DEF CoverInv, Laying
  <2> QED
    BY <1>2, <1>6, <2>1 DEF Sources
<1>9. ASSUME AllOrNone(g), ~(mine \subseteq section_generated)
      PROVE  mine \cap section_generated = {}
  <2> SUFFICES ASSUME NEW x \in mine, x \in section_generated
               PROVE  FALSE
    OBVIOUS
  <2>1. PICK h \in Finished : x \in Members(seg[h].sections)
    BY <1>2, <1>8 DEF Sources
  <2>2. PICK m \in 1..k : h = res[m]
    BY <2>1 DEF Finished
  <2>3. /\ DOMAIN res = 1..Len(res) /\ Len(res) \in Nat /\ k \in 0..Len(res)
    BY <1>1, OrderedTyped
  <2>4. m \in DOMAIN res /\ k + 1 \in DOMAIN res /\ m < k + 1
    BY <1>2, <2>3
  <2>5. res[k + 1] = g
    BY <1>3 DEF Current
  <2>6. mine \subseteq Members(seg[h].sections)
    BY <1>9, <2>1, <2>2, <2>4, <2>5 DEF AllOrNone
  <2>7. Members(seg[h].sections) \subseteq section_generated
    BY <1>2, <2>1 DEF CoverInv, Settled, Laying
  <2> QED
    BY <1>9, <2>6, <2>7
<1>10. /\ Len(seg[g].sections) \in Nat
       /\ DOMAIN seg[g].sections = 1..Len(seg[g].sections)
       /\ \A p \in 1..Len(seg[g].sections) : Listed(g, p) \in mine
       /\ \A x \in mine : /\ x \in DOMAIN sec
                          /\ \E p \in 1..Len(seg[g].sections) : x = Listed(g, p)
       /\ seg[g].sections \in Seq(DOMAIN sec)
  <2>1. seg[g].sections \in Seq(DOMAIN sec)
    BY <1>1, TypedIsTable DEF LayoutTypeOK, SegIds, Segment
  <2> QED
    BY <1>1, <2>1, ListTyped
<1>11. HasSections(g) => /\ 1 \in 1..Len(seg[g].sections)
                         /\ First(g) = Listed(g, 1) /\ First(g) \in mine
  <2>1. HasSections(g) => 1 \in 1..Len(seg[g].sections)
    BY <1>10, EmptySeq DEF HasSections
  <2> QED
    BY <1>10, <2>1 DEF First, Listed
<1>12. ~HasSections(g) => mine = {}
  BY DEF HasSections, Members
<1>13. \A x \in mine : Begin(x) \in Nat /\ sec[x].size \in Nat
  <2>1. \A x \in DOMAIN sec : sec[x].offset \in Words /\ sec[x].size \in Words
    BY <1>1, SectionsTyped DEF Section
  <2> QED
    BY <1>10, <2>1, LayoutAssumption DEF Begin, Words
<1>14. \A p \in 1..j' : FALSE
  BY <1>2
<1>15. ASSUME mine \cap section_generated = {}, mine # {}
       PROVE  Growing(g)'
  <2>1. \A p \in j' + 1..Len(seg[g].sections) :
          Listed(g, p) \notin section_generated
    BY <1>2, <1>10, <1>15
  <2>2. HasSections(g) /\ ~IsHeaderSegment(g) /\ IsFresh(g)
    BY <1>11, <1>12, <1>15 DEF IsHeaderSegment, IsFresh
  <2>3. current_file_pos' \in Nat /\ current_file_pos \in Nat
    BY <1>1, LayoutAssumption DEF LayoutInv, LayoutTypeOK, Words
  <2>4. seg_start_pos' + segment_filesize' = current_file_pos'
    BY <1>3, <2>2, <2>3 DEF StartSegment
  <2> QED
    BY <1>2, <1>14, <2>1, <2>4 DEF Growing, Listed, Span
<1>16. ASSUME mine \subseteq section_generated, InOrder(g), NobitsLast(g),
              NEW x \in mine, InFile(x)
       PROVE  seg_start_pos' <= Begin(x)
  <2>1. /\ HasSections(g) /\ ~IsHeaderSegment(g) /\ ~IsFresh(g)
    BY <1>11, <1>12, <1>16 DEF IsHeaderSegment, IsFresh
  <2>2. CASE StartsAtZero(g)
    BY <1>3, <1>13, <2>1, <2>2 DEF StartSegment
  <2>3. CASE ~StartsAtZero(g)
    <3>1. seg_start_pos' = Begin(First(g))
      BY <1>3, <2>1, <2>3 DEF StartSegment, Begin
    <3>2. PICK p \in 1..Len(seg[g].sections) : x = Listed(g, p)
      BY <1>10
    <3>3. CASE p = 1
      BY <1>11, <1>13, <2>1, <3>1, <3>2, <3>3
    <3>4. CASE p # 1
      <4>1. 1 < p /\ 1 \in DOMAIN seg[g].sections /\ p \in DOMAIN seg[g].sections
        BY <1>10, <1>11, <2>1, <3>4
      <4>2. sec[x].type # "NOBITS" /\ sec[First(g)].type # "NOBITS"
        BY <1>11, <1>16, <2>1, <3>2, <4>1 DEF NobitsLast, InFile, Listed
      <4>3. End(First(g)) <= Begin(x)
        BY <1>11, <1>16, <2>1, <3>2, <4>1, <4>2 DEF InOrder, Listed
      <4> QED
        BY <1>11, <1>13, <2>1, <3>1, <4>3 DEF End, Begin
    <3> QED
      BY <3>3, <3>4
  <2> QED
    BY <2>2, <2>3
<1>17. ASSUME mine \subseteq section_generated, NobitsLast(g)
       PROVE  Revisiting(g)'
  BY <1>2, <1>14, <1>16, <1>17 DEF Revisiting, InOrder, InFile, Begin, End
<1>18. Regular(g)' => Regular(g)
  BY <1>1, <1>5, ConditionsStay
<1>19. Regular(g) => Growing(g)' \/ Revisiting(g)'
  BY <1>9, <1>15, <1>17 DEF Regular
<1>20. Underway'
  BY <1>6, <1>14, <1>18, <1>19 DEF Underway
<1> QED
  BY <1>1, <1>2, <1>6, <1>7, <1>8, <1>20 DEF CoverInv, Ordering, Laying

LEMMA EndSegmentCovers ==
  ASSUME CoverInv, EndSegment
  PROVE  CoverInv'
<1>1. LayoutInv' /\ LayoutInv /\ LayoutTypeOK /\ LayoutTypeOK' /\ OrderInv
      /\ Finished \subseteq SegIds
  BY EndSegmentKeeps, FinishedTyped DEF CoverInv, LayoutInv
<1>2. /\ pc = "sections" /\ j = Len(seg[Current].sections)
      /\ seg' = LaidOut(Current) /\ pc' = "segments" /\ k' = k + 1
      /\ UNCHANGED <<orderVars, sec, section_generated, segmentVars, wrapped>>
      /\ k < Len(res)
  BY <1>1 DEF EndSegment, LayoutTypeOK
<1>3. PICK g \in SegIds : g = Current
  BY <1>1, <1>2, OrderedTyped
<1>4. /\ seg'[g] = [seg[g] EXCEPT !.filesz = segment_filesize,
                                   !.memsz = Larger(seg[g].memsz, segment_memory),
                                   !.offset = seg_start_pos,
                                   !.offset_set = TRUE]
      /\ \A h \in SegIds : h # g => seg'[h] = seg[h]
      /\ DOMAIN seg = SegIds /\ DOMAIN seg' = SegIds
  <2>1. DOMAIN seg = SegIds
    BY <1>1, TypedIsTable DEF LayoutTypeOK, SegIds
  <2> QED
    BY <1>2, <1>3, <2>1 DEF LaidOut
<1>5. seg[g] \in Segment(DOMAIN sec)
  BY <1>1, TypedIsTable DEF LayoutTypeOK, SegIds
<1>6. /\ seg'[g].sections = seg[g].sections
      /\ seg'[g].offset = seg_start_pos /\ seg'[g].filesz = segment_filesize
  BY <1>4, <1>5 DEF Segment
<1>7. Len(seg') = Len(seg)
  <2>1. Len(seg) \in Nat /\ Len(seg') \in Nat /\ DOMAIN seg' = 1..Len(seg')
    BY <1>1, TypedIsTable DEF LayoutTypeOK, IsTable
  <2> QED
    BY <1>4, <2>1 DEF SegIds
<1>8. Steady
  BY <1>2, <1>4, <1>6, <1>7 DEF Steady
<1>9. res' = res /\ phase' = phase /\ Finished' = Finished \cup {g}
      /\ g \notin Finished /\ phase = "ordered"
  <2>1. k \in Nat /\ k \in 0..Len(res) /\ Len(res) \in Nat
    BY <1>1, OrderedTyped
  <2>2. \A m \in 1..k + 1 : m \in 1..k \/ m = k + 1
    BY <2>1
  <2>3. \A m \in 1..k : m \in 1..Len(res) /\ m # k + 1 /\ m \in 1..k + 1
    BY <1>2, <2>1
  <2>4. k + 1 \in 1..Len(res) /\ k + 1 \in 1..k + 1
    BY <1>2, <2>1
  <2>5. g = res[k + 1]
    BY <1>3 DEF Current
  <2>6. \A m \in 1..k : res[m] # g
    BY <1>1, <2>3, <2>4, <2>5, OrderedTyped
  <2>7. res' = res /\ phase' = phase /\ phase = "ordered"
    BY <1>2 DEF orderVars, CoverInv, Ordering
  <2>8. Finished' = {res[m] : m \in 1..k + 1}
    BY <1>2, <2>7 DEF Finished
  <2> QED
    BY <2>2, <2>3, <2>4, <2>5, <2>6, <2>7, <2>8 DEF Finished
<1>10. /\ DOMAIN seg[g].sections = 1..j
       /\ \A x \in Members(seg[g].sections) : \E p \in 1..j : x = Listed(g, p)
       /\ \A p \in 1..j : Listed(g, p) \in Members(seg[g].sections)
  BY <1>1, <1>2, <1>3, ListTyped
<1>11. Members(seg[g].sections) \subseteq section_generated
  BY <1>2, <1>3, <1>10 DEF CoverInv, Underway
<1>12. ASSUME ~wrapped, NobitsLast(g), AllOrNone(g), InOrder(g)
       PROVE  Covers(g)'
  <2>1. Distinct(g)
    BY <1>12 DEF InOrder, Distinct, Listed
  <2>2. Growing(g) \/ Revisiting(g)
    BY <1>2, <1>3, <1>12, <2>1 DEF CoverInv, Underway, Regular
  <2>3. \A x \in Members(seg[g].sections) : Occupies(x) =>
          seg_start_pos <= Begin(x) /\ End(x) <= Span
    <3>1. CASE Growing(g)
      BY <1>10, <3>1 DEF Growing
    <3>2. CASE Revisiting(g)
      BY <1>10, <1>12, <3>2 DEF Revisiting, Occupies
    <3> QED
      BY <2>2, <3>1, <3>2
  <2> QED
    BY <1>2, <1>6, <2>3
       DEF Covers, Occupies, InFile, Begin, End, FileEnd, Span
<1>13. Settled(g)'
  <2>1. /\ AllOrNone(g)' => AllOrNone(g)
        /\ NobitsLast(g)' => NobitsLast(g)
        /\ InOrder(g)' => InOrder(g)
    BY <1>1, <1>8, <1>11, ConditionsStay, PlacesStay
  <2>2. Members(seg'[g].sections) \subseteq section_generated'
    BY <1>2, <1>6, <1>11
  <2> QED
    BY <1>2, <1>12, <2>1, <2>2 DEF Settled
<1>14. \A h \in Finished' : Settled(h)'
  <2> SUFFICES ASSUME NEW h \in Finished
               PROVE  Settled(h)'
    BY <1>9, <1>13
  <2>1. h \in SegIds /\ Settled(h) /\ seg'[h] = seg[h]
    BY <1>1, <1>2, <1>4, <1>9 DEF CoverInv, Laying
  <2> QED
    BY <1>1, <1>8, <2>1, SettledStays
<1>15. Sources'
  <2> SUFFICES ASSUME NEW x \in section_generated
               PROVE  \E h \in Finished' : x \in Members(seg'[h].sections)
    BY <1>2 DEF Sources
  <2>1. \A h \in SegIds : seg'[h].sections = seg[h].sections
    BY <1>8 DEF Steady
  <2>2. CASE \E h \in Finished : x \in Members(seg[h].sections)
    BY <1>1, <1>9, <2>1, <2>2
  <2>3. CASE \E p \in 1..j : x = Listed(Current, p)
    BY <1>3, <1>6, <1>9, <1>10, <2>3
  <2> QED
    BY <1>2, <2>2, <2>3 DEF CoverInv, Sources, Laying
<1> QED
  BY <1>1, <1>2, <1>9, <1>14, <1>15 DEF CoverInv, Ordering, Underway

LEMMA BeginSaveCovers ==
  ASSUME LayoutTypeOK, HeadersEnd(seg) < Word, BeginSave
  PROVE  CoverInv'
<1>1. LayoutInv'
  BY BeginSaveKeeps
<1>2. pc' = "segments" /\ k' = 0 /\ section_generated' = {}
  BY DEF BeginSave
<1>3. Finished' = {}
  BY <1>2 DEF Finished
<1> QED
  BY <1>1, <1>2, <1>3 DEF CoverInv, Ordering, Sources, Underway

(* Steps after which no layout is under way                                *)
LEMMA SetAside ==
  ASSUME LayoutInv', pc' \in {"idle", "failed"}, phase' = "ordered"
  PROVE  CoverInv'
BY DEF CoverInv, Ordering, Underway, Laying

LEMMA AbortCovers ==
  ASSUME CoverInv, Abort
  PROVE  CoverInv'
<1>1. LayoutInv' /\ pc' = "failed"
  BY AbortKeeps DEF CoverInv, Abort
<1>2. phase' = "ordered"
  BY DEF Abort, AtSection, orderVars, CoverInv, Ordering
<1> QED
  BY <1>1, <1>2, SetAside

LEMMA EditCovers ==
  ASSUME CoverInv, NEW x \in DOMAIN sec, NEW n \in Sizes, Edit(x, n)
  PROVE  CoverInv'
<1>1. LayoutInv' /\ pc' = "idle"
  BY EditKeeps DEF CoverInv, Edit
<1>2. phase' = "ordered"
  BY DEF Edit, orderVars, CoverInv, Ordering
<1> QED
  BY <1>1, <1>2, SetAside

LEMMA StutterCovers ==
  ASSUME CoverInv, UNCHANGED vars
  PROVE  CoverInv'
<1>1. LayoutInv'
  BY LayoutStepwise DEF CoverInv
<1>2. /\ UNCHANGED <<seg, sec, pc, section_generated, k, j, wrapped>>
      /\ UNCHANGED <<current_file_pos, seg_start_pos, segment_filesize>>
      /\ UNCHANGED <<res, phase>>
  BY DEF vars, layoutVars, orderVars, segmentVars
<1>3. Finished' = Finished
  BY <1>2 DEF Finished
<1>4. \A g \in Finished : Settled(g) => Settled(g)'
  BY <1>2 DEF Settled, NobitsLast, AllOrNone, InOrder, Covers, Occupies,
              InFile, Begin, End, FileEnd
<1>5. Sources => Sources'
  BY <1>2, <1>3 DEF Sources, Listed, Current
<1>6. Underway => Underway'
  <2> DEFINE c == Current
  <2>1. Current' = c
    BY <1>2 DEF Current
  <2>2. Regular(c)' <=> Regular(c)
    BY <1>2, <2>1 DEF Regular, NobitsLast, AllOrNone, Distinct, Listed, InFile
  <2>3. Growing(c)' <=> Growing(c)
    BY <1>2, <2>1 DEF Growing, Listed, Span, Occupies, InFile, Begin, End
  <2>4. Revisiting(c)' <=> Revisiting(c)
    BY <1>2, <2>1
       DEF Revisiting, Listed, Span, InOrder, Occupies, InFile, Begin, End
  <2> QED
    BY <1>2, <2>1, <2>2, <2>3, <2>4 DEF Underway, Listed
<1> QED
  BY <1>1, <1>2, <1>3, <1>4, <1>5, <1>6 DEF CoverInv, Ordering, Laying

LEMMA CoverInitially == Init => CoverInv
BY LayoutInitially DEF Init, OrderInit, CoverInv, Ordering, Underway, Laying

LEMMA CoverStepwise == CoverInv /\ [Next]_vars => CoverInv'
<1> SUFFICES ASSUME CoverInv, [Next]_vars
             PROVE  CoverInv'
  OBVIOUS
<1>1. CASE BeginSave
  BY <1>1, BeginSaveCovers DEF CoverInv, LayoutInv
<1>2. CASE OrderStep
  BY <1>2, OrderStepCovers
<1>3. CASE StartSegment
  BY <1>3, StartSegmentCovers
<1>4. CASE VisitNull
  BY <1>4, VisitNullCovers
<1>5. CASE Abort
  BY <1>5, AbortCovers
<1>6. CASE RevisitSection
  BY <1>6, RevisitSectionCovers
<1>7. CASE PlaceSection
  BY <1>7, PlaceSectionCovers
<1>8. CASE EndSegment
  BY <1>8, EndSegmentCovers
<1>9. CASE EndSegments
  BY <1>9, EndSegmentsCovers
<1>10. CASE SkipGenerated
  BY <1>10, SkipGeneratedCovers
<1>11. CASE PlaceRest
  BY <1>11, PlaceRestCovers
<1>12. CASE LayoutTable
  BY <1>12, LayoutTableCovers
<1>13. CASE \E x \in DOMAIN sec : \E n \in Sizes : Edit(x, n)
  BY <1>13, EditCovers
<1>14. CASE UNCHANGED vars
  BY <1>14, StutterCovers
<1> QED
  BY <1>1, <1>2, <1>3, <1>4, <1>5, <1>6, <1>7, <1>8, <1>9, <1>10, <1>11,
     <1>12, <1>13, <1>14 DEF Next

(* At the end every segment is laid out.                                   *)
LEMMA AllFinished ==
  ASSUME CoverInv, pc = "done"
  PROVE  /\ LayoutInv /\ LayoutTypeOK /\ Laying
         /\ \A g \in SegIds : g \in Finished
<1>1. LayoutInv /\ k = Len(res) /\ phase = "ordered"
  BY DEF CoverInv, Ordering
<1>2. Members(res) = SegIds
  BY <1>1 DEF LayoutInv, OrderInv, EachSegmentOnce
<1>3. DOMAIN res = 1..k
  BY <1>1, OrderedTyped
<1> QED
  BY <1>1, <1>2, <1>3 DEF Finished, Members, LayoutInv, Laying

LEMMA CoverSuffices == CoverInv => SegmentsCover
<1> SUFFICES ASSUME CoverInv, pc = "done", ~wrapped, NEW g \in SegIds,
                    NobitsLast(g), AllOrNone(g), InOrder(g)
             PROVE  Covers(g)
  BY DEF SegmentsCover
<1>1. g \in Finished /\ Laying
  BY AllFinished
<1> QED
  BY <1>1 DEF CoverInv, Settled

(* What each segment keeps behind it while the layout goes on              *)
THEOREM CoverInvariance == Spec => []CoverInv
BY CoverInitially, CoverStepwise, PTL DEF Spec

(* In a finished layout a segment covers all its sections that occupy the  *)
(* file, unless the segments overlap without nesting, its sections are not *)
(* listed as they lie or end in ones without file contents, or a position  *)
(* has exceeded a word.                                                    *)
THEOREM SegmentsCoverSections == Spec => []SegmentsCover
BY CoverInvariance, CoverSuffices, PTL

-----------------------------------------------------------------------------
(* The image is what the section headers say.                              *)

(* What is laid out of segment g starts at pos of the file.                *)
MapsFrom(g, pos) ==
  /\ \A x \in Members(seg[g].sections) \cap section_generated : Occupies(x) =>
       Minus(sec[x].addr, seg[g].vaddr) = Begin(x) - pos
  /\ pos # 0 /\ 2 * seg[g].align <= Word =>
       pos % Atleast1(seg[g].align) = seg[g].vaddr % Atleast1(seg[g].align)

ImageInv ==
  /\ CoverInv
  /\ Laying /\ ~wrapped =>
       \A g \in Finished : Foremost(g) => MapsFrom(g, seg[g].offset)
  /\ pc = "sections" /\ ~wrapped /\ Foremost(Current) =>
       seg_start_pos <= current_file_pos /\ MapsFrom(Current, seg_start_pos)

(* Unsigned arithmetic: the adjustment brings the position to the address. *)
LEMMA PageMatches ==
  ASSUME NEW pos \in Words, NEW vaddr \in Words, NEW align \in Words,
         2 * align <= Word
  PROVE  (pos + PageAdjustment(pos, vaddr, align)) % Atleast1(align)
           = vaddr % Atleast1(align)
<1> DEFINE a == Atleast1(align)
           v == vaddr % a
           p == pos % a
           d == IF p <= v THEN v - p ELSE a + v - p
           w == Plus(align, Minus(v, p))
<1>1. a \in Nat /\ a > 0 /\ pos \in Nat /\ vaddr \in Nat /\ Word \in Nat
      /\ align \in Nat /\ a = IF align > 0 THEN align ELSE 1
  BY LayoutAssumption DEF Words, Atleast1
<1> HIDE DEF a
<1>2. v \in 0..a - 1 /\ p \in 0..a - 1
  BY <1>1, Division
<1>3. PageAdjustment(pos, vaddr, align) = w % a
  BY DEF PageAdjustment, a
<1>4. (pos + d) % a = v
  BY <1>1, <1>2, NextCongruent
<1> HIDE DEF v, p
<1>5. w % a = d
  <2>1. CASE align = 0
    <3>1. w = 0 /\ d = 0 /\ a = 1
      BY <1>1, <1>2, <2>1, LayoutAssumption DEF Plus, Minus
    <3> HIDE DEF w, d
    <3>2. 0 = a * 0 + 0 /\ 0 \in 0..a - 1
      BY <3>1
    <3> QED
      BY <1>1, <3>1, <3>2, DivisionUnique
  <2>2. CASE align # 0 /\ p <= v
    <3>1. w = a + d /\ d \in 0..a - 1
      BY <1>1, <1>2, <2>2 DEF Plus, Minus
    <3> HIDE DEF w, d
    <3>2. w \in Nat /\ w = a * 1 + d
      BY <1>1, <3>1
    <3> QED
      BY <1>1, <3>1, <3>2, DivisionUnique
  <2>3. CASE align # 0 /\ ~(p <= v)
    <3>1. w = d /\ d \in 0..a - 1
      BY <1>1, <1>2, <2>3 DEF Plus, Minus
    <3> HIDE DEF w, d
    <3>2. w \in Nat /\ w = a * 0 + d
      BY <1>1, <3>1
    <3> QED
      BY <1>1, <3>1, <3>2, DivisionUnique
  <2> QED
    BY <2>1, <2>2, <2>3
<1> HIDE DEF d, w
<1> QED
  BY <1>3, <1>4, <1>5 DEF a, v

LEMMA AddressBack ==
  ASSUME NEW v \in Words, NEW p \in Words, NEW s \in Words, s <= p
  PROVE  Minus(Minus(Plus(v, p), s), v) = p - s
BY LayoutAssumption DEF Words, Plus, Minus

LEMMA ForemostStays ==
  ASSUME LayoutInv, Steady, NEW g \in SegIds
  PROVE  Foremost(g)' <=> Foremost(g)
<1>1. /\ DOMAIN res = 1..Len(res)
      /\ \A m \in 1..Len(res) : res[m] \in SegIds
  BY OrderedTyped
<1>2. res' = res /\ \A h \in SegIds : seg'[h].sections = seg[h].sections
  BY DEF Steady, orderVars
<1>3. \A m \in DOMAIN res : seg'[res[m]].sections = seg[res[m]].sections
  BY <1>1, <1>2
<1> QED
  BY <1>2, <1>3 DEF Foremost, HasSections

LEMMA PictureStays ==
  ASSUME LayoutInv, Steady, NEW g \in SegIds, seg'[g] = seg[g],
         Members(seg[g].sections) \subseteq section_generated,
         MapsFrom(g, seg[g].offset)
  PROVE  MapsFrom(g, seg[g].offset)'
<1>1. /\ \A x \in Members(seg[g].sections) : sec'[x] = sec[x]
      /\ Members(seg[g].sections) \subseteq section_generated'
  BY DEF Steady
<1>2. MapsFrom(g, seg[g].offset)' <=>
        /\ \A x \in Members(seg'[g].sections) \cap section_generated' :
             Occupies(x)' => Minus(sec'[x].addr, seg'[g].vaddr)
                               = sec'[x].offset - seg'[g].offset
        /\ seg'[g].offset # 0 /\ 2 * seg'[g].align <= Word =>
             seg'[g].offset % Atleast1(seg'[g].align)
               = seg'[g].vaddr % Atleast1(seg'[g].align)
  BY DEF MapsFrom, Begin
<1> QED
  BY <1>1, <1>2 DEF MapsFrom, Begin, Occupies, InFile

(* All steps but the end of a segment leave the finished segments alone.   *)
LEMMA FinishedMap ==
  ASSUME ImageInv, Laying, Steady, UNCHANGED <<seg, k>>,
         NEW g \in Finished', ~wrapped', Foremost(g)'
  PROVE  MapsFrom(g, seg[g].offset)'
<1>1. LayoutInv /\ Finished \subseteq SegIds /\ (wrapped => wrapped')
  BY FinishedTyped DEF ImageInv, CoverInv, Steady
<1>2. Finished' = Finished
  BY DEF Finished, Steady, orderVars
<1>3. g \in SegIds /\ g \in Finished /\ ~wrapped
  BY <1>1, <1>2
<1>4. Foremost(g)
  BY <1>1, <1>3, ForemostStays
<1>5. MapsFrom(g, seg[g].offset)
  BY <1>3, <1>4 DEF ImageInv
<1>6. Members(seg[g].sections) \subseteq section_generated
  BY <1>3 DEF ImageInv, CoverInv, Settled
<1> QED
  BY <1>1, <1>3, <1>5, <1>6, PictureStays

(* Steps that leave no segment under way                                   *)
LEMMA NotUnderwayMaps ==
  ASSUME ImageInv, CoverInv', Laying, Steady, UNCHANGED <<seg, k>>,
         pc' # "sections"
  PROVE  ImageInv'
BY FinishedMap DEF ImageInv

LEMMA OrderStepMaps ==
  ASSUME ImageInv, OrderStep
  PROVE  ImageInv'
<1>1. CoverInv' /\ pc = "segments" /\ OrderNext /\ UNCHANGED <<pc, k>>
  BY OrderStepCovers DEF ImageInv, OrderStep, layoutVars
<1>2. phase # "ordered"
  BY <1>1 DEF OrderNext, FrontStep, FrontDone, Take, Requeue, QueueDone
<1>3. k' = 0
  BY <1>1, <1>2 DEF ImageInv, CoverInv, Ordering
<1>4. Finished' = {}
  BY <1>3 DEF Finished
<1> QED
  BY <1>1, <1>4 DEF ImageInv

LEMMA RestMaps ==
  ASSUME ImageInv,
         EndSegments \/ SkipGenerated \/ PlaceRest \/ LayoutTable
  PROVE  ImageInv'
<1>1. CoverInv'
  BY EndSegmentsCovers, SkipGeneratedCovers, PlaceRestCovers,
     LayoutTableCovers DEF ImageInv
<1>2. Laying /\ UNCHANGED <<seg, k>> /\ pc' # "sections"
  BY DEF EndSegments, SkipGenerated, PlaceRest, LayoutTable, Laying
<1>3. Steady
  <2>1. CASE PlaceRest
    BY <2>1, PlaceRestSteady DEF ImageInv, CoverInv
  <2>2. CASE EndSegments
    BY <2>2 DEF EndSegments, Steady
  <2>3. CASE SkipGenerated
    BY <2>3 DEF SkipGenerated, Steady
  <2>4. CASE LayoutTable
    BY <2>4 DEF LayoutTable, Advance, Steady
  <2> QED
    BY <2>1, <2>2, <2>3, <2>4
<1> QED
  BY <1>1, <1>2, <1>3, NotUnderwayMaps

(* No section of a segment that shares none with an earlier one has got    *)
(* its place when the segment is reached.                                  *)
LEMMA ForemostIsFresh ==
  ASSUME CoverInv, pc = "segments", k < Len(res), NEW g \in SegIds, g = Current,
         Foremost(g)
  PROVE  /\ Members(seg[g].sections) \cap section_generated = {}
         /\ HasSections(g) /\ IsFresh(g) /\ ~IsHeaderSegment(g)
<1> DEFINE mine == Members(seg[g].sections)
<1>1. LayoutInv /\ LayoutTypeOK /\ Sources
  BY DEF CoverInv, LayoutInv, Laying
<1>2. mine \cap section_generated = {}
  <2> SUFFICES ASSUME NEW x \in mine, x \in section_generated
               PROVE  FALSE
    OBVIOUS
  <2>1. PICK h \in Finished : x \in Members(seg[h].sections)
    BY <1>1 DEF Sources
  <2>2. PICK m \in 1..k : h = res[m]
    BY <2>1 DEF Finished
  <2>3. DOMAIN res = 1..Len(res) /\ Len(res) \in Nat /\ k \in 0..Len(res)
    BY <1>1, OrderedTyped
  <2>4. m \in DOMAIN res /\ k + 1 \in DOMAIN res /\ m < k + 1
    BY <2>3
  <2>5. res[k + 1] = g
    BY DEF Current
  <2> QED
    BY <2>1, <2>2, <2>4, <2>5 DEF Foremost
<1>3. HasSections(g) /\ First(g) \in mine
  <2>1. seg[g].sections \in Seq(DOMAIN sec) /\ HasSections(g)
    BY <1>1, TypedIsTable DEF LayoutTypeOK, SegIds, Segment, Foremost
  <2>2. 1 \in DOMAIN seg[g].sections
    BY <2>1, EmptySeq, LenProperties DEF HasSections
  <2> QED
    BY <2>1, <2>2 DEF First, Members
<1> QED
  BY <1>2, <1>3 DEF IsFresh, IsHeaderSegment

LEMMA StartSegmentMaps ==
  ASSUME ImageInv, StartSegment
  PROVE  ImageInv'
<1>1. /\ CoverInv /\ CoverInv' /\ LayoutInv /\ LayoutInv' /\ LayoutTypeOK
      /\ LayoutTypeOK' /\ OrderInv /\ Finished \subseteq SegIds
  BY StartSegmentCovers, FinishedTyped DEF ImageInv, CoverInv, LayoutInv
<1>2. /\ pc = "segments" /\ phase = "ordered" /\ k < Len(res)
      /\ pc' = "sections" /\ j' = 0
      /\ UNCHANGED <<seg, orderVars, sec, section_generated, k>>
  BY DEF StartSegment
<1>3. PICK g \in SegIds : g = Current
  BY <1>1, <1>2, OrderedTyped
<1>4. wrapped => wrapped'
  <2>1. wrapped' = wrapped \/ wrapped' = (wrapped \/ current_file_pos +
           PageAdjustment(current_file_pos, seg[Current].vaddr,
                          seg[Current].align) >= Word)
    BY Zenon DEF StartSegment, Advance
  <2> QED
    BY <2>1, Zenon
<1>5. Steady /\ Laying
  BY <1>2, <1>4 DEF Steady, Laying
<1>6. ASSUME ~wrapped', NEW h \in Finished', Foremost(h)'
      PROVE  MapsFrom(h, seg[h].offset)'
  BY <1>2, <1>5, <1>6, FinishedMap
<1>7. g = Current'
  BY <1>2, <1>3 DEF Current, orderVars
<1>8. ASSUME ~wrapped', Foremost(g)'
      PROVE  seg_start_pos' <= current_file_pos' /\ MapsFrom(g, seg_start_pos)'
  <2>1. Foremost(g)
    BY <1>1, <1>5, <1>8, ForemostStays
  <2>2. /\ Members(seg[g].sections) \cap section_generated = {}
        /\ IsFresh(g) /\ ~IsHeaderSegment(g)
    BY <1>1, <1>2, <1>3, <2>1, ForemostIsFresh
  <2>3. /\ seg[g].vaddr \in Words /\ seg[g].align \in Words
        /\ current_file_pos \in Words /\ current_file_pos' \in Words
    BY <1>1, TypedIsTable DEF LayoutTypeOK, SegIds, Segment
  <2> DEFINE n == PageAdjustment(current_file_pos, seg[g].vaddr, seg[g].align)
  <2>4. CASE StartsAtZero(g)
    <3>1. seg_start_pos' = 0
      BY <1>3, <2>2, <2>4 DEF StartSegment
    <3> QED
      BY <1>2, <2>2, <2>3, <3>1, LayoutAssumption DEF MapsFrom, Words
  <2>5. CASE ~StartsAtZero(g)
    <3>1. /\ seg_start_pos' = current_file_pos'
          /\ current_file_pos' = Plus(current_file_pos, n)
          /\ wrapped' = (wrapped \/ current_file_pos + n >= Word)
      BY <1>3, <2>2, <2>5 DEF StartSegment, Advance
    <3>2. n \in Words
      BY <2>3, PageAdjustments
    <3>3. 2 * seg[g].align <= Word =>
            (current_file_pos + n) % Atleast1(seg[g].align)
              = seg[g].vaddr % Atleast1(seg[g].align)
      BY <2>3, PageMatches
    <3> HIDE DEF n
    <3>4. ~(current_file_pos + n >= Word)
      BY <1>8, <3>1, Zenon
    <3>5. current_file_pos \in Nat /\ n \in Nat /\ Word \in Nat
      BY <2>3, <3>2, LayoutAssumption DEF Words
    <3>6. current_file_pos + n < Word
      BY <3>4, <3>5
    <3>7. current_file_pos' = current_file_pos + n
      BY <2>3, <3>1, <3>2, <3>6, PlusMinus
    <3>8. seg_start_pos' <= current_file_pos'
      BY <3>1, <3>5, <3>7
    <3>9. 2 * seg[g].align <= Word =>
            seg_start_pos' % Atleast1(seg[g].align)
              = seg[g].vaddr % Atleast1(seg[g].align)
      BY <3>1, <3>3, <3>7
    <3> QED
      BY <1>2, <2>2, <3>8, <3>9 DEF MapsFrom
  <2> QED
    BY <2>4, <2>5
<1> QED
  BY <1>1, <1>2, <1>6, <1>7, <1>8 DEF ImageInv

(* Steps that visit one section of the current segment                     *)
LEMMA VisitedMaps ==
  ASSUME ImageInv, CoverInv', Steady, AtSection, UNCHANGED <<seg, k, pc>>,
         NEW g \in SegIds, g = Current,
         ~wrapped' /\ Foremost(g) =>
           seg_start_pos' <= current_file_pos' /\ MapsFrom(g, seg_start_pos)'
  PROVE  ImageInv'
<1>1. LayoutInv /\ Laying /\ g = Current'
  BY DEF ImageInv, CoverInv, AtSection, Laying, Current, Steady, orderVars
<1>2. Foremost(g)' <=> Foremost(g)
  BY <1>1, ForemostStays
<1> QED
  BY <1>1, <1>2, FinishedMap DEF ImageInv

(* A section that occupies nothing or has its place moves nothing.         *)
LEMMA IdleVisitMaps ==
  ASSUME ImageInv, VisitNull \/ RevisitSection
  PROVE  ImageInv'
<1>1. CoverInv' /\ LayoutTypeOK /\ OrderInv
  BY VisitNullCovers, RevisitSectionCovers DEF ImageInv, CoverInv, LayoutInv
<1>2. /\ AtSection /\ pc = "sections"
      /\ UNCHANGED <<seg, orderVars, sec, pc, current_file_pos, k,
                     seg_start_pos, wrapped>>
  BY DEF VisitNull, RevisitSection, AtSection, segmentVars
<1>3. /\ section_generated' \subseteq section_generated \cup {Visited}
      /\ section_generated \subseteq section_generated'
      /\ Visited \in section_generated \/ ~Occupies(Visited)
  BY DEF VisitNull, RevisitSection, Occupies, InFile
<1>4. Steady
  BY <1>2, <1>3 DEF Steady
<1>5. PICK g \in SegIds : g = Current
  BY <1>1, <1>2, VisitedTyped DEF SegIds
<1>6. MapsFrom(g, seg_start_pos) => MapsFrom(g, seg_start_pos)'
  BY <1>2, <1>3 DEF MapsFrom, Occupies, InFile, Begin
<1>7. ~wrapped' /\ Foremost(g) =>
        seg_start_pos' <= current_file_pos' /\ MapsFrom(g, seg_start_pos)'
  BY <1>2, <1>5, <1>6 DEF ImageInv
<1> QED
  BY <1>1, <1>2, <1>4, <1>5, <1>7, VisitedMaps

(* Where a section is placed is where its address is in memory.            *)
LEMMA PlacedMatches ==
  ASSUME LayoutInv, PlaceSection, NEW x, x = Visited, InFile(x),
         sec[x].size # 0, ~wrapped', seg_start_pos <= current_file_pos
  PROVE  Minus(sec'[x].addr, seg[Current].vaddr) = sec'[x].offset - seg_start_pos
<1>1. /\ LayoutTypeOK /\ OrderInv /\ AtSection /\ x \notin section_generated
      /\ ~TooLate(x) /\ sec' = PlacedSection(x)
      /\ wrapped' = (wrapped \/ current_file_pos + Gap(x) >= Word
                             \/ Position(x) + InFileSize(x) >= Word)
  BY DEF LayoutInv, PlaceSection
<1>2. /\ x \in DOMAIN sec /\ sec[x] \in Section
      /\ sec \in [DOMAIN sec -> Section] /\ x # 0
      /\ seg[Current] \in Segment(DOMAIN sec)
  <2>1. x # 0
    BY <1>1, SectionsTyped DEF InFile
  <2> QED
    BY <1>1, <2>1, VisitedTyped, SectionsTyped
<1> DEFINE c == current_file_pos
           s == seg_start_pos
           v == seg[Current].vaddr
           a == PlacedAddress(x)
           o == PlacedOffset(x)
           w == Gap(x)
<1>3. /\ c \in Words /\ s \in Words /\ v \in Words /\ w \in Words
      /\ sec[x].addr \in Words /\ Position(x) \in Words /\ s <= c
  BY <1>1, <1>2, VisitTyped DEF LayoutTypeOK, Section, Segment
<1>4. sec'[x].addr = a /\ sec'[x].offset = o
  <2> DEFINE row == [sec[x] EXCEPT !.offset = o, !.addr = a, !.addr_set = TRUE]
  <2>1. sec' = [sec EXCEPT ![x] = row]
    BY <1>1 DEF PlacedSection
  <2> HIDE DEF o, a
  <2>2. row.addr = a /\ row.offset = o
    BY <1>2 DEF Section
  <2> HIDE DEF row
  <2> QED
    BY <1>2, <2>1, <2>2
<1>5. /\ c \in Nat /\ s \in Nat /\ v \in Nat /\ w \in Nat /\ Word \in Nat
      /\ c < Word /\ s < Word /\ v < Word /\ sec[x].addr \in Nat
      /\ sec[x].addr < Word
  BY <1>3, LayoutAssumption DEF Words
<1>6. c + w < Word
  <2>1. ~(c + w >= Word)
    BY <1>1, Zenon
  <2> HIDE DEF c, w
  <2> QED
    BY <1>5, <2>1
<1>7. o = Position(x) /\ Position(x) = c + w
  <2>1. Position(x) = c + w
    BY <1>3, <1>6, PlusMinus DEF Position
  <2> QED
    BY <1>2, <2>1 DEF PlacedOffset
<1>8. CASE sec[x].addr_set
  <2>1. PlacedByAddress(x) /\ a = sec[x].addr
    BY <1>1, <1>8 DEF PlacedByAddress, Occupies, PlacedAddress
  <2>2. ~(Minus(a, v) < Minus(c, s)) /\ w = Minus(Minus(a, v), Minus(c, s))
    BY <1>1, <2>1 DEF TooLate, Gap, Required, Reached
  <2>3. a \in Nat /\ a < Word
    BY <1>5, <2>1
  <2> HIDE DEF a, v, c, s, w
  <2>4. /\ Minus(c, s) = c - s /\ c - s \in Nat
        /\ Minus(a, v) \in Nat /\ Minus(a, v) < Word
    BY <1>3, <1>5, <2>3 DEF Minus
  <2>5. w = Minus(a, v) - (c - s)
    <3> DEFINE r == Minus(a, v)
               d == c - s
    <3>1. r \in Nat /\ d \in Nat /\ ~(r < d) /\ w = Minus(r, d)
      BY <2>2, <2>4
    <3> HIDE DEF r, d
    <3>2. w = r - d
      BY <3>1 DEF Minus
    <3> QED
      BY <3>2 DEF r, d
  <2>6. Minus(a, v) = (c + w) - s
    BY <1>5, <2>4, <2>5
  <2>7. sec'[x].offset = c + w
    BY <1>4, <1>7
  <2>8. Minus(sec'[x].addr, v) = (c + w) - s
    BY <1>4, <2>6, Zenon
  <2>9. Minus(sec'[x].addr, v) = sec'[x].offset - s
    BY <2>7, <2>8, Zenon
  <2> QED
    BY <2>9 DEF v, s
<1>9. CASE ~sec[x].addr_set
  <2>1. a = Minus(Plus(v, Position(x)), s)
    BY <1>9 DEF PlacedAddress
  <2> HIDE DEF a, v, c, s, w
  <2>2. s <= Position(x)
    BY <1>3, <1>5, <1>7
  <2>3. Minus(a, v) = Position(x) - s
    BY <1>3, <2>1, <2>2, AddressBack
  <2> QED
    BY <1>4, <1>7, <2>3 DEF v, s
<1> QED
  BY <1>8, <1>9

(* Whatever a section's padding and size, the position does not move back. *)
LEMMA PlacingMovesOn ==
  ASSUME LayoutInv, PlaceSection
  PROVE  ~wrapped' => current_file_pos <= current_file_pos'
<1> SUFFICES ASSUME ~wrapped'
             PROVE  current_file_pos <= current_file_pos'
  OBVIOUS
<1> DEFINE x == Visited
           c == current_file_pos
           w == Gap(x)
           pos == Position(x)
           n == InFileSize(x)
<1>1. /\ LayoutTypeOK /\ OrderInv /\ AtSection
      /\ current_file_pos' = Plus(pos, n) /\ pos = Plus(c, w)
      /\ wrapped' = (wrapped \/ c + w >= Word \/ pos + n >= Word)
  BY DEF LayoutInv, PlaceSection, Position
<1>2. /\ c \in Words /\ w \in Words /\ pos \in Words /\ n \in Words
      /\ sec[x].size \in Words
  BY <1>1, VisitTyped, VisitedTyped, LayoutAssumption
     DEF LayoutTypeOK, Section, InFileSize, Words
<1>3. ~(c + w >= Word) /\ ~(pos + n >= Word)
  BY <1>1, Zenon
<1> HIDE DEF c, w, pos, n
<1>4. /\ c \in Nat /\ w \in Nat /\ pos \in Nat /\ n \in Nat /\ Word \in Nat
  BY <1>2, LayoutAssumption DEF Words
<1>5. pos = c + w /\ current_file_pos' = pos + n
  BY <1>1, <1>3, <1>4 DEF Plus
<1> QED
  BY <1>4, <1>5 DEF c

LEMMA PlaceSectionMaps ==
  ASSUME ImageInv, PlaceSection
  PROVE  ImageInv'
<1> DEFINE x == Visited
<1>1. /\ CoverInv' /\ LayoutInv /\ LayoutInv' /\ LayoutTypeOK
      /\ LayoutTypeOK' /\ OrderInv
  BY PlaceSectionCovers DEF ImageInv, CoverInv, LayoutInv
<1>2. /\ AtSection /\ pc = "sections" /\ x \notin section_generated
      /\ section_generated' = section_generated \cup {x}
      /\ UNCHANGED <<seg, orderVars, pc, k, seg_start_pos>>
      /\ current_file_pos' = Plus(Position(x), InFileSize(x))
      /\ wrapped' = (wrapped \/ current_file_pos + Gap(x) >= Word
                             \/ Position(x) + InFileSize(x) >= Word)
  BY DEF PlaceSection, AtSection
<1>3. /\ x \in DOMAIN sec /\ DOMAIN sec' = DOMAIN sec
      /\ \A y \in DOMAIN sec : /\ y # x => sec'[y] = sec[y]
                               /\ sec'[y].type = sec[y].type
      /\ sec'[x].size = sec[x].size
      /\ wrapped => wrapped'
  BY <1>1, PlacedOnce
<1>4. section_generated \subseteq DOMAIN sec
  BY <1>1 DEF LayoutTypeOK
<1>5. Steady
  BY <1>2, <1>3, <1>4 DEF Steady
<1>6. PICK g \in SegIds : g = Current
  BY <1>1, <1>2, VisitedTyped DEF SegIds
<1>7. ~wrapped' => current_file_pos <= current_file_pos'
  BY <1>1, <1>2, PlacingMovesOn
<1>8. ASSUME ~wrapped', Foremost(g)
      PROVE  seg_start_pos' <= current_file_pos' /\ MapsFrom(g, seg_start_pos)'
  <2>1. seg_start_pos <= current_file_pos /\ MapsFrom(g, seg_start_pos)
    BY <1>2, <1>3, <1>6, <1>8 DEF ImageInv
  <2>2. seg_start_pos' <= current_file_pos'
    <3>1. /\ seg_start_pos \in Nat /\ current_file_pos \in Nat
          /\ current_file_pos' \in Nat
      BY <1>1, LayoutAssumption DEF LayoutTypeOK, Words
    <3> QED
      BY <1>2, <1>7, <1>8, <2>1, <3>1
  <2> HIDE DEF x
  <2>3. \A y \in section_generated : y # x /\ sec'[y] = sec[y]
    BY <1>2, <1>3, <1>4
  <2>4. ASSUME NEW y \in Members(seg[g].sections) \cap section_generated',
               sec'[y].type \notin {"NOBITS", "NULL"}, sec'[y].size # 0
        PROVE  Minus(sec'[y].addr, seg[g].vaddr) = sec'[y].offset - seg_start_pos
    <3>1. CASE y \in section_generated
      BY <2>1, <2>3, <2>4, <3>1 DEF MapsFrom, Occupies, InFile, Begin
    <3>2. CASE y = x
      <4>1. InFile(x) /\ sec[x].size # 0
        BY <1>3, <2>4, <3>2 DEF InFile
      <4> QED
        BY <1>1, <1>6, <1>8, <2>1, <3>2, <4>1, PlacedMatches DEF x
    <3> QED
      BY <1>2, <2>4, <3>1, <3>2
  <2>5. MapsFrom(g, seg_start_pos)'
    BY <1>2, <2>1, <2>4 DEF MapsFrom, Occupies, InFile, Begin
  <2> QED
    BY <2>2, <2>5
<1> QED
  BY <1>1, <1>2, <1>5, <1>6, <1>8, VisitedMaps

LEMMA EndSegmentMaps ==
  ASSUME ImageInv, EndSegment
  PROVE  ImageInv'
<1>1. /\ CoverInv' /\ LayoutInv /\ LayoutTypeOK /\ LayoutTypeOK' /\ OrderInv
      /\ Finished \subseteq SegIds
  BY EndSegmentCovers, FinishedTyped DEF ImageInv, CoverInv, LayoutInv
<1>2. /\ pc = "sections" /\ pc' = "segments" /\ k' = k + 1 /\ k < Len(res)
      /\ seg' = LaidOut(Current) /\ k \in Nat
      /\ UNCHANGED <<orderVars, sec, section_generated, segmentVars, wrapped>>
  BY <1>1, OrderedTyped DEF EndSegment, LayoutTypeOK
<1>3. PICK g \in SegIds : g = Current
  BY <1>1, <1>2, OrderedTyped
<1>4. /\ DOMAIN seg = SegIds /\ Len(seg) \in Nat /\ Len(seg') \in Nat
      /\ DOMAIN seg' = 1..Len(seg') /\ SegIds = 1..Len(seg)
      /\ seg[g] \in Segment(DOMAIN sec)
  BY <1>1, TypedIsTable DEF LayoutTypeOK, IsTable, SegIds
<1>5. /\ seg'[g] = [seg[g] EXCEPT !.filesz = segment_filesize,
                                  !.memsz = Larger(seg[g].memsz, segment_memory),
                                  !.offset = seg_start_pos,
                                  !.offset_set = TRUE]
      /\ \A h \in SegIds : h # g => seg'[h] = seg[h]
      /\ DOMAIN seg' = SegIds
  BY <1>2, <1>3, <1>4 DEF LaidOut
<1>6. /\ seg'[g].sections = seg[g].sections /\ seg'[g].offset = seg_start_pos
      /\ seg'[g].vaddr = seg[g].vaddr /\ seg'[g].align = seg[g].align
  BY <1>4, <1>5 DEF Segment
<1>7. Steady
  <2>1. Len(seg') = Len(seg)
    <3>1. /\ DOMAIN seg = SegIds /\ DOMAIN seg' = SegIds
          /\ DOMAIN seg' = 1..Len(seg')
          /\ Len(seg) \in Nat /\ Len(seg') \in Nat
      BY <1>4, <1>5
    <3> QED
      BY <3>1 DEF SegIds
  <2> QED
    BY <1>2, <1>5, <1>6, <2>1 DEF Steady
<1>8. \A h \in Finished' : h \in Finished \/ h = g
  <2>1. \A m \in 1..k' : m \in 1..k \/ m = k + 1
    BY <1>2
  <2> QED
    BY <1>2, <1>3, <2>1 DEF Finished, Current, orderVars
<1>9. ASSUME NEW h \in Finished', Foremost(h)', ~wrapped'
      PROVE  MapsFrom(h, seg[h].offset)'
  <2>1. h \in SegIds /\ Foremost(h) /\ ~wrapped
    BY <1>1, <1>2, <1>7, <1>8, <1>9, ForemostStays
  <2>2. CASE h = g
    <3>1. MapsFrom(g, seg_start_pos)
      BY <1>2, <1>3, <2>1, <2>2 DEF ImageInv
    <3> QED
      BY <1>2, <1>6, <2>2, <3>1 DEF MapsFrom, Occupies, InFile, Begin
  <2>3. CASE h # g
    <3>1. h \in Finished /\ seg'[h] = seg[h]
      BY <1>5, <1>8, <1>9, <2>1, <2>3
    <3>2. MapsFrom(h, seg[h].offset)
      BY <1>2, <2>1, <3>1 DEF ImageInv, Laying
    <3>3. Members(seg[h].sections) \subseteq section_generated
      BY <1>2, <3>1 DEF ImageInv, CoverInv, Settled, Laying
    <3> QED
      BY <1>1, <1>7, <2>1, <3>1, <3>2, <3>3, PictureStays
  <2> QED
    BY <2>2, <2>3
<1> QED
  BY <1>1, <1>2, <1>9 DEF ImageInv

LEMMA BeginSaveMaps ==
  ASSUME LayoutTypeOK, HeadersEnd(seg) < Word, BeginSave
  PROVE  ImageInv'
<1>1. CoverInv' /\ pc' = "segments" /\ k' = 0
  BY BeginSaveCovers DEF BeginSave
<1>2. Finished' = {}
  BY <1>1 DEF Finished
<1> QED
  BY <1>1, <1>2 DEF ImageInv

LEMMA StutterMaps ==
  ASSUME ImageInv, UNCHANGED vars
  PROVE  ImageInv'
<1>1. CoverInv'
  BY StutterCovers DEF ImageInv
<1>2. /\ UNCHANGED <<seg, sec, pc, section_generated, k, wrapped>>
      /\ UNCHANGED <<current_file_pos, seg_start_pos, res>>
  BY DEF vars, layoutVars, orderVars, segmentVars
<1>3. Finished' = Finished /\ Current' = Current
  BY <1>2 DEF Finished, Current
<1>4. \A g : Foremost(g)' <=> Foremost(g)
  BY <1>2 DEF Foremost, HasSections
<1>5. \A g, p : MapsFrom(g, p) => MapsFrom(g, p)'
  BY <1>2 DEF MapsFrom, Occupies, InFile, Begin
<1> QED
  BY <1>1, <1>2, <1>3, <1>4, <1>5 DEF ImageInv, Laying

LEMMA ImageInitially == Init => ImageInv
BY CoverInitially DEF Init, ImageInv, Laying

LEMMA ImageStepwise == ImageInv /\ [Next]_vars => ImageInv'
<1> SUFFICES ASSUME ImageInv, [Next]_vars
             PROVE  ImageInv'
  OBVIOUS
<1>1. CASE BeginSave
  BY <1>1, BeginSaveMaps DEF ImageInv, CoverInv, LayoutInv
<1>2. CASE OrderStep
  BY <1>2, OrderStepMaps
<1>3. CASE StartSegment
  BY <1>3, StartSegmentMaps
<1>4. CASE VisitNull \/ RevisitSection
  BY <1>4, IdleVisitMaps
<1>5. CASE Abort
  <2>1. CoverInv' /\ pc' = "failed"
    BY <1>5, AbortCovers DEF ImageInv, Abort
  <2> QED
    BY <2>1 DEF ImageInv, Laying
<1>6. CASE PlaceSection
  BY <1>6, PlaceSectionMaps
<1>7. CASE EndSegment
  BY <1>7, EndSegmentMaps
<1>8. CASE EndSegments \/ SkipGenerated \/ PlaceRest \/ LayoutTable
  BY <1>8, RestMaps
<1>9. ASSUME NEW x \in DOMAIN sec, NEW n \in Sizes, Edit(x, n)
      PROVE  ImageInv'
  <2>1. CoverInv' /\ pc' = "idle"
    BY <1>9, EditCovers DEF ImageInv, Edit
  <2> QED
    BY <2>1 DEF ImageInv, Laying
<1>10. CASE UNCHANGED vars
  BY <1>10, StutterMaps
<1> QED
  BY <1>1, <1>2, <1>3, <1>4, <1>5, <1>6, <1>7, <1>8, <1>9, <1>10 DEF Next

LEMMA ImageSuffices == ImageInv => ImageMatches
<1> SUFFICES ASSUME ImageInv, pc = "done", ~wrapped, NEW g \in SegIds,
                    Foremost(g)
             PROVE  /\ \A x \in Members(seg[g].sections) : Occupies(x) =>
                         Minus(sec[x].addr, seg[g].vaddr)
                           = Begin(x) - seg[g].offset
                    /\ seg[g].offset # 0 /\ 2 * seg[g].align <= Word =>
                         seg[g].offset % Atleast1(seg[g].align)
                           = seg[g].vaddr % Atleast1(seg[g].align)
  BY DEF ImageMatches
<1>1. g \in Finished /\ Laying
  BY AllFinished DEF ImageInv
<1>2. Members(seg[g].sections) \subseteq section_generated
  BY <1>1 DEF ImageInv, CoverInv, Settled
<1>3. MapsFrom(g, seg[g].offset)
  BY <1>1 DEF ImageInv
<1> QED
  BY <1>2, <1>3 DEF MapsFrom

(* What each segment maps while the layout goes on                         *)
THEOREM ImageInvariance == Spec => []ImageInv
BY ImageInitially, ImageStepwise, PTL DEF Spec

(* In a finished layout a segment that no earlier one shares sections with *)
(* maps each of them to its address, from an offset congruent to its own   *)
(* address, unless its alignment exceeds half the words or a position has  *)
(* exceeded a word.                                                        *)
THEOREM ImageIsMapped == Spec => []ImageMatches
BY ImageInvariance, ImageSuffices, PTL

-----------------------------------------------------------------------------
(* No section of another segment lies over the start of a segment.         *)

(* A segment without sections has no file contents, unless it is the       *)
(* header table.                                                           *)
BareIsEmpty(g, size) == ~HasSections(g) /\ seg[g].type # "PHDR" => size = 0

Strangers(g) == Placed \ Members(seg[g].sections)

(* What is known of a segment that is laid out: the position is behind it, *)
(* and what lies elsewhere ends before it starts, or begins later.         *)
KeptClear(g) ==
  /\ Foremost(g) =>
       /\ FileEnd(g) <= current_file_pos
       /\ seg[g].offset # 0 /\ seg[g].filesz > 0 =>
            \A x \in Strangers(g) :
              End(x) <= seg[g].offset \/ seg[g].offset < Begin(x)
  /\ BareIsEmpty(g, seg[g].filesz)

(* And of the current one, which is being laid out behind all the others   *)
BeingClear(g) ==
  /\ Foremost(g) =>
       /\ Span <= current_file_pos
       /\ seg_start_pos # 0 => \A x \in Strangers(g) : End(x) <= seg_start_pos
       /\ \A x \in Members(seg[g].sections) \cap section_generated :
            InFile(x) => seg_start_pos <= Begin(x) /\ End(x) <= current_file_pos
  /\ BareIsEmpty(g, segment_filesize)

ClearInv ==
  /\ ImageInv
  /\ Laying /\ ~wrapped => \A g \in Finished : KeptClear(g)
  /\ pc = "sections" /\ ~wrapped => BeingClear(Current)

LEMMA WordsAreNats ==
  ASSUME LayoutInv
  PROVE  /\ current_file_pos \in Nat /\ seg_start_pos \in Nat
         /\ segment_filesize \in Nat
         /\ \A x \in DOMAIN sec : /\ sec[x].offset \in Nat /\ sec[x].size \in Nat
                                  /\ sec[x].addr \in Nat
         /\ \A g \in SegIds : /\ seg[g].offset \in Nat /\ seg[g].filesz \in Nat
                              /\ seg[g].vaddr \in Nat /\ seg[g].memsz \in Nat
<1>1. LayoutTypeOK
  BY DEF LayoutInv
<1>2. \A x \in DOMAIN sec : sec[x] \in Section
  BY <1>1, SectionsTyped
<1>3. \A g \in SegIds : seg[g] \in Segment(DOMAIN sec)
  BY <1>1, TypedIsTable DEF LayoutTypeOK, SegIds
<1>4. \A w \in Words : w \in Nat
  BY LayoutAssumption DEF Words
<1>5. /\ current_file_pos \in Words /\ seg_start_pos \in Words
      /\ segment_filesize \in Words
  BY <1>1 DEF LayoutTypeOK
<1>6. \A x \in DOMAIN sec : /\ sec[x].offset \in Words /\ sec[x].size \in Words
                            /\ sec[x].addr \in Words
  BY <1>2 DEF Section
<1>7. \A g \in SegIds : /\ seg[g].offset \in Words /\ seg[g].filesz \in Words
                        /\ seg[g].vaddr \in Words /\ seg[g].memsz \in Words
  BY <1>3 DEF Segment
<1> QED
  BY <1>4, <1>5, <1>6, <1>7

LEMMA RowsTypedNext ==
  ASSUME LayoutTypeOK'
  PROVE  \A x \in DOMAIN sec' : sec'[x] \in Section
<1> DEFINE n == Cardinality(DOMAIN sec') - 1
<1>1. sec' \in [0..n -> Section]
  BY DEF LayoutTypeOK, IsSections
<1> HIDE DEF n
<1> QED
  BY <1>1

(* A step that places sections only from the position on, and moves it on, *)
(* leaves a segment that is laid out clear.                                *)
LEMMA StaysClear ==
  ASSUME LayoutInv, LayoutInv', Steady, ~wrapped',
         current_file_pos <= current_file_pos',
         \A x \in Placed' : \/ x \in Placed /\ sec'[x] = sec[x]
                            \/ current_file_pos <= sec'[x].offset,
         NEW g \in SegIds, seg'[g] = seg[g], KeptClear(g)
  PROVE  KeptClear(g)'
<1>1. Foremost(g)' <=> Foremost(g)
  BY ForemostStays
<1>2. BareIsEmpty(g, seg[g].filesz)'
  BY DEF KeptClear, BareIsEmpty, HasSections
<1>3. ASSUME Foremost(g)
      PROVE  /\ FileEnd(g)' <= current_file_pos'
             /\ seg[g].offset # 0 /\ seg[g].filesz > 0 =>
                  \A x \in Strangers(g)' :
                    \/ sec'[x].offset + sec'[x].size <= seg[g].offset
                    \/ seg[g].offset < sec'[x].offset
  <2>1. /\ FileEnd(g) <= current_file_pos /\ FileEnd(g)' = FileEnd(g)
        /\ FileEnd(g) = seg[g].offset + seg[g].filesz
    BY <1>3 DEF KeptClear, FileEnd
  <2>2. /\ current_file_pos \in Nat /\ current_file_pos' \in Nat
        /\ seg[g].offset \in Nat /\ seg[g].filesz \in Nat
    <3>1. current_file_pos' \in Words
      BY DEF LayoutInv, LayoutTypeOK
    <3> QED
      BY <3>1, WordsAreNats, LayoutAssumption DEF Words
  <2>3. FileEnd(g)' <= current_file_pos'
    BY <2>1, <2>2
  <2>4. ASSUME seg[g].offset # 0, seg[g].filesz > 0, NEW x \in Strangers(g)'
        PROVE  \/ sec'[x].offset + sec'[x].size <= seg[g].offset
               \/ seg[g].offset < sec'[x].offset
    <3>1. x \in Placed' /\ x \notin Members(seg[g].sections)
      BY <2>4 DEF Strangers
    <3>2. CASE x \in Placed /\ sec'[x] = sec[x]
      BY <1>3, <2>4, <3>1, <3>2 DEF KeptClear, Strangers, Begin, End
    <3>3. CASE current_file_pos <= sec'[x].offset
      <4>1. sec'[x].offset \in Int
        BY <3>1, PlacedTypedNext DEF PlacedExtents, LayoutInv
      <4> QED
        BY <2>1, <2>2, <2>4, <3>3, <4>1
    <3> QED
      BY <3>1, <3>2, <3>3
  <2> QED
    BY <2>3, <2>4
<1>4. KeptClear(g)' <=>
        /\ Foremost(g)' =>
             /\ FileEnd(g)' <= current_file_pos'
             /\ seg'[g].offset # 0 /\ seg'[g].filesz > 0 =>
                  \A x \in Strangers(g)' :
                    \/ sec'[x].offset + sec'[x].size <= seg'[g].offset
                    \/ seg'[g].offset < sec'[x].offset
        /\ BareIsEmpty(g, seg[g].filesz)'
  BY DEF KeptClear, Begin, End
<1> QED
  BY <1>1, <1>2, <1>3, <1>4

(* The section header table lies behind the position.                      *)
LEMMA TableMovesOn ==
  ASSUME LayoutInv, LayoutTable
  PROVE  ~wrapped' => current_file_pos <= current_file_pos'
<1> SUFFICES ASSUME ~wrapped'
             PROVE  current_file_pos <= current_file_pos'
  OBVIOUS
<1> DEFINE c == current_file_pos
           r == c % TableAlign
           unit == TableAlign - r
<1>1. /\ current_file_pos' = Plus(c, unit)
      /\ wrapped' = (wrapped \/ c + unit >= Word)
  BY DEF LayoutTable, Advance
<1>2. c \in Nat /\ TableAlign \in Nat /\ TableAlign > 0 /\ Word \in Nat
  BY WordsAreNats, LayoutAssumption
<1>3. ~(c + unit >= Word)
  BY <1>1, Zenon
<1>4. r \in Nat /\ r < TableAlign
  BY <1>2
<1> HIDE DEF c, r
<1>5. unit \in Nat
  BY <1>2, <1>4
<1> HIDE DEF unit
<1>6. current_file_pos' = c + unit
  BY <1>1, <1>2, <1>3, <1>5 DEF Plus
<1> QED
  BY <1>2, <1>5, <1>6 DEF c

(* All steps but the end of a segment leave the finished segments clear.   *)
LEMMA FinishedClear ==
  ASSUME ClearInv, ImageInv', Laying, Steady, UNCHANGED <<seg, k>>,
         ~wrapped' =>
           /\ current_file_pos <= current_file_pos'
           /\ \A x \in Placed' : \/ x \in Placed /\ sec'[x] = sec[x]
                                 \/ current_file_pos <= sec'[x].offset,
         NEW g \in Finished', ~wrapped'
  PROVE  KeptClear(g)'
<1>1. /\ LayoutInv /\ LayoutInv' /\ Finished \subseteq SegIds
      /\ wrapped => wrapped'
  BY FinishedTyped DEF ClearInv, ImageInv, CoverInv, Steady
<1>2. Finished' = Finished
  BY DEF Finished, Steady, orderVars
<1>3. g \in SegIds /\ KeptClear(g)
  BY <1>1, <1>2 DEF ClearInv
<1> QED
  BY <1>1, <1>3, StaysClear

LEMMA OrderStepClear ==
  ASSUME ClearInv, OrderStep
  PROVE  ClearInv'
<1>1. ImageInv' /\ pc = "segments" /\ OrderNext /\ UNCHANGED <<pc, k>>
  BY OrderStepMaps DEF ClearInv, OrderStep, layoutVars
<1>2. phase # "ordered"
  BY <1>1 DEF OrderNext, FrontStep, FrontDone, Take, Requeue, QueueDone
<1>3. k' = 0
  BY <1>1, <1>2 DEF ClearInv, ImageInv, CoverInv, Ordering
<1>4. Finished' = {}
  BY <1>3 DEF Finished
<1> QED
  BY <1>1, <1>4 DEF ClearInv

LEMMA BeginSaveClear ==
  ASSUME LayoutTypeOK, HeadersEnd(seg) < Word, BeginSave
  PROVE  ClearInv'
<1>1. ImageInv' /\ pc' = "segments" /\ k' = 0
  BY BeginSaveMaps DEF BeginSave
<1>2. Finished' = {}
  BY <1>1 DEF Finished
<1> QED
  BY <1>1, <1>2 DEF ClearInv

(* What the last part of the layout does to the positions                  *)
LEMMA RestMovesOn ==
  ASSUME LayoutInv, PlaceRest
  PROVE  ~wrapped' =>
           /\ current_file_pos <= current_file_pos'
           /\ \A x \in Placed' : \/ x \in Placed /\ sec'[x] = sec[x]
                                 \/ current_file_pos <= sec'[x].offset
<1> SUFFICES ASSUME ~wrapped'
             PROVE  /\ current_file_pos <= current_file_pos'
                    /\ \A x \in Placed' : \/ x \in Placed /\ sec'[x] = sec[x]
                                          \/ current_file_pos <= sec'[x].offset
  OBVIOUS
<1> DEFINE c == current_file_pos
           pad == PadTo(current_file_pos, sec[j].align)
           pos == Plus(c, pad)
           n == InFileSize(j)
<1>1. /\ LayoutTypeOK /\ pc = "rest" /\ pc' = "rest" /\ j \in Nat
      /\ j \in DOMAIN sec /\ j' = j + 1
      /\ section_generated' = section_generated
      /\ sec' = IF j = 0 THEN sec ELSE [sec EXCEPT ![j].offset = pos]
      /\ current_file_pos' = Plus(pos, n)
      /\ wrapped' = (wrapped \/ c + pad >= Word \/ pos + n >= Word)
  BY DEF LayoutInv, PlaceRest, LayoutTypeOK
<1>2. /\ sec \in [DOMAIN sec -> Section] /\ DOMAIN sec \subseteq Nat
      /\ sec[j] \in Section /\ sec[0].type = "NULL"
  BY <1>1, SectionsTyped
<1>3. c \in Words /\ pad \in Words /\ n \in Words /\ pos \in Words
  <2>1. c \in Words /\ sec[j].align \in Words /\ sec[j].size \in Words
    BY <1>1, <1>2 DEF LayoutTypeOK, Section
  <2>2. n \in Words
    BY <2>1, LayoutAssumption DEF InFileSize, Words
  <2> QED
    BY <2>1, <2>2, Padding, PlusMinus
<1>4. ~(c + pad >= Word) /\ ~(pos + n >= Word)
  BY <1>1, Zenon
<1> HIDE DEF c, pad, n
<1>5. c \in Nat /\ pad \in Nat /\ n \in Nat /\ Word \in Nat
  BY <1>3, LayoutAssumption DEF Words
<1>6. pos = c + pad
  BY <1>4, <1>5 DEF Plus
<1>7. current_file_pos' = c + pad + n
  BY <1>1, <1>4, <1>5, <1>6 DEF Plus
<1>8. ASSUME NEW x \in Placed'
      PROVE  \/ x \in Placed /\ sec'[x] = sec[x]
             \/ current_file_pos <= sec'[x].offset
  <2>1. /\ DOMAIN sec' = DOMAIN sec
        /\ \A y \in DOMAIN sec : y # j => sec'[y] = sec[y]
        /\ j # 0 => sec'[j].offset = pos
        /\ j = 0 => sec' = sec
    <3> DEFINE row == [sec[j] EXCEPT !.offset = pos]
    <3>1. row.offset = pos
      BY <1>2 DEF Section
    <3>2. sec' = IF j = 0 THEN sec ELSE [sec EXCEPT ![j] = row]
      BY <1>1
    <3> HIDE DEF row, pos
    <3> QED
      BY <1>1, <1>2, <3>1, <3>2
  <2>2. x \in DOMAIN sec /\ x \in Nat
    BY <1>2, <1>8, <2>1 DEF Placed
  <2>3. CASE x = j
    <3>1. j # 0
      BY <1>2, <1>8, <2>1, <2>3 DEF Placed, Occupies, InFile
    <3>2. sec'[x].offset = c + pad
      BY <1>6, <2>1, <2>3, <3>1
    <3> QED
      BY <1>5, <3>2 DEF c
  <2>4. CASE x # j
    <3>1. sec'[x] = sec[x]
      BY <2>1, <2>2, <2>4
    <3>2. Occupies(x) /\ (x \in section_generated \/ x < j + 1)
      BY <1>1, <1>8, <3>1 DEF Placed, Occupies, InFile
    <3>3. x \in section_generated \/ x < j
      BY <1>1, <2>2, <2>4, <3>2
    <3> QED
      BY <1>1, <2>2, <3>1, <3>2, <3>3 DEF Placed
  <2> QED
    BY <2>3, <2>4
<1>9. current_file_pos <= current_file_pos'
  BY <1>5, <1>7 DEF c
<1> QED
  BY <1>8, <1>9

LEMMA RestClear ==
  ASSUME ClearInv,
         EndSegments \/ SkipGenerated \/ PlaceRest \/ LayoutTable
  PROVE  ClearInv'
<1>1. ImageInv' /\ LayoutInv /\ LayoutInv' /\ LayoutTypeOK
  BY RestMaps DEF ClearInv, ImageInv, CoverInv, LayoutInv
<1>2. Laying /\ UNCHANGED <<seg, k>> /\ pc' # "sections"
  BY DEF EndSegments, SkipGenerated, PlaceRest, LayoutTable, Laying
<1>3. Steady
  <2>1. CASE PlaceRest
    BY <1>1, <2>1, PlaceRestSteady
  <2>2. CASE EndSegments
    BY <2>2 DEF EndSegments, Steady
  <2>3. CASE SkipGenerated
    BY <2>3 DEF SkipGenerated, Steady
  <2>4. CASE LayoutTable
    BY <2>4 DEF LayoutTable, Advance, Steady
  <2> QED
    BY <2>1, <2>2, <2>3, <2>4
<1>4. ~wrapped' =>
        /\ current_file_pos <= current_file_pos'
        /\ \A x \in Placed' : \/ x \in Placed /\ sec'[x] = sec[x]
                              \/ current_file_pos <= sec'[x].offset
  <2>1. /\ current_file_pos \in Nat /\ DOMAIN sec \subseteq Nat /\ j \in Nat
        /\ \A x \in DOMAIN sec : 0..x \subseteq DOMAIN sec
    BY <1>1, WordsAreNats, SectionsTyped DEF LayoutTypeOK
  <2>2. CASE PlaceRest
    BY <1>1, <2>2, RestMovesOn
  <2>3. CASE EndSegments
    <3>1. UNCHANGED <<sec, section_generated, current_file_pos>> /\ j' = 0
          /\ pc = "segments" /\ pc' = "rest"
      BY <2>3 DEF EndSegments
    <3> QED
      BY <2>1, <3>1 DEF Placed, Occupies, InFile
  <2>4. CASE SkipGenerated
    <3>1. UNCHANGED <<sec, section_generated, current_file_pos, pc>>
          /\ j' = j + 1 /\ j \in section_generated /\ pc = "rest"
      BY <2>4 DEF SkipGenerated
    <3> QED
      BY <2>1, <3>1 DEF Placed, Occupies, InFile
  <2>5. CASE LayoutTable
    <3>1. UNCHANGED <<sec, section_generated, j>> /\ j \notin DOMAIN sec
          /\ pc = "rest" /\ pc' = "done"
      BY <2>5 DEF LayoutTable
    <3>2. \A x \in DOMAIN sec : x < j
      BY <2>1, <3>1
    <3>3. Placed' \subseteq Placed
      BY <3>1, <3>2 DEF Placed, Occupies, InFile
    <3>4. ~wrapped' => current_file_pos <= current_file_pos'
      BY <1>1, <2>5, TableMovesOn
    <3> QED
      BY <3>1, <3>3, <3>4
  <2> QED
    BY <2>2, <2>3, <2>4, <2>5
<1> QED
  BY <1>1, <1>2, <1>3, <1>4, FinishedClear DEF ClearInv

LEMMA StartSegmentClear ==
  ASSUME ClearInv, StartSegment
  PROVE  ClearInv'
<1>1. /\ ImageInv' /\ CoverInv /\ LayoutInv /\ LayoutInv' /\ LayoutTypeOK
      /\ LayoutTypeOK' /\ OrderInv /\ Finished \subseteq SegIds
  BY StartSegmentMaps, FinishedTyped DEF ClearInv, ImageInv, CoverInv, LayoutInv
<1>2. /\ pc = "segments" /\ phase = "ordered" /\ k < Len(res)
      /\ pc' = "sections" /\ j' = 0
      /\ UNCHANGED <<seg, orderVars, sec, section_generated, k>>
  BY DEF StartSegment
<1>3. PICK g \in SegIds : g = Current
  BY <1>1, <1>2, OrderedTyped
<1>4. /\ current_file_pos \in Words /\ current_file_pos \in Nat
      /\ current_file_pos' \in Nat /\ Word \in Nat
      /\ seg[g].vaddr \in Words /\ seg[g].align \in Words
  <2>1. current_file_pos' \in Words
    BY <1>1 DEF LayoutTypeOK
  <2>2. current_file_pos \in Words /\ seg[g] \in Segment(DOMAIN sec)
    BY <1>1, TypedIsTable DEF LayoutTypeOK, SegIds
  <2> QED
    BY <2>1, <2>2, LayoutAssumption DEF Words, Segment
<1> DEFINE n == PageAdjustment(current_file_pos, seg[g].vaddr, seg[g].align)
<1>5. /\ wrapped => wrapped'
      /\ ~wrapped' => current_file_pos <= current_file_pos'
  <2>1. n \in Words
    BY <1>4, PageAdjustments
  <2>2. \/ wrapped' = wrapped /\ current_file_pos' = current_file_pos
        \/ /\ wrapped' = (wrapped \/ current_file_pos + n >= Word)
           /\ current_file_pos' = Plus(current_file_pos, n)
    BY <1>3, Zenon DEF StartSegment, Advance
  <2> HIDE DEF n
  <2>3. n \in Nat
    BY <2>1, LayoutAssumption DEF Words
  <2>4. CASE /\ wrapped' = (wrapped \/ current_file_pos + n >= Word)
             /\ current_file_pos' = Plus(current_file_pos, n)
    <3>1. wrapped => wrapped'
      BY <2>4, Zenon
    <3>2. ASSUME ~wrapped'
          PROVE  current_file_pos <= current_file_pos'
      <4>1. ~(current_file_pos + n >= Word)
        BY <2>4, <3>2, Zenon
      <4>2. current_file_pos' = current_file_pos + n
        BY <1>4, <2>3, <2>4, <4>1 DEF Plus
      <4> QED
        BY <1>4, <2>3, <4>2
    <3> QED
      BY <3>1, <3>2
  <2> QED
    BY <1>4, <2>2, <2>4
<1>6. Steady /\ Laying
  BY <1>2, <1>5 DEF Steady, Laying
<1>7. Placed' = Placed
  BY <1>2 DEF Placed, Occupies, InFile
<1>8. ASSUME ~wrapped', NEW h \in Finished'
      PROVE  KeptClear(h)'
  <2>1. \A x \in Placed' : x \in Placed /\ sec'[x] = sec[x]
    BY <1>2, <1>7
  <2> QED
    BY <1>1, <1>2, <1>5, <1>6, <1>8, <2>1, FinishedClear
<1>9. g = Current' /\ (Foremost(g)' <=> Foremost(g))
  BY <1>1, <1>2, <1>3, <1>6, ForemostStays DEF Current, orderVars
<1>10. ASSUME ~wrapped', Foremost(g)
       PROVE  /\ Span' <= current_file_pos'
              /\ seg_start_pos' # 0 =>
                   \A x \in Strangers(g) : End(x) <= seg_start_pos'
              /\ Members(seg[g].sections) \cap section_generated = {}
  <2>1. /\ Members(seg[g].sections) \cap section_generated = {}
        /\ HasSections(g) /\ IsFresh(g) /\ ~IsHeaderSegment(g)
    BY <1>1, <1>2, <1>3, <1>10, ForemostIsFresh
  <2>2. \A x \in Placed : End(x) \in Int /\ End(x) <= current_file_pos
    <3>1. ~wrapped /\ PlacedExtents
      BY <1>1, <1>5, <1>10, PlacedTyped
    <3> QED
      BY <1>1, <1>6, <3>1 DEF LayoutInv, Disjoint, PlacedExtents, End
  <2>3. CASE StartsAtZero(g)
    <3>1. /\ seg_start_pos' = 0 /\ segment_filesize' = current_file_pos
          /\ current_file_pos' = current_file_pos
      BY <1>3, <2>1, <2>3 DEF StartSegment
    <3> QED
      BY <1>4, <2>1, <3>1 DEF Span
  <2>4. CASE ~StartsAtZero(g)
    <3>1. seg_start_pos' = current_file_pos' /\ segment_filesize' = 0
      BY <1>3, <2>1, <2>4 DEF StartSegment
    <3>2. \A x \in Strangers(g) : End(x) <= seg_start_pos'
      BY <1>4, <1>5, <1>10, <2>2, <3>1 DEF Strangers
    <3>3. Span' <= current_file_pos'
      <4>1. \A c, z : c \in Nat /\ z = 0 => c + z <= c
        OBVIOUS
      <4>2. seg_start_pos' \in Nat
        BY <1>4, <3>1
      <4>3. seg_start_pos' + segment_filesize' <= seg_start_pos'
        BY <3>1, <4>1, <4>2, Zenon
      <4> QED
        BY <3>1, <4>3, Zenon DEF Span
    <3> QED
      BY <2>1, <3>2, <3>3
  <2> QED
    BY <2>3, <2>4
<1>11. BareIsEmpty(g, segment_filesize)'
  <2>1. ASSUME ~HasSections(g), seg[g].type # "PHDR"
        PROVE  segment_filesize' = 0
    BY <1>3, <2>1 DEF StartSegment, IsHeaderSegment, IsFresh
  <2> QED
    BY <1>2, <2>1 DEF BareIsEmpty, HasSections
<1>12. ~wrapped' => BeingClear(Current)'
  <2> SUFFICES ASSUME ~wrapped'
               PROVE  BeingClear(g)'
    BY <1>9
  <2>1. Strangers(g)' = Strangers(g)
    BY <1>2, <1>7 DEF Strangers
  <2>2. \A x : End(x)' = End(x)
    BY <1>2 DEF End
  <2>3. ASSUME Foremost(g)'
        PROVE  /\ Span' <= current_file_pos'
               /\ seg_start_pos' # 0 =>
                    \A x \in Strangers(g)' : End(x)' <= seg_start_pos'
               /\ Members(seg'[g].sections) \cap section_generated' = {}
    BY <1>2, <1>9, <1>10, <2>1, <2>2, <2>3
  <2> QED
    BY <1>11, <2>3 DEF BeingClear
<1> QED
  BY <1>1, <1>2, <1>8, <1>12 DEF ClearInv

LEMMA VisitedIsMember ==
  ASSUME LayoutInv, AtSection, NEW g \in SegIds, g = Current
  PROVE  Visited \in Members(seg[g].sections) /\ HasSections(g)
<1>1. LayoutTypeOK /\ OrderInv
  BY DEF LayoutInv
<1>2. /\ seg[g] \in Segment(DOMAIN sec) /\ j + 1 <= Len(seg[g].sections)
      /\ j \in Nat
  BY <1>1, VisitedTyped DEF LayoutTypeOK
<1>3. j + 1 \in 1..Len(seg[g].sections) /\ seg[g].sections \in Seq(DOMAIN sec)
  BY <1>2, LenProperties DEF Segment
<1>4. j + 1 \in DOMAIN seg[g].sections
  BY <1>3, LenProperties
<1>5. Visited = seg[g].sections[j + 1]
  BY DEF Visited
<1> QED
  BY <1>3, <1>4, <1>5, EmptySeq DEF Members, HasSections

(* Steps that visit one section of the current segment                     *)
LEMMA VisitedClear ==
  ASSUME ClearInv, ImageInv', Steady, AtSection, UNCHANGED <<seg, k, pc>>,
         NEW g \in SegIds, g = Current,
         ~wrapped' =>
           /\ current_file_pos <= current_file_pos'
           /\ \A x \in Placed' : \/ x \in Placed /\ sec'[x] = sec[x]
                                 \/ current_file_pos <= sec'[x].offset,
         ~wrapped' => BeingClear(g)'
  PROVE  ClearInv'
<1>1. LayoutInv /\ Laying /\ g = Current'
  BY DEF ClearInv, ImageInv, CoverInv, AtSection, Laying, Current, Steady,
         orderVars
<1> QED
  BY <1>1, FinishedClear DEF ClearInv

LEMMA VisitNullClear ==
  ASSUME ClearInv, VisitNull
  PROVE  ClearInv'
<1>1. /\ ImageInv' /\ LayoutInv /\ LayoutTypeOK /\ OrderInv
  BY IdleVisitMaps DEF ClearInv, ImageInv, CoverInv, LayoutInv
<1>2. /\ AtSection /\ pc = "sections" /\ sec[Visited].type = "NULL"
      /\ section_generated' = section_generated \cup {Visited}
      /\ UNCHANGED <<seg, orderVars, sec, pc, current_file_pos, k,
                     segmentVars, wrapped>>
  BY DEF VisitNull, AtSection
<1>3. Steady
  BY <1>2 DEF Steady
<1>4. PICK g \in SegIds : g = Current
  BY <1>1, <1>2, VisitedTyped DEF SegIds
<1>5. Placed' = Placed /\ Foremost(g)' = Foremost(g)
  BY <1>2 DEF Placed, Occupies, InFile, Foremost, HasSections, orderVars
<1>6. current_file_pos <= current_file_pos'
  BY <1>1, <1>2, WordsAreNats
<1>7. ~wrapped' => BeingClear(g)'
  <2>1. ~wrapped => BeingClear(g)
    BY <1>2, <1>4 DEF ClearInv
  <2> QED
    BY <1>2, <1>5, <2>1
       DEF BeingClear, Span, Strangers, BareIsEmpty, HasSections, InFile,
           Begin, End, segmentVars
<1> QED
  BY <1>1, <1>2, <1>3, <1>4, <1>5, <1>6, <1>7, VisitedClear

LEMMA RevisitSectionClear ==
  ASSUME ClearInv, RevisitSection
  PROVE  ClearInv'
<1> DEFINE x == Visited
<1>1. /\ ImageInv' /\ LayoutInv /\ LayoutInv' /\ LayoutTypeOK /\ OrderInv
  BY IdleVisitMaps DEF ClearInv, ImageInv, CoverInv, LayoutInv
<1>2. /\ AtSection /\ pc = "sections" /\ sec[x].type # "NULL"
      /\ x \in section_generated /\ Account(x)
      /\ UNCHANGED <<seg, orderVars, sec, pc, current_file_pos, k,
                     section_generated, seg_start_pos, wrapped>>
  BY DEF RevisitSection, AtSection
<1>3. Steady
  BY <1>2 DEF Steady
<1>4. PICK g \in SegIds : g = Current
  BY <1>1, <1>2, VisitedTyped DEF SegIds
<1>5. Placed' = Placed /\ Foremost(g)' = Foremost(g)
  BY <1>2 DEF Placed, Occupies, InFile, Foremost, HasSections, orderVars
<1>6. current_file_pos <= current_file_pos'
  BY <1>1, <1>2, WordsAreNats
<1>7. x \in Members(seg[g].sections) /\ HasSections(g)
  BY <1>1, <1>2, <1>4, VisitedIsMember
<1>8. ASSUME ~wrapped, Foremost(g)
      PROVE  Span' <= current_file_pos
  <2>1. /\ Span <= current_file_pos
        /\ InFile(x) => seg_start_pos <= Begin(x) /\ End(x) <= current_file_pos
    BY <1>2, <1>4, <1>7, <1>8 DEF ClearInv, BeingClear
  <2>2. CASE sec[x].type = "NOBITS"
    BY <1>2, <2>1, <2>2 DEF Account, Span
  <2>3. CASE sec[x].type # "NOBITS"
    <3>1. InFile(x)
      BY <1>2, <2>3 DEF InFile
    <3>2. Span' = End(x)
      BY <1>1, <1>8, <2>1, <3>1, RevisitedSpan
    <3> QED
      BY <2>1, <3>1, <3>2
  <2> QED
    BY <2>2, <2>3
<1>9. ~wrapped' => BeingClear(g)'
  <2>1. ~wrapped => BeingClear(g)
    BY <1>2, <1>4 DEF ClearInv
  <2>2. BareIsEmpty(g, segment_filesize)'
    BY <1>2, <1>7 DEF BareIsEmpty, HasSections
  <2> HIDE DEF x
  <2> QED
    BY <1>2, <1>5, <1>8, <2>1, <2>2
       DEF BeingClear, Strangers, InFile, Begin, End
<1> QED
  BY <1>1, <1>2, <1>3, <1>4, <1>5, <1>6, <1>9, VisitedClear

LEMMA PlaceSectionClear ==
  ASSUME ClearInv, PlaceSection
  PROVE  ClearInv'
<1> DEFINE x == Visited
<1>1. /\ ImageInv' /\ LayoutInv /\ LayoutInv' /\ LayoutTypeOK /\ OrderInv
  BY PlaceSectionMaps DEF ClearInv, ImageInv, CoverInv, LayoutInv
<1>2. /\ AtSection /\ pc = "sections" /\ x \notin section_generated
      /\ sec[x].type # "NULL"
      /\ section_generated' = section_generated \cup {x}
      /\ UNCHANGED <<seg, orderVars, pc, k, seg_start_pos>>
  BY DEF PlaceSection, AtSection
<1>3. /\ x \in DOMAIN sec /\ DOMAIN sec' = DOMAIN sec
      /\ \A y \in DOMAIN sec : /\ y # x => sec'[y] = sec[y]
                               /\ sec'[y].type = sec[y].type
      /\ sec'[x].size = sec[x].size
      /\ wrapped => wrapped'
      /\ sec[x].type = "NOBITS" => Span' = Span
      /\ ~wrapped' /\ InFile(x) =>
           /\ current_file_pos <= sec'[x].offset
           /\ sec'[x].offset + sec'[x].size = current_file_pos'
           /\ Span <= current_file_pos => Span' <= current_file_pos'
  BY <1>1, PlacedOnce
<1>4. section_generated \subseteq DOMAIN sec
  BY <1>1 DEF LayoutTypeOK
<1>5. Steady
  BY <1>2, <1>3, <1>4 DEF Steady
<1>6. PICK g \in SegIds : g = Current
  BY <1>1, <1>2, VisitedTyped DEF SegIds
<1>7. ~wrapped' => current_file_pos <= current_file_pos'
  BY <1>1, PlacingMovesOn
<1>8. /\ \A y \in Placed' : \/ y \in Placed /\ sec'[y] = sec[y]
                            \/ y = x /\ InFile(x)
      /\ \A y \in Placed' : y # x => y \in Placed /\ sec'[y] = sec[y]
  <2> SUFFICES ASSUME NEW y \in Placed'
               PROVE  /\ y = x => InFile(x)
                      /\ y # x => y \in Placed /\ sec'[y] = sec[y]
    OBVIOUS
  <2>1. y \in DOMAIN sec /\ Occupies(y)' /\ y \in section_generated'
    BY <1>2, <1>3 DEF Placed
  <2>2. CASE y = x
    BY <1>3, <2>1, <2>2 DEF Occupies, InFile
  <2>3. CASE y # x
    <3>1. sec'[y] = sec[y] /\ y \in section_generated
      BY <1>2, <1>3, <2>1, <2>3
    <3> QED
      BY <2>1, <2>3, <3>1 DEF Placed, Occupies, InFile
  <2> QED
    BY <2>2, <2>3
<1>9. ~wrapped' =>
        \A y \in Placed' : \/ y \in Placed /\ sec'[y] = sec[y]
                           \/ current_file_pos <= sec'[y].offset
  BY <1>3, <1>8
<1>10. x \in Members(seg[g].sections) /\ HasSections(g)
  BY <1>1, <1>2, <1>6, VisitedIsMember
<1>11. Foremost(g)' <=> Foremost(g)
  BY <1>1, <1>5, ForemostStays
<1> HIDE DEF x
<1>12. ASSUME ~wrapped', Foremost(g)
       PROVE  /\ Span' <= current_file_pos'
              /\ seg_start_pos # 0 =>
                   \A y \in Strangers(g)' :
                     sec'[y].offset + sec'[y].size <= seg_start_pos
              /\ \A y \in Members(seg[g].sections) \cap section_generated' :
                   sec'[y].type \notin {"NOBITS", "NULL"} =>
                     /\ seg_start_pos <= sec'[y].offset
                     /\ sec'[y].offset + sec'[y].size <= current_file_pos'
  <2>1. /\ Span <= current_file_pos /\ seg_start_pos <= current_file_pos
        /\ seg_start_pos # 0 => \A y \in Strangers(g) : End(y) <= seg_start_pos
        /\ \A y \in Members(seg[g].sections) \cap section_generated :
             InFile(y) => seg_start_pos <= Begin(y) /\ End(y) <= current_file_pos
    BY <1>2, <1>3, <1>6, <1>12 DEF ClearInv, ImageInv, BeingClear
  <2>2. /\ seg_start_pos \in Nat /\ current_file_pos \in Nat
        /\ current_file_pos' \in Nat /\ Span \in Nat
        /\ current_file_pos <= current_file_pos'
        /\ \A y \in DOMAIN sec : sec[y].offset \in Nat /\ sec[y].size \in Nat
    <3>1. current_file_pos' \in Words
      BY <1>1 DEF LayoutInv, LayoutTypeOK
    <3> QED
      BY <1>1, <1>7, <1>12, <3>1, WordsAreNats, LayoutAssumption
         DEF Words, Span
  <2>3. Span' <= current_file_pos'
    <3>1. CASE sec[x].type = "NOBITS"
      BY <1>3, <2>1, <2>2, <3>1
    <3>2. CASE sec[x].type # "NOBITS"
      <4>1. InFile(x)
        BY <1>2, <3>2 DEF InFile, x
      <4> QED
        BY <1>3, <1>12, <2>1, <4>1
    <3> QED
      BY <3>1, <3>2
  <2>4. ASSUME seg_start_pos # 0, NEW y \in Strangers(g)'
        PROVE  sec'[y].offset + sec'[y].size <= seg_start_pos
    <3>1. y \in Placed' /\ y \notin Members(seg[g].sections)
      BY <1>2, <2>4 DEF Strangers
    <3>2. y \in Strangers(g) /\ sec'[y] = sec[y]
      BY <1>8, <1>10, <3>1 DEF Strangers
    <3> QED
      BY <2>1, <2>4, <3>2 DEF End
  <2>5. ASSUME NEW y \in Members(seg[g].sections) \cap section_generated',
               sec'[y].type \notin {"NOBITS", "NULL"}
        PROVE  /\ seg_start_pos <= sec'[y].offset
               /\ sec'[y].offset + sec'[y].size <= current_file_pos'
    <3>1. CASE y = x
      <4>1. InFile(x)
        BY <1>3, <2>5, <3>1 DEF InFile
      <4>2. /\ current_file_pos <= sec'[x].offset
            /\ sec'[x].offset + sec'[x].size = current_file_pos'
        BY <1>3, <1>12, <4>1
      <4>3. sec'[x].offset \in Nat
        <5>1. sec'[x] \in Section
          BY <1>1, <1>3, RowsTypedNext DEF LayoutInv
        <5> QED
          BY <5>1, LayoutAssumption DEF Section, Words
      <4> QED
        BY <2>1, <2>2, <3>1, <4>2, <4>3
    <3>2. CASE y # x
      <4>1. y \in section_generated /\ y \in DOMAIN sec /\ sec'[y] = sec[y]
        BY <1>2, <1>3, <1>4, <2>5, <3>2 DEF x
      <4>2. InFile(y)
        BY <2>5, <4>1 DEF InFile
      <4>3. seg_start_pos <= Begin(y) /\ End(y) <= current_file_pos
        BY <2>1, <2>5, <4>1, <4>2
      <4> QED
        BY <2>2, <4>1, <4>3 DEF Begin, End
    <3> QED
      BY <3>1, <3>2
  <2> QED
    BY <2>3, <2>4, <2>5
<1>13. BareIsEmpty(g, segment_filesize)'
  BY <1>2, <1>10 DEF BareIsEmpty, HasSections
<1>14. ~wrapped' => BeingClear(g)'
  BY <1>2, <1>11, <1>12, <1>13 DEF BeingClear, InFile, Begin, End
<1> QED
  BY <1>1, <1>2, <1>5, <1>6, <1>7, <1>9, <1>14, VisitedClear

LEMMA EndSegmentClear ==
  ASSUME ClearInv, EndSegment
  PROVE  ClearInv'
<1>1. /\ ImageInv' /\ LayoutInv /\ LayoutInv' /\ LayoutTypeOK /\ LayoutTypeOK'
      /\ OrderInv /\ Finished \subseteq SegIds
  BY EndSegmentMaps, FinishedTyped DEF ClearInv, ImageInv, CoverInv, LayoutInv
<1>2. /\ pc = "sections" /\ pc' = "segments" /\ k' = k + 1 /\ k < Len(res)
      /\ seg' = LaidOut(Current) /\ k \in Nat
      /\ UNCHANGED <<orderVars, sec, section_generated, segmentVars, wrapped,
                     current_file_pos>>
  BY <1>1, OrderedTyped DEF EndSegment, LayoutTypeOK
<1>3. PICK g \in SegIds : g = Current
  BY <1>1, <1>2, OrderedTyped
<1>4. /\ DOMAIN seg = SegIds /\ Len(seg) \in Nat /\ Len(seg') \in Nat
      /\ DOMAIN seg' = 1..Len(seg') /\ SegIds = 1..Len(seg)
      /\ seg[g] \in Segment(DOMAIN sec)
  BY <1>1, TypedIsTable DEF LayoutTypeOK, IsTable, SegIds
<1>5. /\ seg'[g] = [seg[g] EXCEPT !.filesz = segment_filesize,
                                  !.memsz = Larger(seg[g].memsz, segment_memory),
                                  !.offset = seg_start_pos,
                                  !.offset_set = TRUE]
      /\ \A h \in SegIds : h # g => seg'[h] = seg[h]
      /\ DOMAIN seg' = SegIds
  BY <1>2, <1>3, <1>4 DEF LaidOut
<1>6. /\ seg'[g].sections = seg[g].sections /\ seg'[g].offset = seg_start_pos
      /\ seg'[g].filesz = segment_filesize /\ seg'[g].type = seg[g].type
  BY <1>4, <1>5 DEF Segment
<1>7. Steady
  <2>1. Len(seg') = Len(seg)
    <3>1. /\ DOMAIN seg = SegIds /\ DOMAIN seg' = SegIds
          /\ DOMAIN seg' = 1..Len(seg')
          /\ Len(seg) \in Nat /\ Len(seg') \in Nat
      BY <1>4, <1>5
    <3> QED
      BY <3>1 DEF SegIds
  <2> QED
    BY <1>2, <1>5, <1>6, <2>1 DEF Steady
<1>8. \A h \in Finished' : h \in Finished \/ h = g
  <2>1. \A m \in 1..k' : m \in 1..k \/ m = k + 1
    BY <1>2
  <2> QED
    BY <1>2, <1>3, <2>1 DEF Finished, Current, orderVars
<1>9. Placed' = Placed
  BY <1>2 DEF Placed, Occupies, InFile
<1>10. ASSUME NEW h \in Finished', ~wrapped'
       PROVE  KeptClear(h)'
  <2>1. h \in SegIds /\ (Foremost(h)' <=> Foremost(h)) /\ ~wrapped
    BY <1>1, <1>2, <1>7, <1>8, <1>10, ForemostStays
  <2>2. CASE h = g
    <3>1. BeingClear(g)
      BY <1>2, <1>3, <2>1 DEF ClearInv
    <3>2. Strangers(g)' = Strangers(g)
      BY <1>6, <1>9 DEF Strangers
    <3>3. FileEnd(g)' = Span
      BY <1>6 DEF FileEnd, Span
    <3>4. BareIsEmpty(g, seg[g].filesz)'
      BY <1>6, <3>1 DEF BeingClear, BareIsEmpty, HasSections
    <3>5. \A x : End(x)' = End(x)
      BY <1>2 DEF End
    <3> QED
      BY <1>2, <1>6, <2>1, <2>2, <3>1, <3>2, <3>3, <3>4, <3>5
         DEF KeptClear, BeingClear
  <2>3. CASE h # g
    <3>1. h \in Finished /\ seg'[h] = seg[h]
      BY <1>5, <1>8, <1>10, <2>1, <2>3
    <3>2. KeptClear(h)
      BY <1>2, <2>1, <3>1 DEF ClearInv, Laying
    <3>3. current_file_pos <= current_file_pos'
      BY <1>1, <1>2, WordsAreNats
    <3>4. \A x \in Placed' : x \in Placed /\ sec'[x] = sec[x]
      BY <1>2, <1>9
    <3> QED
      BY <1>1, <1>7, <1>10, <2>1, <3>1, <3>2, <3>3, <3>4, StaysClear
  <2> QED
    BY <2>2, <2>3
<1> QED
  BY <1>1, <1>2, <1>10 DEF ClearInv

LEMMA StutterClear ==
  ASSUME ClearInv, UNCHANGED vars
  PROVE  ClearInv'
<1>1. ImageInv'
  BY StutterMaps DEF ClearInv
<1>2. /\ UNCHANGED <<seg, sec, pc, section_generated, k, j, wrapped>>
      /\ UNCHANGED <<current_file_pos, seg_start_pos, segment_filesize, res>>
  BY DEF vars, layoutVars, orderVars, segmentVars
<1>3. Finished' = Finished /\ Current' = Current /\ Placed' = Placed
  BY <1>2 DEF Finished, Current, Placed, Occupies, InFile
<1>4. \A g : Foremost(g)' <=> Foremost(g)
  BY <1>2 DEF Foremost, HasSections
<1>5. \A g : KeptClear(g) => KeptClear(g)'
  BY <1>2, <1>3, <1>4
     DEF KeptClear, FileEnd, Strangers, Begin, End, BareIsEmpty, HasSections
<1>6. \A g : BeingClear(g) => BeingClear(g)'
  BY <1>2, <1>3, <1>4
     DEF BeingClear, Span, Strangers, Begin, End, InFile, BareIsEmpty,
         HasSections
<1> QED
  BY <1>1, <1>2, <1>3, <1>5, <1>6 DEF ClearInv, Laying

LEMMA ClearInitially == Init => ClearInv
BY ImageInitially DEF Init, ClearInv, Laying

LEMMA ClearStepwise == ClearInv /\ [Next]_vars => ClearInv'
<1> SUFFICES ASSUME ClearInv, [Next]_vars
             PROVE  ClearInv'
  OBVIOUS
<1>1. CASE BeginSave
  BY <1>1, BeginSaveClear DEF ClearInv, ImageInv, CoverInv, LayoutInv
<1>2. CASE OrderStep
  BY <1>2, OrderStepClear
<1>3. CASE StartSegment
  BY <1>3, StartSegmentClear
<1>4. CASE VisitNull
  BY <1>4, VisitNullClear
<1>5. CASE RevisitSection
  BY <1>5, RevisitSectionClear
<1>6. CASE Abort
  <2>1. ImageInv' /\ pc' = "failed"
    BY <1>6, ImageStepwise DEF ClearInv, Abort, Next
  <2> QED
    BY <2>1 DEF ClearInv, Laying
<1>7. CASE PlaceSection
  BY <1>7, PlaceSectionClear
<1>8. CASE EndSegment
  BY <1>8, EndSegmentClear
<1>9. CASE EndSegments \/ SkipGenerated \/ PlaceRest \/ LayoutTable
  BY <1>9, RestClear
<1>10. ASSUME NEW x \in DOMAIN sec, NEW n \in Sizes, Edit(x, n)
       PROVE  ClearInv'
  <2>1. ImageInv' /\ pc' = "idle"
    BY <1>10, ImageStepwise DEF ClearInv, Edit, Next
  <2> QED
    BY <2>1 DEF ClearInv, Laying
<1>11. CASE UNCHANGED vars
  BY <1>11, StutterClear
<1> QED
  BY <1>1, <1>2, <1>3, <1>4, <1>5, <1>6, <1>7, <1>8, <1>9, <1>10, <1>11
     DEF Next

(* Where each segment starts while the layout goes on                      *)
THEOREM ClearInvariance == Spec => []ClearInv
BY ClearInitially, ClearStepwise, PTL DEF Spec

-----------------------------------------------------------------------------
(* Loading what was saved                                                  *)

Saved ==
  file # <<>> =>
    /\ IsSections(file.sec) /\ DOMAIN file.sec = DOMAIN sec
    /\ IsSegments(file.seg, DOMAIN file.sec) /\ Len(file.seg) = Len(seg)

ReloadInv ==
  /\ LayoutTypeOK /\ HeadersEnd(seg) < Word /\ Saved
  /\ pc # "idle" => ClearInv

LEMMA TablesKeptSize ==
  ASSUME LayoutTypeOK, LayoutTypeOK', [Next]_vars
  PROVE  DOMAIN sec' = DOMAIN sec /\ Len(seg') = Len(seg)
<1>1. DOMAIN sec' = DOMAIN sec
  BY DEF Next, BeginSave, OrderStep, StartSegment, VisitNull, Abort,
         RevisitSection, PlaceSection, PlacedSection, EndSegment, EndSegments,
         SkipGenerated, PlaceRest, LayoutTable, Edit, vars, layoutVars
<1>2. DOMAIN seg' = DOMAIN seg
  BY DEF Next, BeginSave, Aligned, OrderStep, StartSegment, VisitNull, Abort,
         RevisitSection, PlaceSection, EndSegment, LaidOut, EndSegments,
         SkipGenerated, PlaceRest, LayoutTable, Edit, vars
<1>3. /\ DOMAIN seg = 1..Len(seg) /\ Len(seg) \in Nat
      /\ DOMAIN seg' = 1..Len(seg') /\ Len(seg') \in Nat
  BY TypedIsTable DEF LayoutTypeOK, IsTable
<1> QED
  BY <1>1, <1>2, <1>3

(* The tables that load() makes of a file with typed tables                *)
LEMMA LoadedSectionsTyped ==
  ASSUME NEW f, IsSections(f.sec)
  PROVE  /\ IsSections(LoadedSections(f))
         /\ DOMAIN LoadedSections(f) = DOMAIN f.sec
<1> DEFINE last == Cardinality(DOMAIN f.sec) - 1
<1>1. last \in Nat /\ f.sec \in [0..last -> Section] /\ f.sec[0].type = "NULL"
  BY DEF IsSections
<1>2. /\ LoadedSections(f) = [x \in DOMAIN f.sec |->
                               [f.sec[x] EXCEPT !.addr_set = TRUE]]
      /\ DOMAIN LoadedSections(f) = DOMAIN f.sec
  BY DEF LoadedSections
<1> HIDE DEF last
<1>3. /\ DOMAIN f.sec = 0..last /\ 0 \in 0..last
      /\ \A x \in 0..last : f.sec[x] \in Section
  BY <1>1
<1>4. \A x \in 0..last : /\ LoadedSections(f)[x] \in Section
                         /\ LoadedSections(f)[x].type = f.sec[x].type
  <2> TAKE x \in 0..last
  <2> DEFINE row == f.sec[x]
  <2>1. row \in Section /\ LoadedSections(f)[x] = [row EXCEPT !.addr_set = TRUE]
    BY <1>2, <1>3
  <2> HIDE DEF row
  <2>2. /\ [row EXCEPT !.addr_set = TRUE] \in Section
        /\ [row EXCEPT !.addr_set = TRUE].type = row.type
    BY <2>1 DEF Section
  <2> QED
    BY <2>1, <2>2 DEF row
<1>5. LoadedSections(f) \in [0..last -> Section]
  BY <1>2, <1>3, <1>4
<1>6. LoadedSections(f)[0].type = "NULL"
  BY <1>1, <1>3, <1>4
<1> QED
  BY <1>1, <1>2, <1>5, <1>6 DEF IsSections, last

LEMMA LoadedSegmentsTyped ==
  ASSUME NEW f, IsSections(f.sec), IsSegments(f.seg, DOMAIN f.sec),
         NEW t \in LoadedSegments(f)
  PROVE  IsSegments(t, DOMAIN f.sec) /\ Len(t) = Len(f.seg)
<1> DEFINE D == DOMAIN f.sec
           found(g) == FoundIn(f.sec, f.seg[g])
           sets == {found(g) : g \in DOMAIN f.seg}
<1>1. PICK order \in Sortings(f.sec, sets) :
        t = [g \in DOMAIN f.seg |->
               [f.seg[g] EXCEPT !.sections = order[found(g)],
                                !.offset_set = TRUE]]
  BY DEF LoadedSegments
<1>2. /\ DOMAIN f.seg = 1..Len(f.seg) /\ Len(f.seg) \in Nat
      /\ \A g \in 1..Len(f.seg) : f.seg[g] \in Segment(D)
  BY TypedIsTable DEF IsTable
<1>3. IsFiniteSet(D)
  <2>1. PICK n \in Nat : D = 0..n
    BY DEF IsSections
  <2>2. IsFiniteSet(0..n)
    <3>1. 0 \in Int /\ n \in Int
      OBVIOUS
    <3> QED
      BY <3>1, FS_Interval, Zenon
  <2> QED
    BY <2>1, <2>2
<1>4. ASSUME NEW g \in DOMAIN f.seg
      PROVE  order[found(g)] \in Seq(D)
  <2>1. found(g) \subseteq D
    BY DEF FoundIn
  <2>2. Cardinality(found(g)) \in Nat
    BY <1>3, <2>1, FS_Subset, FS_CardinalityType
  <2>3. order[found(g)] \in Sorted(f.sec, found(g))
    BY DEF Sortings
  <2>4. order[found(g)] \in [1..Cardinality(found(g)) -> found(g)]
    BY <2>3 DEF Sorted
  <2> HIDE DEF found
  <2>5. order[found(g)] \in [1..Cardinality(found(g)) -> D]
    BY <2>1, <2>4
  <2> QED
    BY <2>2, <2>5, SeqDef
<1>5. ASSUME NEW g \in 1..Len(f.seg)
      PROVE  t[g] \in Segment(D)
  <2> DEFINE list == order[found(g)]
             row == f.seg[g]
  <2>1. /\ list \in Seq(D) /\ row \in Segment(D)
        /\ t[g] = [row EXCEPT !.sections = list, !.offset_set = TRUE]
    BY <1>1, <1>2, <1>4
  <2> HIDE DEF list, row, D
  <2> QED
    BY <2>1 DEF Segment
<1>6. DOMAIN t = 1..Len(f.seg)
  BY <1>1, <1>2
<1>7. t = [g \in 1..Len(f.seg) |-> t[g]]
  BY <1>1, <1>2
<1> HIDE DEF D
<1>8. t \in [1..Len(f.seg) -> Segment(D)]
  BY <1>5, <1>7
<1>9. t \in Seq(Segment(D)) /\ Len(t) = Len(f.seg)
  BY <1>2, <1>8, SeqDef, LenProperties
<1> QED
  BY <1>9 DEF IsSegments, D

LEMMA LoadKeeps ==
  ASSUME ReloadInv, Load
  PROVE  ReloadInv'
<1>1. /\ LayoutTypeOK /\ HeadersEnd(seg) < Word /\ file # <<>> /\ pc' = "idle"
      /\ sec' = LoadedSections(file) /\ seg' \in LoadedSegments(file)
      /\ UNCHANGED <<orderVars, current_file_pos, section_generated, k, j,
                     segmentVars, sections_offset, wrapped, file>>
  BY DEF ReloadInv, Load
<1>2. /\ IsSections(file.sec) /\ DOMAIN file.sec = DOMAIN sec
      /\ IsSegments(file.seg, DOMAIN file.sec) /\ Len(file.seg) = Len(seg)
  BY <1>1 DEF ReloadInv, Saved
<1>3. /\ IsSections(sec') /\ DOMAIN sec' = DOMAIN sec
      /\ IsSegments(seg', DOMAIN sec') /\ Len(seg') = Len(seg)
  <2>1. IsSections(sec') /\ DOMAIN sec' = DOMAIN sec
    BY <1>1, <1>2, LoadedSectionsTyped
  <2>2. IsSegments(seg', DOMAIN sec) /\ Len(seg') = Len(seg)
    BY <1>1, <1>2, LoadedSegmentsTyped
  <2> QED
    BY <2>1, <2>2
<1>4. LayoutTypeOK'
  BY <1>1, <1>3 DEF LayoutTypeOK, orderVars, segmentVars
<1>5. HeadersEnd(seg') < Word
  BY <1>1, <1>3 DEF HeadersEnd
<1>6. Saved'
  BY <1>1, <1>2, <1>3 DEF Saved
<1> QED
  BY <1>1, <1>4, <1>5, <1>6 DEF ReloadInv

LEMMA ReloadStepwise ==
  ReloadInv /\ [ReloadNext]_<<vars, reloadVars>> => ReloadInv'
<1> SUFFICES ASSUME ReloadInv, [ReloadNext]_<<vars, reloadVars>>
             PROVE  ReloadInv'
  OBVIOUS
<1>1. ASSUME [Next]_vars, file' = Written \/ file' = file
      PROVE  ReloadInv'
  <2>1. /\ LayoutTypeOK' /\ HeadersEnd(seg') < Word
        /\ pc' # "idle" => ClearInv'
    <3>1. CASE pc = "idle"
      <4>1. CASE BeginSave
        <5>1. ClearInv'
          BY <4>1, BeginSaveClear DEF ReloadInv
        <5> QED
          BY <5>1 DEF ClearInv, ImageInv, CoverInv, LayoutInv
      <4>2. CASE ~BeginSave
        <5>1. UNCHANGED vars
          BY <1>1, <3>1, <4>2
             DEF Next, OrderStep, StartSegment, VisitNull, Abort,
                 RevisitSection, PlaceSection, AtSection, EndSegment,
                 EndSegments, SkipGenerated, PlaceRest, LayoutTable, Edit
        <5>2. pc' = "idle" /\ UNCHANGED <<seg, sec>>
              /\ UNCHANGED <<orderVars, pc, current_file_pos,
                             section_generated, k, j, segmentVars,
                             sections_offset, wrapped>>
          BY <3>1, <5>1 DEF vars, layoutVars
        <5>3. LayoutTypeOK'
          BY <3>1, <5>2 DEF ReloadInv, LayoutTypeOK, orderVars, segmentVars
        <5> QED
          BY <5>2, <5>3 DEF ReloadInv, HeadersEnd
      <4> QED
        BY <4>1, <4>2
    <3>2. CASE pc # "idle"
      <4>1. ClearInv'
        BY <1>1, <3>2, ClearStepwise DEF ReloadInv
      <4> QED
        BY <4>1 DEF ClearInv, ImageInv, CoverInv, LayoutInv
    <3> QED
      BY <3>1, <3>2
  <2>2. DOMAIN sec' = DOMAIN sec /\ Len(seg') = Len(seg)
    BY <1>1, <2>1, TablesKeptSize DEF ReloadInv
  <2>3. Saved'
    <3>1. CASE file' = file
      BY <2>2, <3>1 DEF ReloadInv, Saved
    <3>2. CASE file' = [sec |-> sec', seg |-> seg']
      BY <2>1, <3>2 DEF Saved, LayoutTypeOK
    <3> QED
      BY <1>1, <3>1, <3>2 DEF Written
  <2> QED
    BY <2>1, <2>3 DEF ReloadInv
<1>2. CASE Load
  BY <1>2, LoadKeeps
<1> QED
  BY <1>1, <1>2 DEF ReloadNext, reloadVars

LEMMA ReloadInitially == ReloadInit => ReloadInv
BY ClearInitially DEF ReloadInit, ReloadInv, Saved, ClearInv, ImageInv,
                      CoverInv, LayoutInv

(* An object that was loaded from a file it had saved is no worse.         *)
THEOREM ReloadInvariance == ReloadSpec => []ReloadInv
BY ReloadInitially, ReloadStepwise, PTL DEF ReloadSpec

(* The loops of save() index segments and sections that exist, whatever    *)
(* the tables, and every offset they compute is a word.                    *)
THEOREM ReloadTypeCorrect == ReloadSpec => []LayoutTypeOK
<1>1. ReloadInv => LayoutTypeOK
  BY DEF ReloadInv
<1> QED
  BY <1>1, ReloadInvariance, PTL

(* No two sections share bytes of the file, none lies over the headers,    *)
(* also when an object that was loaded is laid out.                        *)
THEOREM ReloadDisjoint == ReloadSpec => []Disjoint
<1>1. ReloadInv => Disjoint
  BY DEF ReloadInv, ClearInv, ImageInv, CoverInv, LayoutInv, Disjoint,
         Laying
<1> QED
  BY <1>1, ReloadInvariance, PTL

(* Nor do segments lose bytes of their sections when the object was loaded *)
(* and the lists of sections are those that load() has worked out.         *)
THEOREM ReloadCovers == ReloadSpec => []SegmentsCover
<1>1. ReloadInv => SegmentsCover
  BY CoverSuffices DEF ReloadInv, ClearInv, ImageInv, SegmentsCover
<1> QED
  BY <1>1, ReloadInvariance, PTL

(* And what they map is where the loaded addresses say.                    *)
THEOREM ReloadMaps == ReloadSpec => []ImageMatches
<1>1. ReloadInv => ImageMatches
  BY ImageSuffices DEF ReloadInv, ClearInv, ImageMatches
<1> QED
  BY <1>1, ReloadInvariance, PTL

-----------------------------------------------------------------------------
(* The position does not move backwards.                                   *)

LEMMA VisitsMoveOn ==
  ASSUME LayoutTypeOK, LayoutTypeOK', OrderInv, [Next]_vars,
         pc = "sections", pc' = "sections"
  PROVE  \/ BeyondWord(Visited)
         \/ wrapped' /\ ~PlacedByAddress(Visited)
         \/ current_file_pos' >= current_file_pos
<1> DEFINE x == Visited
           pos == Position(x)
           n == InFileSize(x)
           c == current_file_pos
           s == seg_start_pos
<1>1. c \in Nat
  BY LayoutAssumption DEF LayoutTypeOK, Words
<1>2. current_file_pos' = current_file_pos \/ PlaceSection
  BY DEF Next, BeginSave, OrderStep, StartSegment, VisitNull, Abort,
         RevisitSection, EndSegment, EndSegments, SkipGenerated, PlaceRest,
         LayoutTable, Edit, vars, layoutVars
<1>3. SUFFICES ASSUME PlaceSection, ~BeyondWord(x),
                      ~(wrapped' /\ ~PlacedByAddress(x))
               PROVE  current_file_pos' >= current_file_pos
  BY <1>1, <1>2
<1>4. /\ AtSection /\ x \notin section_generated /\ ~TooLate(x)
      /\ current_file_pos' = Plus(pos, n)
      /\ wrapped' = (wrapped \/ c + Gap(x) >= Word \/ pos + n >= Word)
  BY <1>3 DEF PlaceSection
<1>5. /\ x \in DOMAIN sec /\ sec[x] \in Section
      /\ seg[Current] \in Segment(DOMAIN sec)
  BY <1>4, VisitedTyped
<1>6. /\ c \in Words /\ s \in Words /\ sec[x].size \in Words /\ n \in Words
      /\ Gap(x) \in Words /\ pos \in Words /\ Required(x, Current) \in Words
  <2>1. /\ c \in Words /\ s \in Words /\ 0 \in Words
        /\ sec[x].addr \in Words /\ sec[x].size \in Words
        /\ sec[x].align \in Words
        /\ seg[Current].vaddr \in Words
    <3>1. c \in Words /\ s \in Words
      BY DEF LayoutTypeOK
    <3>2. 0 \in Words
      BY LayoutAssumption DEF Words
    <3>3. /\ sec[x].addr \in Words /\ sec[x].size \in Words
          /\ sec[x].align \in Words
      BY <1>5 DEF Section
    <3>4. seg[Current].vaddr \in Words
      BY <1>5 DEF Segment
    <3> QED
      BY <3>1, <3>2, <3>3, <3>4
  <2>2. Required(x, Current) \in Words /\ Reached \in Words
    BY <2>1, PlusMinus DEF Required, Reached
  <2>3. Minus(Required(x, Current), Reached) \in Words
    BY <2>2, PlusMinus
  <2>4. PadTo(c, sec[x].align) \in Words
    BY <2>1, Padding
  <2>5. Gap(x) \in Words
    BY <1>4, <2>1, <2>3, <2>4 DEF Gap
  <2>6. n \in Words
    BY <2>1 DEF InFileSize
  <2> QED
    BY <2>1, <2>2, <2>5, <2>6, PlusMinus DEF Position
<1>7. /\ Word \in Nat /\ s \in Nat /\ sec[x].size \in Nat /\ n \in Nat
      /\ Gap(x) \in Nat /\ pos \in Nat /\ Required(x, Current) \in Nat
      /\ c < Word /\ s < Word /\ Required(x, Current) < Word
  BY <1>6, LayoutAssumption DEF Words
<1>8. CASE PlacedByAddress(x)
  <2> DEFINE r == Required(x, Current)
  <2>1. ~(r < Reached)
    BY <1>4, <1>8 DEF TooLate
  <2>2. s + r + sec[x].size < Word
    BY <1>3, <1>7, <1>8 DEF BeyondWord
  <2>3. n = sec[x].size
    BY <1>8 DEF PlacedByAddress, Occupies, InFileSize
  <2>4. Gap(x) = Minus(r, Reached)
    BY <1>8 DEF Gap
  <2>5. pos = Plus(c, Gap(x))
    BY DEF Position
  <2>6. Reached = IF s <= c THEN c - s ELSE c + Word - s
    BY DEF Reached, Minus
  <2> DEFINE w == Reached
             z == sec[x].size
  <2> HIDE DEF r, w, c, s, pos, n, z
  <2>7. s <= c /\ w = c - s
    BY <1>1, <1>7, <2>1, <2>2, <2>6 DEF w, r, z
  <2>8. Gap(x) = r - w
    BY <1>1, <1>7, <2>1, <2>4, <2>7 DEF Minus, w, r
  <2>9. pos = s + r
    BY <1>1, <1>7, <2>2, <2>5, <2>7, <2>8 DEF Plus, r, z
  <2>10. Plus(pos, n) = pos + n
    BY <1>7, <2>2, <2>3, <2>9 DEF Plus, z
  <2>11. pos >= c
    BY <1>1, <1>7, <2>1, <2>7, <2>9 DEF w, r
  <2> QED
    BY <1>1, <1>4, <1>7, <2>10, <2>11 DEF c
<1>9. CASE ~PlacedByAddress(x)
  <2>1. ~(c + Gap(x) >= Word) /\ ~(pos + n >= Word)
    BY <1>3, <1>4, <1>9, Zenon
  <2>2. c + Gap(x) < Word /\ pos + n < Word
    BY <1>1, <1>7, <2>1
  <2>3. pos = c + Gap(x)
    BY <1>6, <2>2, PlusMinus DEF Position
  <2>4. current_file_pos' = pos + n
    BY <1>4, <1>6, <2>2, PlusMinus
  <2> HIDE DEF c, pos, n
  <2> QED
    BY <1>1, <1>7, <2>3, <2>4 DEF c
<1> QED
  BY <1>8, <1>9

(* The layout never moves backwards over data it has placed, unless an     *)
(* address asks for a place beyond a word or padding leads to one.         *)
THEOREM LayoutMovesForward == Spec => NeverBackwards
<1> DEFINE Forward ==
      pc = "sections" /\ pc' = "sections" =>
        \/ BeyondWord(Visited)
        \/ wrapped' /\ ~PlacedByAddress(Visited)
        \/ current_file_pos' >= current_file_pos
<1>1. LayoutInv /\ LayoutInv' /\ [Next]_vars => [Forward]_vars
  BY VisitsMoveOn DEF LayoutInv
<1>2. Spec => [][Forward]_vars
  BY <1>1, LayoutInvariance, PTL DEF Spec
<1> QED
  BY <1>2 DEF NeverBackwards

(* Nor does the layout of an object that was loaded.                        *)
THEOREM ReloadMovesForward == ReloadSpec => NeverBackwards
<1> DEFINE Forward ==
      pc = "sections" /\ pc' = "sections" =>
        \/ BeyondWord(Visited)
        \/ wrapped' /\ ~PlacedByAddress(Visited)
        \/ current_file_pos' >= current_file_pos
<1>1. ReloadInv /\ ReloadInv' /\ [ReloadNext]_<<vars, reloadVars>>
        => [Forward]_vars
  <2> SUFFICES ASSUME ReloadInv, ReloadInv',
                      [ReloadNext]_<<vars, reloadVars>>,
                      pc = "sections", pc' = "sections"
               PROVE  Forward
    OBVIOUS
  <2>1. [Next]_vars
    BY DEF ReloadNext, Load
  <2>2. OrderInv /\ LayoutTypeOK /\ LayoutTypeOK'
    BY DEF ReloadInv, ClearInv, ImageInv, CoverInv, LayoutInv
  <2> QED
    BY <2>1, <2>2, VisitsMoveOn
<1>2. ReloadSpec => [][Forward]_vars
  BY <1>1, ReloadInvariance, PTL DEF ReloadSpec
<1> QED
  BY <1>2 DEF NeverBackwards

-----------------------------------------------------------------------------
(* The finished layout as validate() and load() see it                     *)

(* In a finished layout all positions are words, what they end at too.     *)
LEMMA DoneTyped ==
  ASSUME LayoutInv, pc = "done", ~wrapped
  PROVE  /\ Placed = {x \in DOMAIN sec : Occupies(x)}
         /\ current_file_pos < Word /\ current_file_pos \in Nat
         /\ \A x \in DOMAIN sec : Occupies(x) =>
              /\ 0 < Begin(x) /\ End(x) < Word
              /\ Plus(sec[x].offset, sec[x].size) = End(x)
<1>1. LayoutTypeOK /\ Word \in Nat /\ current_file_pos \in Words
  BY LayoutAssumption DEF LayoutInv, LayoutTypeOK
<1>2. Placed = {x \in DOMAIN sec : Occupies(x)}
  BY DEF Placed
<1>3. current_file_pos < Word /\ current_file_pos \in Nat
  BY <1>1 DEF Words
<1>4. ASSUME NEW x \in DOMAIN sec, Occupies(x)
      PROVE  /\ 0 < Begin(x) /\ End(x) < Word
             /\ Plus(sec[x].offset, sec[x].size) = End(x)
  <2>1. HeadersEnd(seg) <= Begin(x) /\ End(x) <= current_file_pos
    BY <1>2, <1>4 DEF LayoutInv, Disjoint, Laying
  <2>2. sec[x].offset \in Nat /\ sec[x].size \in Nat
    BY WordsAreNats
  <2>3. 0 < HeadersEnd(seg) /\ HeadersEnd(seg) \in Int
    <3> DEFINE rest == EntrySize * Len(seg)
    <3>1. Len(seg) \in Nat
      BY <1>1, TypedIsTable DEF LayoutTypeOK, IsTable
    <3>2. rest \in Nat
      BY <3>1, LayoutAssumption
    <3>3. HeadersEnd(seg) = HeaderSize + rest
      BY DEF HeadersEnd
    <3> HIDE DEF rest
    <3> QED
      BY <3>2, <3>3, LayoutAssumption
  <2>4. 0 < sec[x].offset /\ sec[x].offset + sec[x].size < Word
    BY <1>3, <1>1, <2>1, <2>2, <2>3 DEF Begin, End
  <2> QED
    BY <2>2, <2>4 DEF Plus, Begin, End
<1> QED
  BY <1>2, <1>3, <1>4

(* validate() compares first and last bytes: no two sections overlap.      *)
LEMMA NoOverlaps ==
  ASSUME LayoutInv, pc = "done", ~wrapped, NEW x \in DOMAIN sec,
         NEW y \in DOMAIN sec, x # y, InFile(x), InFile(y)
  PROVE  ~Overlap(sec[x], sec[y])
<1> SUFFICES ASSUME Overlap(sec[x], sec[y])
             PROVE  FALSE
  OBVIOUS
<1> DEFINE a == sec[x].offset
           m == sec[x].size
           b == sec[y].offset
           n == sec[y].size
<1>1. /\ a \in Nat /\ b \in Nat /\ m \in Nat /\ n \in Nat /\ Word \in Nat
  BY WordsAreNats, LayoutAssumption
<1>2. m > 0 /\ n > 0 /\ Occupies(x) /\ Occupies(y)
  BY <1>1 DEF Overlap, Occupies
<1>3. /\ Plus(a, m) = a + m /\ Plus(b, n) = b + n
      /\ a + m < Word /\ b + n < Word
      /\ a + m <= b \/ b + n <= a
  BY <1>2, DoneTyped DEF LayoutInv, Disjoint, Laying, Begin, End
<1> HIDE DEF a, b, m, n
<1>4. Minus(a + m, 1) = a + m - 1 /\ Minus(b + n, 1) = b + n - 1
  BY <1>1, <1>2 DEF Minus
<1>5. \/ b <= a /\ a < b + n
      \/ b <= a + m - 1 /\ a + m - 1 < b + n
      \/ a <= b /\ b < a + m
      \/ a <= b + n - 1 /\ b + n - 1 < a + m
  <2>1. LastByte(sec[x]) = a + m - 1 /\ LastByte(sec[y]) = b + n - 1
    BY <1>3, <1>4 DEF LastByte, a, b, m, n
  <2> QED
    BY <1>3, <2>1 DEF Overlap, OffsetIn, a, b, m, n
<1> QED
  BY <1>1, <1>2, <1>3, <1>5

(* The section that validate() finds at the start of a segment is one of   *)
(* the segment, and has its address.                                       *)
LEMMA NoConflicts ==
  ASSUME ClearInv, pc = "done", ~wrapped, NEW g \in SegIds, SharesNone(g)
  PROVE  ~Conflicting(g)
<1> SUFFICES ASSUME Conflicting(g)
             PROVE  FALSE
  OBVIOUS
<1> DEFINE off == seg[g].offset
           x == ProgSection(off)
<1>1. LayoutInv /\ LayoutTypeOK /\ Laying /\ ImageMatches /\ g \in Finished
  BY ImageSuffices, AllFinished DEF ClearInv, ImageInv
<1>2. KeptClear(g)
  BY <1>1 DEF ClearInv
<1>3. /\ seg[g].type = "LOAD" /\ seg[g].filesz > 0
      /\ ProgSections(off) # {}
      /\ VirtualAddress(off, sec[x]) # seg[g].vaddr
  BY DEF Conflicting
<1>4. Foremost(g)
  <2>1. seg[g].filesz # 0
    BY <1>1, <1>3, WordsAreNats
  <2>2. HasSections(g)
    BY <1>2, <1>3, <2>1 DEF KeptClear, BareIsEmpty
  <2> QED
    BY <2>2 DEF SharesNone
<1>5. x \in ProgSections(off)
  <2>1. ProgSections(off) \subseteq Nat
    BY <1>1, SectionsTyped DEF ProgSections
  <2>2. \E y \in ProgSections(off) : \A z \in ProgSections(off) : y <= z
    BY <1>3, <2>1, LeastElement
  <2> QED
    BY <2>2 DEF ProgSection
<1> HIDE DEF x
<1>6. /\ x \in DOMAIN sec /\ sec[x].type = "PROGBITS"
      /\ sec[x].offset <= off /\ off < Plus(sec[x].offset, sec[x].size)
  BY <1>5 DEF ProgSections, OffsetIn
<1>7. /\ sec[x].offset \in Nat /\ sec[x].size \in Nat /\ off \in Nat
      /\ sec[x].addr \in Words /\ sec[x].offset \in Words /\ off \in Words
      /\ seg[g].vaddr \in Words
  <2>1. sec[x] \in Section /\ seg[g] \in Segment(DOMAIN sec)
    BY <1>1, <1>6, SectionsTyped, TypedIsTable DEF LayoutTypeOK, SegIds
  <2> QED
    BY <1>1, <1>6, <2>1, WordsAreNats DEF Section, Segment
<1>8. sec[x].size # 0
  <2>1. ASSUME sec[x].size = 0
        PROVE  FALSE
    <3>1. Plus(sec[x].offset, sec[x].size) = sec[x].offset
      BY <1>7, <2>1, LayoutAssumption DEF Plus, Words
    <3> QED
      BY <1>6, <1>7, <3>1
  <2> QED
    BY <2>1
<1>9. Occupies(x) /\ x \in Placed
  BY <1>6, <1>8 DEF Occupies, InFile, Placed
<1>10. /\ 0 < sec[x].offset /\ sec[x].offset <= off
       /\ off < sec[x].offset + sec[x].size
  BY <1>1, <1>6, <1>9, DoneTyped DEF Begin, End
<1>11. x \in Members(seg[g].sections)
  <2>1. off # 0
    BY <1>7, <1>10
  <2> QED
    BY <1>2, <1>3, <1>4, <1>7, <1>9, <1>10, <2>1
       DEF KeptClear, Strangers, Begin, End
<1>12. Minus(sec[x].addr, seg[g].vaddr) = sec[x].offset - off
  BY <1>1, <1>4, <1>9, <1>11 DEF ImageMatches, Begin
<1> DEFINE a == sec[x].addr
           v == seg[g].vaddr
           o == sec[x].offset
<1>13. a \in Words /\ v \in Words /\ o \in Words /\ Word \in Nat
  BY <1>7, LayoutAssumption
<1> HIDE DEF off, a, v, o
<1>14. Minus(a, v) = o - off /\ o <= off /\ off \in Words
  BY <1>7, <1>10, <1>12 DEF a, v, o
<1>15. o = off /\ a = v
  BY <1>13, <1>14 DEF Minus, Words
<1>16. Minus(Plus(a, off), o) = v
  BY <1>13, <1>14, <1>15 DEF Minus, Plus, Words
<1> QED
  BY <1>3, <1>16 DEF VirtualAddress, a, v, o

LEMMA ValidSuffices == ClearInv => SavedIsValid
<1> SUFFICES ASSUME ClearInv, pc = "done", ~wrapped
             PROVE  /\ \A x, y \in DOMAIN sec :
                         x < y /\ InFile(x) /\ InFile(y)
                           => ~Overlap(sec[x], sec[y])
                    /\ \A g \in SegIds : SharesNone(g) => ~Conflicting(g)
  BY DEF SavedIsValid
<1>1. LayoutInv /\ DOMAIN sec \subseteq Nat
  BY SectionsTyped DEF ClearInv, ImageInv, CoverInv, LayoutInv
<1>2. \A x, y \in DOMAIN sec : x < y => x # y
  BY <1>1
<1> QED
  BY <1>1, <1>2, NoOverlaps, NoConflicts

(* is_sect_in_seg() in terms of where things end: an extent that wraps     *)
(* around holds nothing.                                                   *)
LEMMA InsideExtent ==
  ASSUME NEW b \in Words, NEW n \in Words, NEW from \in Words,
         NEW len \in Words, b + n < Word, n # 0
  PROVE  /\ from <= b /\ b + n <= from + len /\ from + len < Word
              => IsInside(b, n, from, Plus(from, len))
         /\ IsInside(b, n, from, Plus(from, len))
              => from <= b /\ b + n <= from + len
<1>1. b \in Nat /\ n \in Nat /\ from \in Nat /\ len \in Nat /\ Word \in Nat
      /\ len < Word /\ n > 0
  BY LayoutAssumption DEF Words
<1>2. Plus(b, n) = b + n
  BY <1>1 DEF Plus
<1>3. CASE from + len < Word
  <2>1. Plus(from, len) = from + len
    BY <1>3 DEF Plus
  <2>2. IsInside(b, n, from, Plus(from, len)) <=>
          from <= b /\ b + n <= from + len /\ b < from + len
    BY <1>2, <2>1 DEF IsInside
  <2> QED
    BY <1>1, <2>2
<1>4. CASE ~(from + len < Word)
  <2>1. Plus(from, len) = from + len - Word
    BY <1>4 DEF Plus
  <2>2. ~IsInside(b, n, from, Plus(from, len))
    BY <1>1, <2>1 DEF IsInside
  <2> QED
    BY <1>4, <2>2
<1> QED
  BY <1>3, <1>4

(* Where the contents of a section of a loadable segment are, in the file  *)
(* and in memory                                                           *)
LEMMA MemberExtents ==
  ASSUME ClearInv, pc = "done", ~wrapped, NEW h \in SegIds, Loadable(h),
         NEW x \in Members(seg[h].sections), Occupies(x)
  PROVE  /\ seg[h].offset <= sec[x].offset
         /\ sec[x].offset + sec[x].size <= seg[h].offset + seg[h].filesz
         /\ seg[h].offset + seg[h].filesz < Word
         /\ seg[h].vaddr <= sec[x].addr
         /\ sec[x].addr + sec[x].size <= seg[h].vaddr + seg[h].memsz
<1>1. /\ LayoutInv /\ LayoutTypeOK /\ Laying /\ h \in Finished
      /\ ImageMatches /\ SegmentsCover
  BY ImageSuffices, CoverSuffices, AllFinished DEF ClearInv, ImageInv
<1>2. /\ Foremost(h) /\ NobitsLast(h) /\ InOrder(h)
      /\ seg[h].filesz <= seg[h].memsz /\ seg[h].vaddr + seg[h].memsz < Word
  BY DEF Loadable
<1>3. FileEnd(h) <= current_file_pos
  BY <1>1, <1>2 DEF ClearInv, KeptClear
<1>4. Covers(h)
  <2>1. AllOrNone(h)
    BY <1>2 DEF Foremost, AllOrNone
  <2> QED
    BY <1>1, <1>2, <2>1 DEF SegmentsCover
<1>5. x \in DOMAIN sec
  BY <1>1, ListTyped
<1> DEFINE o == sec[x].offset
           n == sec[x].size
           a == sec[x].addr
           p == seg[h].offset
           f == seg[h].filesz
           v == seg[h].vaddr
           m == seg[h].memsz
<1>6. /\ o \in Nat /\ n \in Nat /\ a \in Nat /\ p \in Nat /\ f \in Nat
      /\ v \in Nat /\ m \in Nat /\ Word \in Nat /\ current_file_pos \in Nat
      /\ current_file_pos < Word
  BY <1>1, <1>5, WordsAreNats, DoneTyped, LayoutAssumption
<1>7. p <= o /\ o + n <= p + f
  BY <1>4 DEF Covers, FileEnd, Begin, End
<1>8. Minus(a, v) = o - p
  BY <1>1, <1>2 DEF ImageMatches, Begin
<1>9. p + f <= current_file_pos /\ f <= m /\ v + m < Word
  BY <1>2, <1>3 DEF FileEnd
<1> HIDE DEF o, n, a, p, f, v, m
<1>10. v <= a /\ a - v = o - p
  BY <1>6, <1>7, <1>8, <1>9 DEF Minus
<1>11. p + f < Word /\ a + n <= v + m
  BY <1>6, <1>7, <1>9, <1>10
<1> QED
  BY <1>7, <1>10, <1>11 DEF o, n, a, p, f, v, m

LEMMA FoundSuffices == ClearInv => MembersFound
<1> SUFFICES ASSUME ClearInv, pc = "done", ~wrapped,
                    NEW h \in SegIds, Loadable(h),
                    NEW x \in Members(seg[h].sections), Occupies(x)
             PROVE  /\ SameKind(sec[x], seg[h]) => x \in FoundIn(sec, seg[h])
                    /\ \A g \in SegIds :
                         Apart(g, h) => x \notin FoundIn(sec, seg[g])
  BY DEF MembersFound
<1>1. LayoutInv /\ LayoutTypeOK
  BY DEF ClearInv, ImageInv, CoverInv, LayoutInv
<1>2. x \in DOMAIN sec
  BY <1>1, ListTyped
<1>3. /\ sec[x].offset \in Words /\ sec[x].size \in Words
      /\ sec[x].addr \in Words
      /\ \A g \in SegIds : /\ seg[g].offset \in Words /\ seg[g].filesz \in Words
                           /\ seg[g].vaddr \in Words /\ seg[g].memsz \in Words
  <2>1. /\ sec[x] \in Section
        /\ \A g \in SegIds : seg[g] \in Segment(DOMAIN sec)
    BY <1>1, <1>2, SectionsTyped, TypedIsTable DEF LayoutTypeOK, SegIds
  <2> QED
    BY <2>1 DEF Section, Segment
<1>4. \A w \in Words : w \in Nat /\ w < Word
  BY LayoutAssumption DEF Words
<1>5. /\ seg[h].offset <= sec[x].offset
      /\ sec[x].offset + sec[x].size <= seg[h].offset + seg[h].filesz
      /\ seg[h].offset + seg[h].filesz < Word
      /\ seg[h].vaddr <= sec[x].addr
      /\ sec[x].addr + sec[x].size <= seg[h].vaddr + seg[h].memsz
      /\ seg[h].vaddr + seg[h].memsz < Word
  BY MemberExtents DEF Loadable
<1>6. /\ sec[x].offset + sec[x].size < Word
      /\ sec[x].addr + sec[x].size < Word
      /\ sec[x].size # 0 /\ Word \in Nat
  BY <1>3, <1>4, <1>5, LayoutAssumption DEF Occupies
<1>7. ASSUME SameKind(sec[x], seg[h])
      PROVE  x \in FoundIn(sec, seg[h])
  <2>1. Covered(sec[x], seg[h])
    <3>1. IsInside(sec[x].addr, sec[x].size, seg[h].vaddr,
                   Plus(seg[h].vaddr, seg[h].memsz))
      BY <1>3, <1>5, <1>6, InsideExtent
    <3>2. IsInside(sec[x].offset, sec[x].size, seg[h].offset,
                   Plus(seg[h].offset, seg[h].filesz))
      BY <1>3, <1>5, <1>6, InsideExtent
    <3> QED
      BY <3>1, <3>2 DEF Covered
  <2> QED
    BY <1>2, <1>7, <2>1 DEF FoundIn
<1>8. ASSUME NEW g \in SegIds, Apart(g, h), x \in FoundIn(sec, seg[g])
      PROVE  FALSE
  <2>1. Covered(sec[x], seg[g])
    BY <1>8 DEF FoundIn
  <2>2. /\ \/ seg[g].vaddr + seg[g].memsz <= seg[h].vaddr
           \/ seg[h].vaddr + seg[h].memsz <= seg[g].vaddr
        /\ \/ seg[g].offset + seg[g].filesz <= seg[h].offset
           \/ seg[h].offset + seg[h].filesz <= seg[g].offset
    BY <1>8 DEF Apart, Beside
  <2>3. CASE sec[x].alloc
    <3>1. /\ seg[g].vaddr <= sec[x].addr
          /\ sec[x].addr + sec[x].size <= seg[g].vaddr + seg[g].memsz
      <4>1. IsInside(sec[x].addr, sec[x].size, seg[g].vaddr,
                     Plus(seg[g].vaddr, seg[g].memsz))
        BY <2>1, <2>3 DEF Covered
      <4> QED
        BY <1>3, <1>6, <4>1, InsideExtent
    <3> QED
      BY <1>3, <1>4, <1>5, <1>6, <2>2, <3>1
  <2>4. CASE ~sec[x].alloc
    <3>1. /\ seg[g].offset <= sec[x].offset
          /\ sec[x].offset + sec[x].size <= seg[g].offset + seg[g].filesz
      <4>1. IsInside(sec[x].offset, sec[x].size, seg[g].offset,
                     Plus(seg[g].offset, seg[g].filesz))
        BY <2>1, <2>4 DEF Covered
      <4> QED
        BY <1>3, <1>6, <4>1, InsideExtent
    <3> QED
      BY <1>3, <1>4, <1>5, <1>6, <2>2, <3>1
  <2> QED
    BY <2>3, <2>4
<1> QED
  BY <1>7, <1>8

(* validate() finds neither two sections that share bytes nor, at the      *)
(* start of a segment whose sections were placed with it, one whose        *)
(* address is not the segment's, also when an object that was loaded or    *)
(* resized is laid out.                                                    *)
THEOREM ReloadValid == ReloadSpec => []SavedIsValid
<1>1. ReloadInv => SavedIsValid
  BY ValidSuffices DEF ReloadInv, SavedIsValid
<1> QED
  BY <1>1, ReloadInvariance, PTL

(* And load() finds the sections of a segment again, of a kind with it, in *)
(* it and in no segment apart from it.                                     *)
THEOREM ReloadFinds == ReloadSpec => []MembersFound
<1>1. ReloadInv => MembersFound
  BY FoundSuffices DEF ReloadInv, MembersFound
<1> QED
  BY <1>1, ReloadInvariance, PTL

=============================================================================
