---------------------------- MODULE SegmentOrder ----------------------------
(***************************************************************************)
(* elfio::get_ordered_segments() of elfio/elfio.hpp: the order in which    *)
(* save() lays the segments out.  Segments that start at offset 0 are      *)
(* swapped to the front of a work list; then the list is emptied from its  *)
(* front, a segment going back to the end while the list holds another one *)
(* that contains it.  Counters of the section numbers in the list spare    *)
(* most of the containment tests, and the order depends on them.           *)
(***************************************************************************)
EXTENDS Integers, Sequences, FiniteSets

CONSTANT SegTables   \* the segment tables to order

(* All the order depends on is how many sections a segment has, and which. *)
IsTable(t) ==
  /\ Len(t) \in Nat
  /\ \A g \in 1..Len(t) : Len(t[g].sections) \in Nat

ASSUME SegTablesAssumption == \A t \in SegTables : IsTable(t)

VARIABLES
  seg,               \* the segment table: sections, offset, offset_set
  phase,             \* "front", "queue" or "ordered"
  worklist,          \* the segments (their numbers) still to be ordered
  sectionCountFrequency,
  maxSectionCount,
  i, nextSlot,       \* the two indexes, from 0, of the swapping loop
  res                \* the result

orderVars == <<phase, worklist, sectionCountFrequency, maxSectionCount, i,
               nextSlot, res>>

-----------------------------------------------------------------------------
SegIds == 1..Len(seg)
SectionCount(g) == Len(seg[g].sections)

Maximum(S) == CHOOSE m \in S : \A k \in S : k <= m

(* std::includes() over section lists: one pass over both, which finds     *)
(* every element of `small` in `big` if both are sorted.                   *)
Includes(big, small) ==
  LET scan[b \in 1..Len(big) + 1, s \in 1..Len(small) + 1] ==
        IF s > Len(small) THEN TRUE
        ELSE IF b > Len(big) \/ small[s] < big[b] THEN FALSE
        ELSE IF big[b] < small[s] THEN scan[b + 1, s]
        ELSE scan[b + 1, s + 1]
  IN scan[1, 1]

(* is_subsequence_of()                                                     *)
IsSubsequence(s, t) == Len(s) < Len(t) /\ Includes(t, s)

Contained(g, h) == IsSubsequence(seg[g].sections, seg[h].sections)

StartsAtZero(g) == seg[g].offset_set /\ seg[g].offset = 0

Swapped_OneWay(a, b) == [worklist EXCEPT ![a + 1] = worklist[b + 1]]

Swapped(a, b) ==
  [worklist EXCEPT ![a + 1] = worklist[b + 1], ![b + 1] = worklist[a + 1]]

-----------------------------------------------------------------------------
(* The lines before the loops, on a segment table t                        *)
AllSegments(t) == [g \in 1..Len(t) |-> g]

GreatestCount(t) == Maximum({0} \cup {Len(t[g].sections) : g \in 1..Len(t)})

CountSegments(t) ==
  [c \in 0..GreatestCount(t) |->
     Cardinality({g \in 1..Len(t) : Len(t[g].sections) = c})]

OrderInit ==
  /\ phase = "front"
  /\ worklist = AllSegments(seg)
  /\ maxSectionCount = GreatestCount(seg)
  /\ sectionCountFrequency = CountSegments(seg)
  /\ i = 0 /\ nextSlot = 0
  /\ res = <<>>

(* One pass of the loop that brings segments at offset 0 to the front      *)
FrontStep ==
  /\ phase = "front" /\ i < Len(worklist)
  /\ IF i # nextSlot /\ StartsAtZero(worklist[i + 1])
       THEN LET slot == IF seg[worklist[nextSlot + 1]].offset = 0
                          THEN nextSlot + 1 ELSE nextSlot
            IN worklist' = Swapped(i, slot) /\ nextSlot' = slot + 1
       ELSE UNCHANGED <<worklist, nextSlot>>
  /\ i' = i + 1
  /\ UNCHANGED <<phase, sectionCountFrequency, maxSectionCount, res>>

FrontDone ==
  /\ phase = "front" /\ i = Len(worklist)
  /\ phase' = "queue"
  /\ UNCHANGED <<worklist, sectionCountFrequency, maxSectionCount, i,
                 nextSlot, res>>

(* The counters once g has left the list, and the maximum the inner while  *)
(* loop finds from them                                                    *)
FrequencyWithout(g) ==
  [sectionCountFrequency EXCEPT ![SectionCount(g)] = @ - 1]

MaxWithout_NoFloor(g) ==
  Maximum({-1} \cup {c \in 0..maxSectionCount : FrequencyWithout(g)[c] # 0})

MaxWithout_TooLow(g) ==
  Maximum({0} \cup {c \in 0..maxSectionCount - 1 : FrequencyWithout(g)[c] # 0})

MaxWithout(g) ==
  Maximum({0} \cup {c \in 0..maxSectionCount : FrequencyWithout(g)[c] # 0})

(* The segment that has to wait: the list still holds one around it        *)
MustWait(g, rest) ==
  /\ SectionCount(g) < MaxWithout(g)
  /\ \E k \in DOMAIN rest : Contained(g, rest[k])

Requeue_Uncounted ==
  /\ phase = "queue" /\ worklist # <<>>
  /\ LET g == Head(worklist) IN
       /\ MustWait(g, Tail(worklist))
       /\ worklist' = Append(Tail(worklist), g)
       /\ sectionCountFrequency' = FrequencyWithout(g)
       /\ maxSectionCount' = MaxWithout(g)
  /\ UNCHANGED <<phase, i, nextSlot, res>>

Requeue_AtFront ==
  /\ phase = "queue" /\ worklist # <<>>
  /\ LET g == Head(worklist) IN
       /\ MustWait(g, Tail(worklist))
       /\ worklist' = <<g>> \o Tail(worklist)
       /\ maxSectionCount' = MaxWithout(g)
  /\ UNCHANGED <<phase, sectionCountFrequency, i, nextSlot, res>>

(* One pass of the main loop that puts the first segment back              *)
Requeue ==
  /\ phase = "queue" /\ worklist # <<>>
  /\ LET g == Head(worklist) IN
       /\ MustWait(g, Tail(worklist))
       /\ worklist' = Append(Tail(worklist), g)
       /\ maxSectionCount' = MaxWithout(g)
  /\ UNCHANGED <<phase, sectionCountFrequency, i, nextSlot, res>>

(* One pass that takes it                                                  *)
Take ==
  /\ phase = "queue" /\ worklist # <<>>
  /\ LET g == Head(worklist) IN
       /\ ~MustWait(g, Tail(worklist))
       /\ worklist' = Tail(worklist)
       /\ res' = Append(res, g)
       /\ sectionCountFrequency' = FrequencyWithout(g)
       /\ maxSectionCount' = MaxWithout(g)
  /\ UNCHANGED <<phase, i, nextSlot>>

QueueDone ==
  /\ phase = "queue" /\ worklist = <<>>
  /\ phase' = "ordered"
  /\ UNCHANGED <<worklist, sectionCountFrequency, maxSectionCount, i,
                 nextSlot, res>>

OrderNext == FrontStep \/ FrontDone \/ Requeue \/ Take \/ QueueDone

(* The function on its own, for any table.  It runs to its end: no step of *)
(* it waits for anything.                                                  *)
OrderSpec ==
  /\ seg \in SegTables /\ OrderInit
  /\ [][OrderNext /\ UNCHANGED seg]_<<seg, orderVars>>
  /\ WF_<<seg, orderVars>>(OrderNext /\ UNCHANGED seg)

-----------------------------------------------------------------------------
(* Properties                                                              *)

Members(s) == {s[k] : k \in DOMAIN s}

(* The swapping loop never indexes outside the list, the counter array has *)
(* a cell for every number that indexes it, and lists hold segments only.  *)
OrderTypeOK ==
  /\ phase \in {"front", "queue", "ordered"}
  /\ worklist \in Seq(SegIds) /\ res \in Seq(SegIds)
  /\ i \in 0..Len(seg) /\ nextSlot \in 0..i
  /\ phase = "front" => Len(worklist) = Len(seg)
  /\ maxSectionCount \in 0..GreatestCount(seg)
  /\ sectionCountFrequency \in [0..GreatestCount(seg) -> Int]

(* Whatever is swapped, taken or put back, every segment is in the work    *)
(* list or in the result, once, and in the end in the result: save() lays  *)
(* out all of them, none twice.                                            *)
Once(s) == \A a, b \in DOMAIN s : s[a] = s[b] => a = b

EachSegmentOnce ==
  /\ Members(worklist) \cup Members(res) = SegIds
  /\ Members(worklist) \cap Members(res) = {}
  /\ Once(worklist) /\ Once(res)
  /\ phase = "ordered" => Members(res) = SegIds

(* The counters agree with the list, so no section number in the list is   *)
(* above the maximum and skipping the containment test is justified.       *)
CountsExact ==
  /\ \A c \in DOMAIN sectionCountFrequency :
        sectionCountFrequency[c] =
          Cardinality({g \in Members(worklist) : SectionCount(g) = c})
  /\ \A g \in Members(worklist) : SectionCount(g) <= maxSectionCount

(* elfio.hpp:892: a segment that contains a subsequence of the sections of *)
(* another one is located behind it.                                       *)
(* Inside: the sections of g are some, not all, of those of h.             *)
Inside(g, h) ==
  /\ Members(seg[g].sections) \subseteq Members(seg[h].sections)
  /\ Len(seg[g].sections) < Len(seg[h].sections)

OuterFirst ==
  \A p \in DOMAIN res : \A h \in Members(worklist) \cup
                                  {res[q] : q \in p + 1..Len(res)} :
     ~Inside(res[p], h)

(* The same in terms of the test the code makes                            *)
ContainersFirst ==
  \A p \in DOMAIN res :
     /\ \A h \in Members(worklist) : ~Contained(res[p], h)
     /\ \A q \in p + 1..Len(res) : ~Contained(res[p], res[q])

(* No chain of segments waiting for one another keeps the loop busy for    *)
(* ever: the order is found.                                               *)
Ordered == <>(phase = "ordered")
=============================================================================
