-------------------------- MODULE MCSegmentOrder --------------------------
(* Tables of up to four segments over three sections.  Loaded segments,    *)
(* whose offset is set, come before the ones a client has added.           *)
EXTENDS SegmentOrder

Row(sections, offset, set) ==
  [sections |-> sections, offset |-> offset, offset_set |-> set]

AnyRow(lists) ==
  {Row(l, 0, TRUE) : l \in lists} \cup {Row(l, 64, TRUE) : l \in lists}
    \cup {Row(l, 0, FALSE) : l \in lists}

LoadedFirst(t) ==
  \A a, b \in DOMAIN t : a < b /\ t[b].offset_set => t[a].offset_set

Tables(n, lists) == {t \in [1..n -> AnyRow(lists)] : LoadedFirst(t)}

Nested == {<<>>, <<2>>, <<1, 2>>, <<2, 3>>, <<1, 2, 3>>}
Chain == {<<2>>, <<2, 3>>, <<1, 2, 3>>}

SortedTables ==
  UNION {Tables(n, Nested) : n \in 0..3} \cup Tables(4, Chain)

(* A segment whose sections are listed in the order of their offsets, not  *)
(* of their numbers                                                        *)
UnsortedTables == Tables(2, {<<2>>, <<1, 2>>, <<3, 2>>})
=============================================================================
