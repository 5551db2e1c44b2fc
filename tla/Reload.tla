------------------------------- MODULE Reload -------------------------------
(***************************************************************************)
(* What becomes of a layout once it is a file: elfio::validate() on it,    *)
(* and elfio::load(), which works out from addresses and offsets alone     *)
(* which sections each segment has.  The loaded object is laid out and     *)
(* saved again, by the same code as the one it came from.                  *)
(***************************************************************************)
EXTENDS Layout

VARIABLES
  file,       \* the section and segment tables last saved, or <<>>
  untouched   \* the object is what was loaded from that file

reloadVars == <<file, untouched>>

-----------------------------------------------------------------------------
(* validate()                                                              *)

OffsetIn(off, s) == s.offset <= off /\ off < Plus(s.offset, s.size)

LastByte_Behind(s) == Plus(s.offset, s.size)

LastByte(s) == Minus(Plus(s.offset, s.size), 1)

Overlap(a, b) ==
  /\ {a.type, b.type} \cap {"NOBITS"} = {}
  /\ a.size > 0 /\ b.size > 0 /\ a.offset > 0 /\ b.offset > 0
  /\ \/ OffsetIn(a.offset, b) \/ OffsetIn(LastByte(a), b)
     \/ OffsetIn(b.offset, a) \/ OffsetIn(LastByte(b), a)

(* find_prog_section_for_offset(): the sections it may find, the first of  *)
(* them being the one it takes                                             *)
ProgSections(off) ==
  {x \in DOMAIN sec : sec[x].type = "PROGBITS" /\ OffsetIn(off, sec[x])}

ProgSection(off) ==
  CHOOSE x \in ProgSections(off) : \A y \in ProgSections(off) : x <= y

VirtualAddress(off, s) == Minus(Plus(s.addr, off), s.offset)

Conflicting(g) ==
  /\ seg[g].type = "LOAD" /\ seg[g].filesz > 0
  /\ ProgSections(seg[g].offset) # {}
  /\ VirtualAddress(seg[g].offset, sec[ProgSection(seg[g].offset)])
       # seg[g].vaddr

-----------------------------------------------------------------------------
(* load_segments(): the sections that belong to segment g, from the tables *)

IsInside_Less(begin, size, from, to) ==
  from <= begin /\ Plus(begin, size) < to /\ begin < to

(* is_sect_in_seg(): an empty section at the very end is outside.          *)
IsInside(begin, size, from, to) ==
  from <= begin /\ Plus(begin, size) <= to /\ begin < to

Covered(s, g) ==
  IF s.alloc
    THEN IsInside(s.addr, s.size, g.vaddr, Plus(g.vaddr, g.memsz))
    ELSE IsInside(s.offset, s.size, g.offset, Plus(g.offset, g.filesz))

(* "If it is a TLS segment, add TLS sections only and vice versa"          *)
SameKind(s, g) == (g.type = "TLS") <=> s.tls

FoundIn(secs, g) ==
  {x \in DOMAIN secs : Covered(secs[x], g) /\ SameKind(secs[x], g)}

(* sort_sections(): std::sort() leaves open the order of equal offsets.    *)
Sorted(secs, X) ==
  {q \in [1..Cardinality(X) -> X] :
     \A m, n \in DOMAIN q :
       m < n => q[m] # q[n] /\ secs[q[m]].offset <= secs[q[n]].offset}

(* ... but it does the same to equal lists.                                *)
Sortings(secs, sets) ==
  {order \in [sets -> UNION {Sorted(secs, X) : X \in sets}] :
     \A X \in sets : order[X] \in Sorted(secs, X)}

(* The tables of the object that is loaded from a file                     *)
LoadedSections_MayMove(f) ==
  [x \in DOMAIN f.sec |-> [f.sec[x] EXCEPT !.addr_set = FALSE]]

LoadedSections(f) ==
  [x \in DOMAIN f.sec |-> [f.sec[x] EXCEPT !.addr_set = TRUE]]

LoadedSegments(f) ==
  LET found(g) == FoundIn(f.sec, f.seg[g])
  IN {[g \in DOMAIN f.seg |->
         [f.seg[g] EXCEPT !.sections = order[found(g)], !.offset_set = TRUE]] :
        order \in Sortings(f.sec, {found(g) : g \in DOMAIN f.seg})}

-----------------------------------------------------------------------------
ReloadInit == Init /\ file = <<>> /\ untouched = FALSE

(* What save() does once the layout is complete: both tables are written.  *)
Written ==
  IF pc' = "done" /\ pc # "done" THEN [sec |-> sec', seg |-> seg'] ELSE file

(* The client makes an object of the file and will save it again.          *)
Load ==
  /\ pc \in {"done", "failed"} /\ saves < MaxSaves /\ file # <<>>
  /\ pc' = "idle"
  /\ sec' = LoadedSections(file)
  /\ seg' \in LoadedSegments(file)
  /\ untouched' = TRUE
  /\ UNCHANGED <<orderVars, saves, current_file_pos, section_generated, k, j,
                 segmentVars, sections_offset, wrapped, file>>

ReloadNext ==
  \/ /\ Next /\ file' = Written
     /\ untouched' = (untouched /\ pc \notin {"done", "failed"})
  \/ Load

ReloadSpec == ReloadInit /\ [][ReloadNext]_<<vars, reloadVars>>

-----------------------------------------------------------------------------
(* Properties                                                              *)

Finishes == pc # "done" /\ pc' = "done"

(* No two sections of the file share an offset: std::sort() may put an     *)
(* empty section behind the one that starts where it lies.                 *)
Untied ==
  \A x, y \in DOMAIN file.sec : x # y => file.sec[x].offset # file.sec[y].offset

(* elfio.hpp:353: validate() finds no problem in what save() has laid out, *)
(* of a new object, a resized one or one that was loaded: neither sections *)
(* that overlap nor, at the offset of a loadable segment, one with another *)
(* address.  (Of a segment whose sections an earlier one has placed, the   *)
(* client chooses the address but not the offset.)                         *)
SharesNone(g) == HasSections(g) => Foremost(g)

SavedIsValid ==
  pc = "done" /\ ~wrapped =>
    /\ \A x, y \in DOMAIN sec :
         x < y /\ InFile(x) /\ InFile(y) => ~Overlap(sec[x], sec[y])
    /\ \A g \in SegIds : SharesNone(g) => ~Conflicting(g)

(* A segment that is mapped as it lies in the file: its memory holds its   *)
(* file contents and ends within a word, and its sections are listed as    *)
(* they lie, those without contents last.                                  *)
Loadable(g) ==
  /\ seg[g].filesz <= seg[g].memsz
  /\ seg[g].vaddr + seg[g].memsz < Word
  /\ Foremost(g) /\ NobitsLast(g) /\ InOrder(g)

Beside(a, m, b, n) == a + m <= b \/ b + n <= a

(* Segments that share neither memory nor bytes of the file                *)
Apart(g, h) ==
  /\ Beside(seg[g].vaddr, seg[g].memsz, seg[h].vaddr, seg[h].memsz)
  /\ Beside(seg[g].offset, seg[g].filesz, seg[h].offset, seg[h].filesz)

(* load() finds the sections of a saved segment again, by their addresses  *)
(* or offsets, save for those it leaves out by kind; and it puts them into *)
(* no segment that lies apart.                                             *)
MembersFound ==
  pc = "done" /\ ~wrapped =>
    \A h \in SegIds : Loadable(h) =>
      \A x \in Members(seg[h].sections) : Occupies(x) =>
        /\ SameKind(sec[x], seg[h]) => x \in FoundIn(sec, seg[h])
        /\ \A g \in SegIds : Apart(g, h) => x \notin FoundIn(sec, seg[g])

SizesKept ==
  \A g \in SegIds :
    seg'[g].filesz = file.seg[g].filesz /\ seg'[g].memsz = file.seg[g].memsz

(* load() has put the sections X(g) into each segment g, save for the null *)
(* section, and nothing has changed them since.                            *)
Refound(X(_)) ==
  untouched /\ Untied /\ \A g \in SegIds : Members(seg[g].sections) \ {0} = X(g)

Original(g) == Members(file.seg[g].sections) \ {0}

(* An empty section with an address is given the position as its offset,   *)
(* and the padding that went before it on the first save is gone.          *)
NoneEmpty(X(_)) ==
  \A g \in SegIds : \A x \in X(g) : InFile(x) => file.sec[x].size # 0

(* A file that is loaded and saved again has the same image, if load()     *)
(* has found the sections of each segment and none of them is empty: the   *)
(* segments keep their sizes, and their sections with contents are where   *)
(* they were in them.                                                      *)
ResaveKeeps ==
  [][Finishes /\ Refound(Original) /\ NoneEmpty(Original) =>
       /\ SizesKept
       /\ \A g \in SegIds : \A x \in Original(g) :
            Occupies(x) => sec'[x].offset - seg'[g].offset
                             = file.sec[x].offset - file.seg[g].offset
    ]_<<vars, reloadVars>>

(* ELFIOTest.cpp:1204-1235: the sizes of the segments of a file with       *)
(* thread-local sections are checked before it is saved and loaded again,  *)
(* and then once more ("Comment out the assertion. The question is - how   *)
(* the original segment size was calculated").                             *)
OfItsKind(g) == {x \in Original(g) : SameKind(file.sec[x], file.seg[g])}

ResaveKeepsThreadLocals ==
  [][Finishes /\ Refound(OfItsKind) => SizesKept]_<<vars, reloadVars>>
=============================================================================
