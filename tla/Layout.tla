------------------------------- MODULE Layout -------------------------------
(***************************************************************************)
(* elfio::save() of elfio/elfio.hpp up to the point where bytes are        *)
(* written: the file offset of every section and segment, and of the       *)
(* section header table.  The segments are ordered (SegmentOrder), then    *)
(* laid out one by one with their sections, then the sections outside all  *)
(* segments, then the table.  The object survives the save: a client may   *)
(* resize sections and save again, over what the previous layout left.     *)
(* Positions are 64-bit words and wrap around at Word.                     *)
(***************************************************************************)
EXTENDS SegmentOrder

CONSTANTS
  SecTables(_), \* the section tables, functions from 0..n to sections, that
                \* go with a segment table
  HeaderSize,   \* e_ehsize
  EntrySize,    \* e_phentsize
  TableAlign,   \* alignment of the section header table: 16
  Word,         \* 2^64
  Sizes,        \* the sizes a client may give a section between two saves
  MaxSaves      \* bound on the number of saves of one object

Words == 0..Word - 1

HeadersEnd(t) == HeaderSize + EntrySize * Len(t)

(* What the layout reads and writes of a section and of a segment          *)
Section ==
  [type : {"NULL", "PROGBITS", "NOBITS"}, size : Words, align : Words,
   addr : Words, addr_set : BOOLEAN, alloc : BOOLEAN, tls : BOOLEAN,
   offset : Words]

Segment(S) ==
  [type : {"PHDR", "LOAD", "TLS", "NOTE", "RELRO"}, sections : Seq(S),
   vaddr : Words, align : Words, offset : Words, offset_set : BOOLEAN,
   memsz : Words, filesz : Words]

(* The first section is the null section, as in every well-formed object.  *)
IsSections(s) ==
  /\ LET last == Cardinality(DOMAIN s) - 1
     IN last \in Nat /\ s \in [0..last -> Section]
  /\ s[0].type = "NULL"

IsSegments(t, S) == t \in Seq(Segment(S))

ASSUME LayoutAssumption ==
  /\ HeaderSize \in Nat \ {0} /\ EntrySize \in Nat /\ Word \in Nat
  /\ TableAlign \in 1..Word - 1
  /\ Sizes \subseteq Words
  /\ \A t \in SegTables :
        /\ HeadersEnd(t) < Word
        /\ \A s \in SecTables(t) : IsSections(s) /\ IsSegments(t, DOMAIN s)

VARIABLES
  sec,                 \* the sections
  pc,                  \* where save() is
  saves,               \* the number of saves begun
  current_file_pos,
  section_generated,   \* the sections already laid out with a segment
  k,                   \* the number of segments of `res` laid out
  j,                   \* the loop index over sections, in both section loops
  seg_start_pos, segment_memory, segment_filesize,
  sections_offset,     \* e_shoff
  wrapped              \* ghost: current_file_pos exceeded a word

segmentVars == <<seg_start_pos, segment_memory, segment_filesize>>
layoutVars == <<sec, pc, saves, current_file_pos, section_generated, k, j,
                segmentVars, sections_offset, wrapped>>
vars == <<seg, orderVars, layoutVars>>

-----------------------------------------------------------------------------
(* Arithmetic of unsigned words                                            *)

Plus(a, b) == IF a + b < Word THEN a + b ELSE a + b - Word
Minus(a, b) == IF b <= a THEN a - b ELSE a + Word - b

(* From pos to the next multiple of align; 0 and 1 mean no alignment.      *)
PadTo(pos, align) ==
  IF align > 1 THEN (align - (pos % align)) % align ELSE 0

Atleast1(n) == IF n > 0 THEN n ELSE 1

(* From pos to the next offset congruent to the virtual address            *)
PageAdjustment_Forward(pos, vaddr, align) ==
  Minus(pos % Atleast1(align), vaddr % Atleast1(align)) % Atleast1(align)

PageAdjustment(pos, vaddr, align) ==
  Plus(align, Minus(vaddr % Atleast1(align), pos % Atleast1(align)))
    % Atleast1(align)

-----------------------------------------------------------------------------
(* Sections and segments                                                   *)

InFile(s) == sec[s].type \notin {"NOBITS", "NULL"}
Occupies(s) == InFile(s) /\ sec[s].size # 0

Larger(a, b) == IF a > b THEN a ELSE b

(* calc_segment_alignment(): a segment is aligned as its sections are.     *)
Aligned(t) ==
  [g \in DOMAIN t |->
     [t[g] EXCEPT !.align =
        Maximum({@} \cup {sec[x].align : x \in Members(t[g].sections)})]]

(* The segment being laid out and the section the loop is at               *)
Current == res[k + 1]
Visited == seg[Current].sections[j + 1]
HasSections(g) == seg[g].sections # <<>>
First(g) == seg[g].sections[1]

-----------------------------------------------------------------------------
Init ==
  /\ seg \in SegTables /\ sec \in SecTables(seg)
  /\ OrderInit
  /\ pc = "idle" /\ saves = 0
  /\ current_file_pos = 0
  /\ section_generated = {}
  /\ k = 0 /\ j = 0
  /\ seg_start_pos = 0 /\ segment_memory = 0 /\ segment_filesize = 0
  /\ sections_offset = 0
  /\ wrapped = FALSE

BeginSave_NotReset ==
  /\ pc = "idle"
  /\ pc' = "segments" /\ saves' = saves + 1
  /\ current_file_pos' = HeadersEnd(seg)
  /\ seg' = Aligned(seg)
  /\ sections_offset' = 0
  /\ phase' = "front"
  /\ worklist' = AllSegments(seg)
  /\ maxSectionCount' = GreatestCount(seg)
  /\ sectionCountFrequency' = CountSegments(seg)
  /\ i' = 0 /\ nextSlot' = 0 /\ res' = <<>>
  /\ UNCHANGED <<sec, section_generated, k, j, segmentVars, wrapped>>

(* save() up to and including the start of get_ordered_segments()          *)
BeginSave ==
  /\ pc = "idle"
  /\ pc' = "segments" /\ saves' = saves + 1
  /\ current_file_pos' = HeadersEnd(seg)
  /\ seg' = Aligned(seg)
  /\ section_generated' = {}
  /\ sections_offset' = 0
  /\ phase' = "front"
  /\ worklist' = AllSegments(seg)
  /\ maxSectionCount' = GreatestCount(seg)
  /\ sectionCountFrequency' = CountSegments(seg)
  /\ i' = 0 /\ nextSlot' = 0 /\ res' = <<>>
  /\ k' = 0 /\ j' = 0
  /\ UNCHANGED <<sec, segmentVars, wrapped>>

(* get_ordered_segments()                                                  *)
OrderStep ==
  /\ pc = "segments"
  /\ OrderNext
  /\ UNCHANGED <<seg, layoutVars>>

-----------------------------------------------------------------------------
(* layout_segments_and_their_sections(): where the next segment starts     *)

Advance(n) ==
  /\ current_file_pos' = Plus(current_file_pos, n)
  /\ wrapped' = (wrapped \/ current_file_pos + n >= Word)

IsHeaderSegment(g) == seg[g].type = "PHDR" /\ ~HasSections(g)

IsFresh(g) == HasSections(g) /\ First(g) \notin section_generated

StartSegment ==
  /\ pc = "segments" /\ phase = "ordered" /\ k < Len(res)
  /\ pc' = "sections" /\ j' = 0
  /\ LET g == Current IN
     \/ /\ IsHeaderSegment(g)
        /\ seg_start_pos' = HeaderSize
        /\ segment_memory' = EntrySize * Len(seg)
        /\ segment_filesize' = segment_memory'
        /\ UNCHANGED <<current_file_pos, wrapped>>
     \/ /\ ~IsHeaderSegment(g) /\ StartsAtZero(g)
        /\ seg_start_pos' = 0
        /\ segment_memory' = IF HasSections(g) THEN current_file_pos ELSE 0
        /\ segment_filesize' = segment_memory'
        /\ UNCHANGED <<current_file_pos, wrapped>>
     \/ /\ ~IsHeaderSegment(g) /\ ~StartsAtZero(g) /\ IsFresh(g)
        /\ Advance(PageAdjustment(current_file_pos, seg[g].vaddr,
                                  seg[g].align))
        /\ seg_start_pos' = current_file_pos'
        /\ segment_memory' = 0 /\ segment_filesize' = 0
     \/ /\ ~IsHeaderSegment(g) /\ ~StartsAtZero(g) /\ ~IsFresh(g)
        /\ seg_start_pos' =
             IF HasSections(g) THEN sec[First(g)].offset ELSE current_file_pos
        /\ segment_memory' = 0 /\ segment_filesize' = 0
        /\ UNCHANGED <<current_file_pos, wrapped>>
  /\ UNCHANGED <<seg, orderVars, sec, saves, section_generated, k,
                 sections_offset>>

-----------------------------------------------------------------------------
(* write_segment_data(): one section of the current segment                *)

AtSection == pc = "sections" /\ j < Len(seg[Current].sections)

(* The offset the address of section x asks for, within segment g          *)
Required(x, g) == Minus(sec[x].addr, seg[g].vaddr)
Reached == Minus(current_file_pos, seg_start_pos)

PlacedByAddress(x) ==
  x \notin section_generated /\ sec[x].addr_set /\ Occupies(x)

VisitNull ==
  /\ AtSection /\ sec[Visited].type = "NULL"
  /\ section_generated' = section_generated \cup {Visited}
  /\ j' = j + 1
  /\ UNCHANGED <<seg, orderVars, sec, pc, saves, current_file_pos, k,
                 segmentVars, sections_offset, wrapped>>

(* "something has gone awfully wrong, abort!"                              *)
TooLate_Never(x) == FALSE

TooLate(x) == PlacedByAddress(x) /\ Required(x, Current) < Reached

Abort ==
  /\ AtSection /\ sec[Visited].type # "NULL" /\ TooLate(Visited)
  /\ pc' = "failed"
  /\ UNCHANGED <<seg, orderVars, sec, saves, current_file_pos,
                 section_generated, k, j, segmentVars, sections_offset,
                 wrapped>>

(* section_align                                                           *)
Gap(x) ==
  IF PlacedByAddress(x) THEN Minus(Required(x, Current), Reached)
  ELSE IF x \in section_generated
    THEN Minus(Minus(sec[x].offset, seg_start_pos), segment_filesize)
  ELSE IF ~sec[x].addr_set THEN PadTo(current_file_pos, sec[x].align)
  ELSE 0

(* .tbss takes no memory outside its TLS segment.                          *)
CountsInMemory(x, g) ==
  /\ sec[x].alloc
  /\ ~(sec[x].tls /\ sec[x].type = "NOBITS" /\ seg[g].type # "TLS")

Account_PaddingIgnored(x) ==
  /\ segment_memory' =
       IF CountsInMemory(x, Current)
         THEN Plus(segment_memory, sec[x].size) ELSE segment_memory
  /\ segment_filesize' =
       IF sec[x].type # "NOBITS"
         THEN Plus(segment_filesize, sec[x].size) ELSE segment_filesize

Account(x) ==
  /\ segment_memory' =
       IF CountsInMemory(x, Current)
         THEN Plus(segment_memory, Plus(sec[x].size, Gap(x)))
         ELSE segment_memory
  /\ segment_filesize' =
       IF sec[x].type # "NOBITS"
         THEN Plus(segment_filesize, Plus(sec[x].size, Gap(x)))
         ELSE segment_filesize

(* A section an earlier segment has placed only counts.                    *)
RevisitSection ==
  /\ AtSection /\ sec[Visited].type # "NULL"
  /\ Visited \in section_generated
  /\ Account(Visited)
  /\ j' = j + 1
  /\ UNCHANGED <<seg, orderVars, sec, pc, saves, current_file_pos,
                 section_generated, k, seg_start_pos, sections_offset,
                 wrapped>>

Position(x) == Plus(current_file_pos, Gap(x))

(* Address, when missing, and offset of a section placed now               *)
PlacedAddress(x) ==
  IF sec[x].addr_set THEN sec[x].addr
  ELSE Minus(Plus(seg[Current].vaddr, Position(x)), seg_start_pos)

PlacedOffset(x) == IF x # 0 THEN Position(x) ELSE sec[x].offset

PlacedSection(x) ==
  [sec EXCEPT ![x] = [@ EXCEPT !.offset = PlacedOffset(x),
                               !.addr = PlacedAddress(x),
                               !.addr_set = TRUE]]

InFileSize(x) == IF InFile(x) THEN sec[x].size ELSE 0

PlaceSection ==
  /\ AtSection /\ sec[Visited].type # "NULL"
  /\ Visited \notin section_generated /\ ~TooLate(Visited)
  /\ LET x == Visited IN
       /\ Account(x)
       /\ sec' = PlacedSection(x)
       /\ current_file_pos' = Plus(Position(x), InFileSize(x))
       /\ wrapped' = (wrapped \/ current_file_pos + Gap(x) >= Word
                              \/ Position(x) + InFileSize(x) >= Word)
       /\ section_generated' = section_generated \cup {x}
  /\ j' = j + 1
  /\ UNCHANGED <<seg, orderVars, pc, saves, k, seg_start_pos,
                 sections_offset>>

(* The rest of layout_segments_and_their_sections() for the segment        *)
LaidOut(g) ==
  [seg EXCEPT ![g] =
     [@ EXCEPT !.filesz = segment_filesize,
               !.memsz = Larger(seg[g].memsz, segment_memory),
               !.offset = seg_start_pos,
               !.offset_set = TRUE]]

EndSegment ==
  /\ pc = "sections" /\ j = Len(seg[Current].sections)
  /\ seg' = LaidOut(Current)
  /\ pc' = "segments" /\ k' = k + 1 /\ j' = 0
  /\ UNCHANGED <<orderVars, sec, saves, current_file_pos, section_generated,
                 segmentVars, sections_offset, wrapped>>

EndSegments ==
  /\ pc = "segments" /\ phase = "ordered" /\ k = Len(res)
  /\ pc' = "rest" /\ j' = 0
  /\ UNCHANGED <<seg, orderVars, sec, saves, current_file_pos,
                 section_generated, k, segmentVars, sections_offset, wrapped>>

-----------------------------------------------------------------------------
(* layout_sections_without_segments(): one section                         *)
SkipGenerated ==
  /\ pc = "rest" /\ j \in section_generated
  /\ j' = j + 1
  /\ UNCHANGED <<seg, orderVars, sec, pc, saves, current_file_pos,
                 section_generated, k, segmentVars, sections_offset, wrapped>>

PlaceRest_PaddingDropped ==
  /\ pc = "rest" /\ j \in DOMAIN sec \ section_generated
  /\ LET pos == Plus(current_file_pos, PadTo(current_file_pos, sec[j].align))
     IN sec' = IF j = 0 THEN sec ELSE [sec EXCEPT ![j].offset = pos]
  /\ Advance(InFileSize(j))
  /\ j' = j + 1
  /\ UNCHANGED <<seg, orderVars, pc, saves, section_generated, k, segmentVars,
                 sections_offset>>

PlaceRest ==
  /\ pc = "rest" /\ j \in DOMAIN sec \ section_generated
  /\ LET pos == Plus(current_file_pos, PadTo(current_file_pos, sec[j].align))
     IN /\ sec' = IF j = 0 THEN sec ELSE [sec EXCEPT ![j].offset = pos]
        /\ current_file_pos' = Plus(pos, InFileSize(j))
        /\ wrapped' = (wrapped
             \/ current_file_pos + PadTo(current_file_pos, sec[j].align) >= Word
             \/ pos + InFileSize(j) >= Word)
  /\ j' = j + 1
  /\ UNCHANGED <<seg, orderVars, pc, saves, section_generated, k, segmentVars,
                 sections_offset>>

(* layout_section_table(): always moves on, by a full unit when aligned    *)
LayoutTable ==
  /\ pc = "rest" /\ j \notin DOMAIN sec
  /\ Advance(TableAlign - (current_file_pos % TableAlign))
  /\ sections_offset' = current_file_pos'
  /\ pc' = "done"
  /\ UNCHANGED <<seg, orderVars, sec, saves, section_generated, k, j,
                 segmentVars>>

(* The client resizes a section, or not, and will save the object again.   *)
Edit(x, n) ==
  /\ pc \in {"done", "failed"} /\ saves < MaxSaves
  /\ sec[x].type # "NULL"
  /\ pc' = "idle"
  /\ sec' = [sec EXCEPT ![x].size = n]
  /\ UNCHANGED <<seg, orderVars, saves, current_file_pos, section_generated,
                 k, j, segmentVars, sections_offset, wrapped>>

Next ==
  \/ BeginSave \/ OrderStep \/ StartSegment
  \/ VisitNull \/ Abort \/ RevisitSection \/ PlaceSection
  \/ EndSegment \/ EndSegments
  \/ SkipGenerated \/ PlaceRest \/ LayoutTable
  \/ \E x \in DOMAIN sec : \E n \in Sizes : Edit(x, n)

Spec == Init /\ [][Next]_vars

-----------------------------------------------------------------------------
(* Properties                                                              *)

(* The loops index segments and sections that exist, and every position is *)
(* a word.                                                                 *)
LayoutTypeOK ==
  /\ pc \in {"idle", "segments", "sections", "rest", "done", "failed"}
  /\ IsSections(sec) /\ IsSegments(seg, DOMAIN sec)
  /\ section_generated \subseteq DOMAIN sec
  /\ k \in 0..Len(res) /\ j \in Nat
  /\ pc = "sections" => k < Len(res) /\ j <= Len(seg[Current].sections)
  /\ pc = "rest" => 0..j - 1 \subseteq DOMAIN sec
  /\ {current_file_pos, seg_start_pos, segment_memory, segment_filesize,
      sections_offset} \subseteq Words
  /\ wrapped \in BOOLEAN

(* The sections this save has given their place so far                     *)
Placed ==
  {x \in DOMAIN sec :
     /\ Occupies(x)
     /\ \/ x \in section_generated
        \/ pc = "done" \/ (pc = "rest" /\ x < j)}

Begin(x) == sec[x].offset
End(x) == sec[x].offset + sec[x].size

Laying == pc \in {"segments", "sections", "rest", "done"}

(* elfio.hpp:361: no two sections overlap in the file; and none of them    *)
(* lies over the headers or beyond the position the layout has reached, so *)
(* the table at the end is behind them all.                                *)
Disjoint ==
  Laying /\ ~wrapped =>
    /\ \A x \in Placed : HeadersEnd(seg) <= Begin(x) /\ End(x) <= current_file_pos
    /\ \A x, y \in Placed : x # y => End(x) <= Begin(y) \/ End(y) <= Begin(x)

(* elfio.hpp:1003: the layout never moves backwards over data it has       *)
(* already placed, unless an address asks for a place beyond a word.       *)
BeyondWord(x) ==
  /\ PlacedByAddress(x)
  /\ seg_start_pos + Required(x, Current) + sec[x].size >= Word

NeverBackwards ==
  [][pc = "sections" /\ pc' = "sections" =>
       \/ BeyondWord(Visited)
       \/ wrapped' /\ ~PlacedByAddress(Visited)
       \/ current_file_pos' >= current_file_pos]_vars

(* The segments of a finished layout whose sections were all placed when   *)
(* they were reached: no segment before them has any of these.             *)
Foremost(g) ==
  /\ HasSections(g)
  /\ \A m, n \in DOMAIN res :
       m < n /\ res[n] = g
         => Members(seg[res[m]].sections) \cap Members(seg[g].sections) = {}

FileEnd(g) == seg[g].offset + seg[g].filesz

(* Sections without file contents come last, as linkers arrange them.      *)
NobitsLast(g) ==
  \A p, q \in DOMAIN seg[g].sections :
    p < q /\ sec[seg[g].sections[p]].type = "NOBITS"
      => ~InFile(seg[g].sections[q])

Covers(g) ==
  \A x \in Members(seg[g].sections) :
    Occupies(x) => seg[g].offset <= Begin(x) /\ End(x) <= FileEnd(g)

(* A segment placed before g has all sections of g, or none of them: the   *)
(* segments nest, the outer ones first (run order_unsorted shows that an   *)
(* inner one may come before).                                             *)
AllOrNone(g) ==
  \A m, n \in DOMAIN res : m < n /\ res[n] = g =>
    LET mine == Members(seg[g].sections)
        earlier == Members(seg[res[m]].sections)
    IN mine \subseteq earlier \/ mine \cap earlier = {}

(* The sections of g are listed as they lie in the file.                   *)
InOrder(g) ==
  \A p, q \in DOMAIN seg[g].sections :
    LET x == seg[g].sections[p]
        y == seg[g].sections[q]
    IN p < q => /\ x # y
                /\ "NOBITS" \notin {sec[x].type, sec[y].type}
                     => End(x) <= Begin(y)

(* Every byte of a section that occupies the file lies in the file extent  *)
(* of each segment it belongs to, nested segments included.                *)
SegmentsCover ==
  pc = "done" /\ ~wrapped =>
    \A g \in SegIds :
      NobitsLast(g) /\ AllOrNone(g) /\ InOrder(g) => Covers(g)

(* What the loader maps is what the section headers say: a section is as   *)
(* far into its segment in the file as in memory, and the segment's offset *)
(* and address agree modulo its alignment.  A client who sets the offset   *)
(* of a segment to 0 answers for the latter.                               *)
ImageMatches ==
  pc = "done" /\ ~wrapped =>
    \A g \in SegIds : Foremost(g) =>
      /\ \A x \in Members(seg[g].sections) : Occupies(x) =>
           Minus(sec[x].addr, seg[g].vaddr) = Begin(x) - seg[g].offset
      /\ seg[g].offset # 0 /\ 2 * seg[g].align <= Word =>
           seg[g].offset % Atleast1(seg[g].align)
             = seg[g].vaddr % Atleast1(seg[g].align)
=============================================================================
