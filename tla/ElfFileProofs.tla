--------------------------- MODULE ElfFileProofs ---------------------------
(***************************************************************************)
(* Proofs about the life of elfio objects, for any files, damaged or not,  *)
(* and any number of objects: a sound object never meets undefined         *)
(* behaviour, what it saves loads again under the same names, and a        *)
(* corrupt section does not keep others from being read.                   *)
(***************************************************************************)
EXTENDS ElfFile, NumberFacts, SequenceTheorems, TLAPS

-----------------------------------------------------------------------------
(* The inductive invariant                                                 *)

SectionRecord ==
  [index : Nat, name : Strings, nameoff : Nat, type : Types, size : Nat,
   held : BOOLEAN, text : Seq(Strings), loaded : BOOLEAN, loadable : BOOLEAN,
   unlimited : BOOLEAN, stream : 0..MaxStreams, moved : BOOLEAN]

SegmentRecord ==
  [index : Nat, bytes : BOOLEAN, members : SUBSET Nat, loaded : BOOLEAN,
   unlimited : BOOLEAN, stream : 0..MaxStreams, moved : BOOLEAN]

ObjectRecord ==
  [header : Nat \cup {None}, sections : Seq(SectionRecord),
   segments : Seq(SegmentRecord), own : 0..MaxStreams, sound : BOOLEAN]

StreamRecord == [file : Files \cup {None}, live : BOOLEAN, fail : BOOLEAN]

StreamTables == [1..MaxStreams -> StreamRecord]

(* The bytes that a section holds are as many as its header says.          *)
TextFits(s) == /\ s.held => Len(s.text) = s.size
               /\ ~s.held => s.text = <<>>

(* What the k-th section of file f is, as long as a client has not used it *)
FromFile(s, k, f) ==
  /\ k \in DOMAIN f.secs
  /\ s.type = "BITS" /\ ~s.held => s.size = Len(f.secs[k].text)
  /\ TablesInside(f) => /\ ~s.unlimited /\ s.type = f.secs[k].type
                        /\ s.moved \/ s.loadable \/ ~f.secs[k].inside

SectionFine(s, k, strs) ==
  /\ s.index = k - 1 /\ TextFits(s)
  /\ s.stream # 0 =>
       /\ strs[s.stream].file \in Files
       /\ FromFile(s, k, strs[s.stream].file)
       /\ TablesInside(strs[s.stream].file) => ~strs[s.stream].fail

SegmentFine(s, g, count, strs) ==
  /\ s.index = g - 1 /\ s.members \subseteq 0..count - 1 /\ ~s.unlimited
  /\ s.stream # 0 => /\ strs[s.stream].file \in Files
                     /\ g \in DOMAIN strs[s.stream].file.segs

(* A sound object has its string table, with all the names.                *)
Table(x) == x.sections[x.header + 1]

HasTable(x) ==
  /\ x.header \in Nat \ {0} /\ x.header + 1 \in DOMAIN x.sections
  /\ Table(x).type = "BITS"
  /\ Table(x).held \/ Table(x).size = 0

NameFine(s, table) ==
  s.nameoff \in 0..Len(table.text) /\ s.name = NameIn(table, s.nameoff)

(* What a sound object is still to read comes from its own stream.         *)
Served(x, strs) ==
  /\ \A k \in DOMAIN x.sections :
       LET s == x.sections[k]
       IN s.stream # 0 /\ Fetches(s) => s.stream = x.own /\ strs[x.own].live
  /\ \A g \in DOMAIN x.segments :
       LET s == x.segments[g]
       IN s.stream # 0 /\ ~s.loaded =>
            \/ s.stream = x.own /\ strs[x.own].live
            \/ ~strs[s.stream].live /\ ~s.bytes

Soundness(x, strs) ==
  /\ HasTable(x)
  /\ \A k \in DOMAIN x.sections : NameFine(x.sections[k], Table(x))
  /\ Served(x, strs)

ObjectFine(x, strs) ==
  /\ x \in ObjectRecord
  /\ \A k \in DOMAIN x.sections : SectionFine(x.sections[k], k, strs)
  /\ \A g \in DOMAIN x.segments :
       SegmentFine(x.segments[g], g, Len(x.sections), strs)
  /\ x.own # 0 => strs[x.own].file \in Files
  /\ x.sound => Soundness(x, strs)

AllFine == \A o \in Objects : ObjectFine(object[o], streams)

(* No two objects own the same stream.                                     *)
OwnersDiffer ==
  \A o, p \in Objects :
    object[o].own # 0 /\ object[o].own = object[p].own => o = p

FileInv ==
  /\ object \in [Objects -> ObjectRecord]
  /\ streams \in StreamTables
  /\ fault \in Objects \cup {None}
  /\ AllFine /\ OwnersDiffer
  /\ SoundObjectsWork

-----------------------------------------------------------------------------
(* get_data()                                                              *)

(* What get_data() leaves alone of a section                               *)
SameHeader(t, s) ==
  /\ t.index = s.index /\ t.name = s.name /\ t.nameoff = s.nameoff
  /\ t.type = s.type /\ t.size = s.size /\ t.unlimited = s.unlimited
  /\ t.stream = s.stream /\ t.moved = s.moved

LEMMA GetDataFacts ==
  ASSUME NEW s \in SectionRecord, TextFits(s), NEW e, e.inside \in BOOLEAN,
         e.text \in Seq(Strings), NEW fail \in BOOLEAN,
         s.type = "BITS" /\ ~s.held => s.size = Len(e.text)
  PROVE  LET t == GetData(s, e, fail)
         IN /\ t \in SectionRecord /\ SameHeader(t, s) /\ TextFits(t)
            /\ FailAfter(s, e, fail) \in BOOLEAN
            /\ ~Fetches(t)
            /\ s.held => t.held /\ t.text = s.text
            /\ ~s.held /\ t.held => t.text = e.text /\ s.type = "BITS"
            /\ ~s.unlimited => FailAfter(s, e, fail) = fail
            /\ s.loadable /\ ~s.unlimited /\ ~fail /\ e.inside => t.loadable
            /\ s.type = "BITS" /\ Fetches(s) /\ ~fail /\ e.inside => t.held
<1> DEFINE t == GetData(s, e, fail)
<1>1. s.type \in Types /\ s.size \in Nat /\ s.text \in Seq(Strings)
      /\ {s.held, s.loaded, s.loadable, s.unlimited} \subseteq BOOLEAN
  BY DEF SectionRecord
<1>2. CASE ~Fetches(s)
  BY <1>1, <1>2 DEF GetData, SameHeader, FailAfter, Reads
<1>3. CASE Fetches(s) /\ ~InBounds(s, e)
  <2>1. t = [s EXCEPT !.loadable = FALSE]
    BY <1>3 DEF GetData, Failed
  <2> QED
    BY <1>1, <1>3, <2>1
    DEF SameHeader, FailAfter, Reads, TextFits, Fetches, SectionRecord,
        InBounds
<1>4. CASE Fetches(s) /\ InBounds(s, e) /\ ~Reads(s, e) /\ s.type = "BITS"
  <2>1. t = [s EXCEPT !.held = TRUE, !.loaded = TRUE, !.text = s.text]
    BY <1>4 DEF GetData, Loaded
  <2>2. s.held \/ s.size = 0
    BY <1>1, <1>4 DEF Reads
  <2>3. Len(s.text) = s.size
    BY <2>2 DEF TextFits
  <2>4. ~s.held => s.text = e.text
    BY <1>1, <1>4, <2>2, <2>3, EmptySeq
  <2> QED
    BY <1>1, <1>4, <2>1, <2>3, <2>4, ZenonT(60)
    DEF SameHeader, FailAfter, TextFits, Fetches, SectionRecord
<1>5. CASE Fetches(s) /\ InBounds(s, e) /\ ~Reads(s, e) /\ s.type # "BITS"
  <2>1. t = [s EXCEPT !.loaded = TRUE]
    BY <1>5 DEF GetData
  <2> QED
    BY <1>1, <1>5, <2>1
    DEF SameHeader, FailAfter, TextFits, Fetches, SectionRecord
<1>6. CASE Reads(s, e) /\ (fail \/ ~e.inside)
  <2>1. Fetches(s) /\ InBounds(s, e) /\ s.type = "BITS" /\ ~s.held
    BY <1>6 DEF Reads
  <2>2. t = [s EXCEPT !.loadable = FALSE]
    BY <1>6, <2>1 DEF GetData, Failed
  <2> QED
    BY <1>1, <1>6, <2>1, <2>2
    DEF SameHeader, FailAfter, TextFits, Fetches, SectionRecord, InBounds
<1>7. CASE Reads(s, e) /\ ~(fail \/ ~e.inside)
  <2>1. Fetches(s) /\ InBounds(s, e) /\ s.type = "BITS" /\ ~s.held
    BY <1>7 DEF Reads
  <2>2. t = [s EXCEPT !.held = TRUE, !.loaded = TRUE, !.text = e.text]
    BY <1>7, <2>1 DEF GetData, Loaded
  <2> QED
    BY <1>1, <1>7, <2>1, <2>2, ZenonT(60)
    DEF SameHeader, FailAfter, TextFits, Fetches, SectionRecord
<1> QED
  BY <1>2, <1>3, <1>4, <1>5, <1>6, <1>7 DEF Reads

-----------------------------------------------------------------------------
(* load_sections()                                                         *)

LEMMA SectionsOfFile ==
  ASSUME NEW file, IsFile(file)
  PROVE  /\ Len(file.secs) \in Nat /\ DOMAIN file.secs = 1..Len(file.secs)
         /\ file.shstrndx \in Nat
         /\ \A k \in 1..Len(file.secs) :
              LET e == file.secs[k]
              IN /\ e.type \in Types /\ e.nameoff \in Nat
                 /\ {e.table, e.inside} \subseteq BOOLEAN
                 /\ e.text \in Seq(Strings) /\ Len(e.text) \in Nat
<1>1. /\ Len(file.secs) \in Nat /\ DOMAIN file.secs = 1..Len(file.secs)
      /\ \A k \in 1..Len(file.secs) : file.secs[k] \in FileSection
  BY LenProperties DEF IsFile
<1>2. ASSUME NEW k \in 1..Len(file.secs)
      PROVE  Len(file.secs[k].text) \in Nat
  BY <1>1, LenProperties DEF FileSection
<1> QED
  BY <1>1, <1>2 DEF IsFile, FileSection

(* load() of a section: `failed` is the failbit before it                  *)
SectionLoaded(r, file, k, failed, stream, lazy) ==
  LET s == r.section
      e == file.secs[k]
  IN /\ r.fail \in BOOLEAN
     /\ s \in SectionRecord /\ s.index = k - 1 /\ TextFits(s)
     /\ s.stream = stream /\ ~s.moved /\ s.unlimited = failed
     /\ s.name = None
     /\ s.type = "BITS" /\ ~s.held => s.size = Len(e.text)
     /\ s.held => s.text = e.text
     /\ IF lazy THEN ~s.loaded ELSE ~Fetches(s)
     /\ ~failed /\ e.table =>
          /\ ~r.fail /\ s.type = e.type /\ s.nameoff = e.nameoff
          /\ s.loadable \/ ~e.inside
          /\ s.type = "BITS" /\ e.inside /\ ~lazy => s.held

LEMMA LoadSectionFacts ==
  ASSUME NEW file, IsFile(file), NEW k \in 1..Len(file.secs),
         NEW failed \in BOOLEAN, NEW stream \in 0..MaxStreams,
         NEW lazy \in BOOLEAN
  PROVE  SectionLoaded(LoadSection(file, k, failed, stream, lazy),
                       file, k, failed, stream, lazy)
<1> DEFINE e == file.secs[k]
           read == ~failed /\ e.table
           plain == IF read THEN Section(k - 1, e.nameoff, e.type, Len(e.text))
                            ELSE Section(k - 1, 0, "NULL", 0)
           s == [plain EXCEPT !.stream = stream, !.unlimited = failed]
           content == IF read THEN e ELSE NoText
           r == LoadSection(file, k, failed, stream, lazy)
           fail == ~read
<1>1. /\ Len(file.secs) \in Nat /\ e.type \in Types /\ e.nameoff \in Nat
      /\ e.table \in BOOLEAN /\ e.inside \in BOOLEAN
      /\ e.text \in Seq(Strings) /\ Len(e.text) \in Nat
  BY SectionsOfFile
<1>2. /\ <<>> \in Seq(Strings) /\ None \in Strings /\ k - 1 \in Nat
      /\ Len(<<>>) = 0
  BY <1>1 DEF Strings
<1>3. /\ content.inside \in BOOLEAN /\ content.text \in Seq(Strings)
      /\ read => content = e
  BY <1>1, <1>2 DEF NoText
<1>4. /\ s \in SectionRecord /\ s.index = k - 1 /\ s.stream = stream
      /\ s.unlimited = failed /\ s.name = None /\ ~s.held /\ ~s.moved
      /\ s.text = <<>> /\ ~s.loaded /\ s.loadable
      /\ s.type = IF read THEN e.type ELSE "NULL"
      /\ s.nameoff = IF read THEN e.nameoff ELSE 0
      /\ s.size = IF read THEN Len(e.text) ELSE 0
  <2>1. CASE read
    <3>1. s = [Section(k - 1, e.nameoff, e.type, Len(e.text))
                 EXCEPT !.stream = stream, !.unlimited = failed]
      BY <2>1
    <3> QED
      BY <1>1, <1>2, <2>1, <3>1 DEF Section, SectionRecord
  <2>2. CASE ~read
    <3>1. s = [Section(k - 1, 0, "NULL", 0)
                 EXCEPT !.stream = stream, !.unlimited = failed]
      BY <2>2
    <3>2. "NULL" \in Types
      BY DEF Types
    <3> HIDE DEF read, s
    <3>3. s \in SectionRecord
      BY <1>2, <3>1, <3>2 DEF Section, SectionRecord
    <3> QED
      BY <2>2, <3>1, <3>3 DEF Section
  <2> QED
    BY <2>1, <2>2
<1>5. r = IF lazy THEN [section |-> s, fail |-> fail]
          ELSE [section |-> GetData(s, content, fail),
                fail    |-> FailAfter(s, content, fail)]
  BY DEF LoadSection
<1>6. fail \in BOOLEAN /\ (fail <=> ~read)
  BY <1>1
<1> HIDE DEF s, r, content, fail
<1>7. CASE lazy
  <2>1. r.section = s /\ r.fail = fail
    BY <1>5, <1>7
  <2> QED
    BY <1>1, <1>4, <1>6, <1>7, <2>1 DEF SectionLoaded, TextFits, r
<1>8. CASE ~lazy
  <2>1. TextFits(s) /\ (s.type = "BITS" /\ ~s.held => s.size = Len(content.text))
    BY <1>3, <1>4 DEF TextFits
  <2> DEFINE t == GetData(s, content, fail)
  <2>2. /\ t \in SectionRecord /\ SameHeader(t, s) /\ TextFits(t)
        /\ FailAfter(s, content, fail) \in BOOLEAN /\ ~Fetches(t)
        /\ t.held => t.text = content.text /\ s.type = "BITS"
        /\ ~s.unlimited => FailAfter(s, content, fail) = fail
        /\ s.loadable /\ ~s.unlimited /\ ~fail /\ content.inside => t.loadable
        /\ s.type = "BITS" /\ Fetches(s) /\ ~fail /\ content.inside => t.held
    BY <1>3, <1>4, <1>6, <2>1, GetDataFacts
  <2>3. r.section = t /\ r.fail = FailAfter(s, content, fail)
    BY <1>5, <1>8
  <2> HIDE DEF t
  <2>4. Fetches(s)
    BY <1>4 DEF Fetches
  <2>5. t.held => t.text = e.text
    BY <1>3, <1>4, <2>2 DEF TextFits, SameHeader
  <2> QED
    BY <1>1, <1>3, <1>4, <1>6, <1>8, <2>2, <2>3, <2>4, <2>5
    DEF SectionLoaded, SameHeader, r
<1> QED
  BY <1>7, <1>8

(* The failbit before each entry is what the entries before it left.       *)
Failbits(h, file, stream, lazy) ==
  /\ h \in [0..Len(file.secs) -> BOOLEAN]
  /\ ~h[0]
  /\ \A k \in 1..Len(file.secs) :
       h[k] = LoadSection(file, k, h[k - 1], stream, lazy).fail

LEMMA FailbitsExist ==
  ASSUME NEW file, IsFile(file), NEW stream \in 0..MaxStreams,
         NEW lazy \in BOOLEAN
  PROVE  \E h : Failbits(h, file, stream, lazy)
<1> DEFINE n == Len(file.secs)
           After(k, b) == LoadSection(file, k, b, stream, lazy).fail
           Fails(m) == {h \in [0..m -> BOOLEAN] :
                          /\ h[0] = FALSE
                          /\ \A k \in 1..m : h[k] = After(k, h[k - 1])}
           bad == {m \in 0..n : Fails(m) = {}}
<1>1. n \in Nat
  BY SectionsOfFile
<1>2. \A k \in 1..n : \A b \in BOOLEAN : After(k, b) \in BOOLEAN
  BY LoadSectionFacts DEF SectionLoaded
<1> HIDE DEF n, After
<1>3. ASSUME bad # {}
      PROVE  FALSE
  <2>1. PICK m \in bad : \A o \in bad : m <= o
    <3>1. bad \in SUBSET Nat
      BY <1>1
    <3> HIDE DEF bad
    <3> QED
      BY <1>3, <3>1, LeastElement
  <2>2. m \in Nat /\ m <= n /\ Fails(m) = {}
    BY <1>1
  <2>3. CASE m = 0
    <3> DEFINE h == [k \in 0..0 |-> FALSE]
    <3>1. h \in [0..0 -> BOOLEAN] /\ h[0] = FALSE /\ 1..0 = {}
      OBVIOUS
    <3> HIDE DEF h
    <3>2. h \in Fails(0)
      BY <3>1
    <3> QED
      BY <2>2, <2>3, <3>2
  <2>4. CASE m # 0
    <3>1. m - 1 \in 0..n /\ ~(m <= m - 1) /\ m \in 1..n
      BY <1>1, <2>2, <2>4
    <3>2. PICK g : g \in Fails(m - 1)
      BY <2>1, <3>1
    <3>3. /\ g \in [0..m - 1 -> BOOLEAN] /\ g[0] = FALSE
          /\ \A k \in 1..m - 1 : g[k] = After(k, g[k - 1])
      BY <3>2
    <3>4. PICK b \in BOOLEAN : b = After(m, g[m - 1])
      BY <1>2, <2>2, <2>4, <3>1, <3>3
    <3> DEFINE h == [k \in 0..m |-> IF k = m THEN b ELSE g[k]]
    <3>5. h \in [0..m -> BOOLEAN]
      BY <2>2, <2>4, <3>3
    <3>6. h[0] = FALSE
      BY <2>2, <2>4, <3>3
    <3>7. ASSUME NEW k \in 1..m
          PROVE  h[k] = After(k, h[k - 1])
      <4>1. CASE k = m
        <5>1. h[k] = b /\ h[k - 1] = g[m - 1]
          BY <2>2, <2>4, <4>1
        <5> QED
          BY <3>4, <4>1, <5>1
      <4>2. CASE k # m
        <5>1. k \in 1..m - 1 /\ k - 1 \in 0..m - 1 /\ k \in 0..m - 1
          BY <2>2, <4>2
        <5>2. h[k] = g[k] /\ h[k - 1] = g[k - 1]
          BY <2>2, <4>2, <5>1
        <5> QED
          BY <3>3, <5>1, <5>2
      <4> QED
        BY <4>1, <4>2
    <3> HIDE DEF h
    <3>8. h \in Fails(m)
      BY <3>5, <3>6, <3>7
    <3> QED
      BY <2>2, <3>8
  <2> QED
    BY <2>3, <2>4
<1>4. Fails(n) # {}
  <2> HIDE DEF Fails
  <2>1. n \in 0..n
    BY <1>1
  <2> QED
    BY <1>3, <2>1
<1> QED
  BY <1>4 DEF n, After, Failbits

(* load_sections(), entry by entry                                         *)
LEMMA LoadedSectionsAre ==
  ASSUME NEW file, IsFile(file), file.shentsize_ok,
         NEW stream \in 0..MaxStreams, NEW lazy \in BOOLEAN
  PROVE  \E failed :
           /\ Failbits(failed, file, stream, lazy)
           /\ LoadedSections(file, stream, lazy) =
                [sections |->
                   [k \in 1..Len(file.secs) |->
                      LoadSection(file, k, failed[k - 1], stream, lazy).section],
                 fail |-> failed[Len(file.secs)]]
<1> DEFINE n == Len(file.secs)
           After(k, b) == LoadSection(file, k, b, stream, lazy).fail
           Recurs(g) == g = [k \in 0..n |-> k # 0 /\ After(k, g[k - 1])]
           failed == CHOOSE g : Recurs(g)
<1>1. n \in Nat
  BY SectionsOfFile
<1>2. LoadedSections(file, stream, lazy) =
        [sections |->
           [k \in 1..n |->
              LoadSection(file, k, failed[k - 1], stream, lazy).section],
         fail |-> failed[n]]
  BY Zenon DEF LoadedSections
<1>3. \E g : Recurs(g)
  <2>1. PICK h \in [0..n -> BOOLEAN] :
          h[0] = FALSE /\ \A k \in 1..n : h[k] = After(k, h[k - 1])
    <3>1. PICK h : Failbits(h, file, stream, lazy)
      BY FailbitsExist
    <3> QED
      BY <3>1 DEF Failbits
  <2> HIDE DEF n, After
  <2>2. ASSUME NEW k \in 0..n
        PROVE  h[k] = (k # 0 /\ After(k, h[k - 1]))
    <3>1. CASE k = 0
      BY <2>1, <3>1
    <3>2. CASE k # 0
      <4>1. k \in 1..n
        BY <1>1, <3>2
      <4>2. h[k] = After(k, h[k - 1]) /\ h[k] \in BOOLEAN
        BY <2>1, <4>1
      <4> QED
        BY <3>2, <4>2
    <3> QED
      BY <3>1, <3>2
  <2>3. h = [k \in 0..n |-> h[k]]
    OBVIOUS
  <2> QED
    BY <2>2, <2>3, Zenon
<1>4. Recurs(failed)
  <2> HIDE DEF Recurs
  <2> QED
    BY <1>3
<1>5. \A k \in 1..n : \A b \in BOOLEAN : After(k, b) \in BOOLEAN
  BY LoadSectionFacts DEF SectionLoaded
<1> HIDE DEF n, After, failed
<1>6. /\ DOMAIN failed = 0..n
      /\ \A k \in 0..n : failed[k] = (k # 0 /\ After(k, failed[k - 1]))
  BY <1>4, Zenon
<1>7. failed = [k \in 0..n |-> failed[k]]
  BY <1>4, <1>6, Zenon
<1>8. \A k \in 0..n : failed[k] \in BOOLEAN
  BY <1>6, Zenon
<1>9. failed \in [0..n -> BOOLEAN]
  BY <1>7, <1>8, Zenon
<1>10. failed[0] = FALSE
  <2>1. 0 \in 0..n
    BY <1>1
  <2> QED
    BY <1>6, <2>1, Zenon
<1>11. ASSUME NEW k \in 1..n
       PROVE  failed[k] = After(k, failed[k - 1])
  <2>1. k \in 0..n /\ k # 0 /\ k - 1 \in 0..n
    BY <1>1
  <2>2. After(k, failed[k - 1]) \in BOOLEAN
    BY <1>5, <1>9, <2>1
  <2> QED
    BY <1>6, <2>1, <2>2
<1> QED
  BY <1>2, <1>9, <1>10, <1>11 DEF n, After, Failbits

EntriesInside(f) == \A k \in DOMAIN f.secs : f.secs[k].table

(* What the k-th section of a file is after load()                         *)
LoadedFrom(s, k, file, stream, lazy) ==
  LET e == file.secs[k]
  IN /\ s \in SectionRecord /\ s.index = k - 1 /\ TextFits(s)
     /\ s.stream = stream /\ ~s.moved
     /\ s.type = "BITS" /\ ~s.held => s.size = Len(e.text)
     /\ s.held => s.text = e.text
     /\ ~lazy => ~Fetches(s)
     /\ EntriesInside(file) =>
          /\ ~s.unlimited /\ s.type = e.type /\ s.nameoff = e.nameoff
          /\ s.loadable \/ ~e.inside
          /\ s.type = "BITS" /\ e.inside /\ ~lazy => s.held

LEMMA LoadedSectionsFacts ==
  ASSUME NEW file, IsFile(file), NEW stream \in 0..MaxStreams,
         NEW lazy \in BOOLEAN
  PROVE  LET r == LoadedSections(file, stream, lazy)
         IN /\ r.fail \in BOOLEAN /\ r.sections \in Seq(SectionRecord)
            /\ Len(r.sections) = IF file.shentsize_ok THEN Len(file.secs) ELSE 0
            /\ EntriesInside(file) => ~r.fail
            /\ \A k \in 1..Len(r.sections) :
                 /\ LoadedFrom(r.sections[k], k, file, stream, lazy)
                 /\ r.sections[k].name = None
                 /\ lazy => ~r.sections[k].loaded
<1> DEFINE r == LoadedSections(file, stream, lazy)
           n == Len(file.secs)
<1>1. CASE ~file.shentsize_ok
  <2>1. r.sections = <<>> /\ r.fail = FALSE
    BY <1>1 DEF LoadedSections
  <2>2. <<>> \in Seq(SectionRecord) /\ Len(<<>>) = 0 /\ 1..0 = {}
    OBVIOUS
  <2> HIDE DEF r
  <2>3. /\ r.fail \in BOOLEAN /\ r.sections \in Seq(SectionRecord)
        /\ Len(r.sections) = 0 /\ ~r.fail /\ 1..Len(r.sections) = {}
    BY <2>1, <2>2
  <2> QED
    BY <1>1, <2>3 DEF r
<1>2. CASE file.shentsize_ok
  <2>1. PICK failed :
          /\ Failbits(failed, file, stream, lazy)
          /\ r = [sections |->
                   [k \in 1..n |->
                      LoadSection(file, k, failed[k - 1], stream, lazy).section],
                  fail |-> failed[n]]
    BY <1>2, LoadedSectionsAre
  <2> DEFINE Part(k) == LoadSection(file, k, failed[k - 1], stream, lazy)
  <2>2. n \in Nat /\ DOMAIN file.secs = 1..n
    BY SectionsOfFile
  <2>3. /\ failed \in [0..n -> BOOLEAN] /\ ~failed[0]
        /\ \A k \in 1..n : failed[k] = Part(k).fail
    BY <2>1 DEF Failbits
  <2>4. ASSUME NEW k \in 1..n
        PROVE  SectionLoaded(Part(k), file, k, failed[k - 1], stream, lazy)
    <3>1. k - 1 \in 0..n
      BY <2>2
    <3>2. PICK b \in BOOLEAN : b = failed[k - 1]
      BY <2>3, <3>1
    <3> QED
      BY <3>2, LoadSectionFacts
  <2>5. r.sections = [k \in 1..n |-> Part(k).section] /\ r.fail = failed[n]
    BY <2>1
  <2> HIDE DEF r, n, Part
  <2>6. EntriesInside(file) => \A k \in 0..n : ~failed[k]
    <3> DEFINE bad == {k \in 0..n : failed[k]}
    <3>1. ASSUME EntriesInside(file), bad # {}
          PROVE  FALSE
      <4>1. PICK k \in bad : \A o \in bad : k <= o
        <5>1. bad \in SUBSET Nat
          BY <2>2
        <5> HIDE DEF bad
        <5> QED
          BY <3>1, <5>1, LeastElement
      <4>2. k \in 0..n /\ failed[k] /\ k # 0
        BY <2>3
      <4>3. k \in 1..n /\ k - 1 \in 0..n /\ ~(k <= k - 1)
        BY <2>2, <4>2
      <4>4. ~failed[k - 1]
        BY <4>1, <4>3
      <4>5. ~Part(k).fail
        BY <2>2, <2>4, <3>1, <4>3, <4>4 DEF SectionLoaded, EntriesInside
      <4> QED
        BY <2>3, <4>2, <4>3, <4>5
    <3> QED
      BY <3>1
  <2>7. ASSUME NEW k \in 1..n
        PROVE  /\ LoadedFrom(Part(k).section, k, file, stream, lazy)
               /\ Part(k).section.name = None
               /\ lazy => ~Part(k).section.loaded
    <3>1. SectionLoaded(Part(k), file, k, failed[k - 1], stream, lazy)
      BY <2>4
    <3>2. EntriesInside(file) => ~failed[k - 1] /\ file.secs[k].table
      BY <2>2, <2>6 DEF EntriesInside
    <3> QED
      BY <3>1, <3>2 DEF SectionLoaded, LoadedFrom
  <2>8. r.sections \in [1..n -> SectionRecord]
    BY <2>5, <2>7 DEF LoadedFrom
  <2>9. r.sections \in Seq(SectionRecord) /\ Len(r.sections) = n
    BY <2>2, <2>8, SeqDef, LenProperties
  <2>10. r.fail \in BOOLEAN /\ (EntriesInside(file) => ~r.fail)
    BY <2>2, <2>3, <2>5, <2>6
  <2> QED
    BY <1>2, <2>5, <2>7, <2>9, <2>10 DEF r, n
<1> QED
  BY <1>1, <1>2

LEMMA NameInTable ==
  ASSUME NEW table, table.text \in Seq(Strings), NEW p \in Nat
  PROVE  NameIn(table, p) \in Strings
<1>1. DOMAIN table.text = 1..Len(table.text)
      /\ \A i \in 1..Len(table.text) : table.text[i] \in Strings
  BY LenProperties
<1> QED
  BY <1>1 DEF NameIn, Strings

(* The names of the sections lie in the string table.                      *)
NamesInside(file) ==
  LET e == file.secs[file.shstrndx + 1]
  IN /\ file.shstrndx \in 1..Len(file.secs) - 1
     /\ e.type = "BITS" /\ e.inside
     /\ \A k \in DOMAIN file.secs : file.secs[k].nameoff \in 0..Len(e.text)

AllNamesFine(sections, table) ==
  \A k \in DOMAIN sections : NameFine(sections[k], table)

LEMMA NamedFacts ==
  ASSUME NEW file, IsFile(file), NEW stream \in 0..MaxStreams,
         NEW lazy \in BOOLEAN
  PROVE  LET r == Named(LoadedSections(file, stream, lazy), file)
             n == file.shstrndx + 1
         IN /\ r.fail \in BOOLEAN /\ r.sections \in Seq(SectionRecord)
            /\ Len(r.sections) = IF file.shentsize_ok THEN Len(file.secs) ELSE 0
            /\ EntriesInside(file) => ~r.fail
            /\ \A k \in 1..Len(r.sections) :
                 LoadedFrom(r.sections[k], k, file, stream, lazy)
            /\ file.shentsize_ok /\ EntriesInside(file) /\ NamesInside(file) =>
                 /\ n \in DOMAIN r.sections
                 /\ r.sections[n].type = "BITS" /\ r.sections[n].held
                 /\ AllNamesFine(r.sections, r.sections[n])
<1> DEFINE q == LoadedSections(file, stream, lazy)
           r == Named(q, file)
           n == file.shstrndx + 1
           s == q.sections[n]
           e == file.secs[n]
           content == IF s.type = "NULL" THEN NoText ELSE e
           table == GetData(s, content, q.fail)
           NewName(k) == NameIn(table, q.sections[k].nameoff)
           New(k) == [(IF k = n THEN table ELSE q.sections[k])
                        EXCEPT !.name = NewName(k)]
<1>1. /\ q.fail \in BOOLEAN /\ q.sections \in Seq(SectionRecord)
      /\ Len(q.sections) = IF file.shentsize_ok THEN Len(file.secs) ELSE 0
      /\ EntriesInside(file) => ~q.fail
      /\ \A k \in 1..Len(q.sections) :
           /\ LoadedFrom(q.sections[k], k, file, stream, lazy)
           /\ q.sections[k].name = None
           /\ lazy => ~q.sections[k].loaded
  BY LoadedSectionsFacts
<1>2. /\ Len(file.secs) \in Nat /\ DOMAIN file.secs = 1..Len(file.secs)
      /\ file.shstrndx \in Nat /\ n \in Nat
      /\ \A k \in 1..Len(file.secs) :
           /\ file.secs[k].inside \in BOOLEAN
           /\ file.secs[k].text \in Seq(Strings)
  BY SectionsOfFile
<1>3. /\ DOMAIN q.sections = 1..Len(q.sections) /\ Len(q.sections) \in Nat
      /\ \A k \in 1..Len(q.sections) : q.sections[k] \in SectionRecord
  BY <1>1, LenProperties
<1>4. r = IF file.shstrndx = 0 \/ n \notin DOMAIN q.sections THEN q
          ELSE [sections |-> [k \in DOMAIN q.sections |-> New(k)],
                fail |-> FailAfter(s, e, q.fail)]
  BY DEF Named
<1> HIDE DEF q, r, table, NewName
<1>5. CASE file.shstrndx = 0 \/ n \notin DOMAIN q.sections
  <2>1. r = q
    BY <1>4, <1>5
  <2>2. ~(file.shentsize_ok /\ NamesInside(file))
    BY <1>1, <1>2, <1>3, <1>5 DEF NamesInside
  <2> QED
    BY <1>1, <2>1, <2>2 DEF r, q
<1>6. CASE ~(file.shstrndx = 0 \/ n \notin DOMAIN q.sections)
  <2>1. n \in 1..Len(q.sections) /\ n \in 1..Len(file.secs)
    BY <1>1, <1>2, <1>3, <1>6
  <2>2. LoadedFrom(s, n, file, stream, lazy) /\ s \in SectionRecord
        /\ (lazy => ~s.loaded)
    BY <1>1, <1>3, <2>1
  <2>3. /\ e.inside \in BOOLEAN /\ e.text \in Seq(Strings)
        /\ content.inside \in BOOLEAN /\ content.text \in Seq(Strings)
        /\ TextFits(s)
        /\ s.type = "BITS" /\ ~s.held => s.size = Len(e.text)
        /\ s.type = "BITS" /\ ~s.held => s.size = Len(content.text)
        /\ s.type # "NULL" => content = e
        /\ e.inside => content.inside
    <3>1. NoText.inside = TRUE /\ NoText.text \in Seq(Strings)
      BY DEF NoText
    <3> QED
      BY <1>2, <2>1, <2>2, <3>1 DEF LoadedFrom
  <2> HIDE DEF s, content, e
  <2>4. FailAfter(s, e, q.fail) \in BOOLEAN
        /\ (~s.unlimited => FailAfter(s, e, q.fail) = q.fail)
    BY <1>1, <2>2, <2>3, GetDataFacts
  <2>5. /\ table \in SectionRecord /\ SameHeader(table, s) /\ TextFits(table)
        /\ ~Fetches(table)
        /\ s.held => table.held /\ table.text = s.text
        /\ ~s.held /\ table.held =>
             table.text = content.text /\ s.type = "BITS"
        /\ s.loadable /\ ~s.unlimited /\ ~q.fail /\ content.inside
             => table.loadable
        /\ s.type = "BITS" /\ Fetches(s) /\ ~q.fail /\ content.inside
             => table.held
    BY <1>1, <2>2, <2>3, GetDataFacts DEF table
  <2>6. LoadedFrom(table, n, file, stream, lazy)
    <3>1. table.held => table.text = e.text
      BY <2>2, <2>3, <2>5 DEF LoadedFrom, e
    <3>2. table.type = "BITS" /\ ~table.held => table.size = Len(e.text)
      BY <2>3, <2>5 DEF SameHeader
    <3>3. EntriesInside(file) =>
            /\ ~table.unlimited /\ table.type = e.type
            /\ table.nameoff = e.nameoff
            /\ table.loadable \/ ~e.inside
            /\ table.type = "BITS" /\ e.inside /\ ~lazy => table.held
      BY <1>1, <2>2, <2>3, <2>5 DEF LoadedFrom, SameHeader, e
    <3> QED
      BY <2>2, <2>5, <3>1, <3>2, <3>3 DEF LoadedFrom, SameHeader, e
  <2>7. ASSUME NEW k \in 1..Len(q.sections)
        PROVE  /\ LoadedFrom(New(k), k, file, stream, lazy)
               /\ New(k).name = NewName(k)
               /\ New(k).nameoff = q.sections[k].nameoff
    <3>1. PICK old : old = IF k = n THEN table ELSE q.sections[k]
      OBVIOUS
    <3>2. LoadedFrom(old, k, file, stream, lazy)
      BY <1>1, <2>6, <3>1
    <3>3. old.nameoff = q.sections[k].nameoff
      BY <2>5, <3>1 DEF SameHeader, s
    <3>4. NewName(k) \in Strings
      <4>1. q.sections[k].nameoff \in Nat /\ table.text \in Seq(Strings)
        BY <1>3, <2>5 DEF SectionRecord
      <4> QED
        BY <4>1, NameInTable DEF NewName
    <3>5. New(k) = [old EXCEPT !.name = NewName(k)]
      BY <3>1
    <3> HIDE DEF New
    <3>6. old \in SectionRecord
      BY <3>2 DEF LoadedFrom
    <3>7. New(k) \in SectionRecord
      BY <3>4, <3>5, <3>6 DEF SectionRecord
    <3>8. /\ New(k).name = NewName(k) /\ New(k).nameoff = old.nameoff
          /\ New(k).index = old.index /\ New(k).type = old.type
          /\ New(k).size = old.size /\ New(k).held = old.held
          /\ New(k).text = old.text /\ New(k).loaded = old.loaded
          /\ New(k).loadable = old.loadable
          /\ New(k).unlimited = old.unlimited
          /\ New(k).stream = old.stream /\ New(k).moved = old.moved
      BY <3>5, <3>6 DEF SectionRecord
    <3> QED
      BY <3>2, <3>3, <3>7, <3>8 DEF LoadedFrom, TextFits, Fetches
  <2> HIDE DEF New
  <2>8. /\ r.sections = [k \in 1..Len(q.sections) |-> New(k)]
        /\ r.fail = FailAfter(s, e, q.fail)
    BY <1>3, <1>4, <1>6
  <2>9. r.sections \in [1..Len(q.sections) -> SectionRecord]
    BY <2>7, <2>8 DEF LoadedFrom
  <2>10. /\ r.sections \in Seq(SectionRecord)
         /\ Len(r.sections) = Len(q.sections)
         /\ DOMAIN r.sections = 1..Len(q.sections)
    BY <1>3, <2>9, SeqDef, LenProperties
  <2>11. r.fail \in BOOLEAN /\ (EntriesInside(file) => ~r.fail)
    BY <1>1, <2>2, <2>4, <2>8 DEF LoadedFrom
  <2>12. \A k \in 1..Len(r.sections) :
           LoadedFrom(r.sections[k], k, file, stream, lazy)
    BY <2>7, <2>8, <2>10
  <2>13. ASSUME file.shentsize_ok, EntriesInside(file), NamesInside(file)
         PROVE  /\ n \in DOMAIN r.sections
                /\ r.sections[n].type = "BITS" /\ r.sections[n].held
                /\ AllNamesFine(r.sections, r.sections[n])
    <3>1. e.type = "BITS" /\ e.inside
      BY <2>13 DEF NamesInside, e
    <3>2. /\ s.type = "BITS" /\ ~s.unlimited /\ s.loadable
          /\ ~lazy => s.held
      BY <2>2, <2>13, <3>1 DEF LoadedFrom, e
    <3>3. table.held /\ table.type = "BITS"
      <4>1. lazy => Fetches(s)
        BY <2>2, <3>2 DEF Fetches
      <4> QED
        BY <1>1, <2>3, <2>5, <2>13, <3>1, <3>2, <4>1 DEF SameHeader
    <3>4. table.text = e.text
      BY <2>6, <3>3 DEF LoadedFrom, e
    <3>5. New(n).type = "BITS" /\ New(n).held /\ New(n).text = table.text
      <4>1. New(n) = [table EXCEPT !.name = NewName(n)]
        BY DEF New
      <4> QED
        BY <2>5, <3>3, <4>1 DEF SectionRecord
    <3>6. ASSUME NEW k \in DOMAIN r.sections
          PROVE  NameFine(r.sections[k], r.sections[n])
      <4>1. k \in 1..Len(q.sections) /\ r.sections[k] = New(k)
            /\ r.sections[n] = New(n)
        BY <2>1, <2>8, <2>10
      <4>2. New(k).nameoff = file.secs[k].nameoff
        BY <2>7, <2>13, <4>1 DEF LoadedFrom
      <4>3. file.secs[k].nameoff \in 0..Len(e.text)
        BY <1>1, <1>2, <2>13, <4>1 DEF NamesInside, e
      <4>4. New(k).name = NameIn(New(n), New(k).nameoff)
        BY <2>7, <3>3, <3>5, <4>1 DEF NewName, NameIn
      <4> QED
        BY <3>4, <3>5, <4>1, <4>2, <4>3, <4>4 DEF NameFine
    <3> QED
      BY <2>1, <2>8, <2>10, <3>5, <3>6 DEF AllNamesFine
  <2> QED
    BY <1>1, <2>10, <2>11, <2>12, <2>13 DEF r, q
<1> QED
  BY <1>5, <1>6

-----------------------------------------------------------------------------
(* load_segments() and load()                                              *)

(* What the g-th segment of a file is after load()                         *)
SegmentFrom(s, g, file, stream, lazy, count) ==
  /\ g \in DOMAIN file.segs /\ s.index = g - 1
  /\ s.members \subseteq 0..count - 1 /\ s.stream = stream /\ ~s.unlimited
  /\ ~lazy /\ ~s.loaded => ~s.bytes

LEMMA LoadedSegmentsFacts ==
  ASSUME NEW file, IsFile(file), NEW fail \in BOOLEAN,
         NEW stream \in 0..MaxStreams, NEW lazy \in BOOLEAN, NEW count \in Nat
  PROVE  LET r == LoadedSegments(file, fail, stream, lazy, count)
         IN /\ r.segments \in Seq(SegmentRecord)
            /\ r.ok \in BOOLEAN /\ r.fail \in BOOLEAN
            /\ ~fail /\ TablesInside(file) => ~r.fail
            /\ \A g \in 1..Len(r.segments) :
                 SegmentFrom(r.segments[g], g, file, stream, lazy, count)
<1> DEFINE r == LoadedSegments(file, fail, stream, lazy, count)
           len == Len(file.segs)
           good(g) ==
             /\ ~fail /\ file.segs[g].table
             /\ lazy \/ ~file.segs[g].bytes \/ file.segs[g].inside
           Stops(m) == /\ \A g \in 1..m : good(g)
                       /\ m = len \/ ~good(m + 1)
           n == CHOOSE m \in 0..len : Stops(m)
           New(g) == [Segment(g - 1, file.segs[g].bytes,
                              file.segs[g].members \cap 0..count - 1)
                        EXCEPT !.stream = stream,
                               !.loaded = ~lazy /\ file.segs[g].bytes]
<1>1. /\ len \in Nat /\ DOMAIN file.segs = 1..len
      /\ \A g \in 1..len : file.segs[g] \in FileSegment
  BY LenProperties DEF IsFile
<1>2. r = IF ~file.phentsize_ok
            THEN [segments |-> <<>>, ok |-> FALSE, fail |-> fail]
          ELSE [segments |-> [g \in 1..n |-> New(g)],
                ok |-> n = len,
                fail |-> fail \/ (n < len /\ ~file.segs[n + 1].table)]
  BY DEF LoadedSegments
<1> HIDE DEF r, len
<1>3. \E m \in 0..len : Stops(m)
  <2> DEFINE bad == {g \in 1..len : ~good(g)}
  <2> HIDE DEF good
  <2>1. CASE bad = {}
    <3>1. Stops(len)
      BY <2>1
    <3> HIDE DEF Stops
    <3>2. len \in 0..len
      BY <1>1
    <3> QED
      BY <3>1, <3>2
  <2>2. CASE bad # {}
    <3>1. PICK g \in bad : \A h \in bad : g <= h
      <4>1. bad \in SUBSET Nat
        BY <1>1
      <4> HIDE DEF bad
      <4> QED
        BY <2>2, <4>1, LeastElement
    <3>2. g \in 1..len /\ ~good(g) /\ g - 1 \in 0..len /\ g - 1 + 1 = g
      BY <1>1
    <3>3. \A h \in 1..g - 1 : good(h)
      BY <1>1, <3>1, <3>2
    <3>4. Stops(g - 1)
      BY <3>2, <3>3
    <3> HIDE DEF Stops
    <3> QED
      BY <3>2, <3>4
  <2> QED
    BY <2>1, <2>2
<1>4. n \in 0..len /\ Stops(n)
  <2> HIDE DEF Stops
  <2> QED
    BY <1>3
<1> HIDE DEF n
<1>5. CASE ~file.phentsize_ok
  <2>1. r.segments = <<>> /\ r.ok = FALSE /\ r.fail = fail
    BY <1>2, <1>5
  <2>2. <<>> \in Seq(SegmentRecord) /\ Len(<<>>) = 0 /\ 1..0 = {}
    OBVIOUS
  <2>3. /\ r.segments \in Seq(SegmentRecord) /\ 1..Len(r.segments) = {}
        /\ r.ok \in BOOLEAN /\ r.fail \in BOOLEAN /\ (~fail => ~r.fail)
    BY <2>1, <2>2
  <2> QED
    BY <2>3 DEF r
<1>6. CASE file.phentsize_ok
  <2>1. /\ r.segments = [g \in 1..n |-> New(g)] /\ r.ok = (n = len)
        /\ r.fail = (fail \/ (n < len /\ ~file.segs[n + 1].table))
    BY <1>2, <1>6
  <2>2. ASSUME NEW g \in 1..n
        PROVE  /\ New(g) \in SegmentRecord
               /\ SegmentFrom(New(g), g, file, stream, lazy, count)
    <3>1. g \in 1..len /\ g - 1 \in Nat
      BY <1>1, <1>4
    <3>2. file.segs[g].bytes \in BOOLEAN
      BY <1>1, <3>1 DEF FileSegment
    <3>3. PICK members \in SUBSET Nat :
            /\ members = file.segs[g].members \cap 0..count - 1
            /\ members \subseteq 0..count - 1
      <4>1. 0..count - 1 \subseteq Nat
        OBVIOUS
      <4> QED
        BY <4>1
    <3>4. New(g) = [Segment(g - 1, file.segs[g].bytes, members)
                      EXCEPT !.stream = stream,
                             !.loaded = ~lazy /\ file.segs[g].bytes]
      BY <3>3
    <3> HIDE DEF New
    <3>5. New(g) \in SegmentRecord /\ New(g).index = g - 1
          /\ New(g).members = members /\ New(g).stream = stream
          /\ New(g).bytes = file.segs[g].bytes
          /\ New(g).loaded = (~lazy /\ file.segs[g].bytes)
          /\ ~New(g).unlimited
      BY <3>1, <3>2, <3>4 DEF Segment, SegmentRecord
    <3> QED
      BY <1>1, <3>1, <3>2, <3>3, <3>5 DEF SegmentFrom
  <2> HIDE DEF New
  <2>3. r.segments \in [1..n -> SegmentRecord]
    BY <2>1, <2>2
  <2>4. r.segments \in Seq(SegmentRecord) /\ Len(r.segments) = n
    BY <1>1, <1>4, <2>3, SeqDef, LenProperties
  <2>5. r.ok \in BOOLEAN /\ r.fail \in BOOLEAN
    BY <2>1
  <2>6. ~fail /\ TablesInside(file) => ~r.fail
    <3>1. n < len => n + 1 \in 1..len
      BY <1>1, <1>4
    <3> QED
      BY <1>1, <2>1, <3>1 DEF TablesInside
  <2>7. \A g \in 1..Len(r.segments) : r.segments[g] = New(g) /\ g \in 1..n
    BY <2>1, <2>4
  <2> HIDE DEF good
  <2> QED
    BY <2>2, <2>4, <2>5, <2>6, <2>7 DEF r
<1> QED
  BY <1>5, <1>6

(* An object without sections and segments, as a load that fails leaves it *)
LEMMA EmptyIsFine ==
  ASSUME NEW header \in Nat \cup {None}, NEW own \in 0..MaxStreams, NEW strs,
         own # 0 => strs[own].file \in Files, NEW no, no = FALSE
  PROVE  ObjectFine(Object(header, <<>>, <<>>, own, no), strs)
<1> DEFINE x == Object(header, <<>>, <<>>, own, no)
<1>1. /\ x.header = header /\ x.sections = <<>> /\ x.segments = <<>>
      /\ x.own = own /\ ~x.sound
  BY DEF Object
<1>2. /\ <<>> \in Seq(SectionRecord) /\ <<>> \in Seq(SegmentRecord)
      /\ DOMAIN <<>> = {}
  OBVIOUS
<1>3. x \in ObjectRecord
  BY <1>2 DEF Object, ObjectRecord
<1> QED
  BY <1>1, <1>2, <1>3 DEF ObjectFine

LEMMA GivenStream ==
  ASSUME NEW header, NEW sections, NEW segments, NEW n, NEW sound, NEW own
  PROVE  [Object(header, sections, segments, n, sound) EXCEPT !.own = own]
           = Object(header, sections, segments, own, sound)
BY DEF Object

LEMMA AfterLoadFine ==
  ASSUME NEW o \in Objects, object \in [Objects -> ObjectRecord],
         NEW f \in Files, NEW n \in 1..MaxStreams, NEW lazy \in BOOLEAN,
         NEW strs, strs[n] = [file |-> f, live |-> lazy,
                              fail |-> AfterLoad(o, f, n, lazy).fail]
  PROVE  LET r == AfterLoad(o, f, n, lazy)
         IN /\ r.fail \in BOOLEAN
            /\ ObjectFine([r.object EXCEPT !.own = IF lazy THEN n ELSE 0], strs)
<1> DEFINE r == AfterLoad(o, f, n, lazy)
           own == IF lazy THEN n ELSE 0
           x == [r.object EXCEPT !.own = own]
           secs == Named(LoadedSections(f, n, lazy), f)
           segs == LoadedSegments(f, secs.fail, n, lazy, Len(secs.sections))
<1>1. IsFile(f) /\ f.kind \in {"foreign", "short", "elf"}
  BY ElfFileAssumption DEF IsFile
<1>2. MaxStreams \in Nat /\ n \in 0..MaxStreams /\ own \in 0..MaxStreams
  BY ElfFileAssumption
<1>3. strs[n].file = f /\ strs[n].live = lazy /\ strs[n].fail = r.fail
  OBVIOUS
<1>4. own # 0 => strs[own].file \in Files
  BY <1>3
<1>5. object[o].header \in Nat \cup {None}
  BY DEF ObjectRecord
<1> HIDE DEF own, r
<1>5a. PICK no : no = FALSE
  OBVIOUS
<1>6. CASE f.kind = "foreign"
  <2>1. r.object = Object(object[o].header, <<>>, <<>>, n, no)
        /\ r.fail = FALSE
    BY <1>5a, <1>6 DEF AfterLoad, r
  <2>2. x = Object(object[o].header, <<>>, <<>>, own, no)
    BY <2>1, GivenStream
  <2>3. ObjectFine(x, strs)
    <3>1. PICK header \in Nat \cup {None} : header = object[o].header
      BY <1>5
    <3> HIDE DEF x
    <3> QED
      BY <1>2, <1>4, <1>5a, <2>2, <3>1, EmptyIsFine
  <2> QED
    BY <2>1, <2>3 DEF r, own
<1>7. CASE f.kind = "short"
  <2>1. r.object = Object(1, <<>>, <<>>, n, no) /\ r.fail = TRUE
    BY <1>5a, <1>7 DEF AfterLoad, r
  <2>2. x = Object(1, <<>>, <<>>, own, no)
    BY <2>1, GivenStream
  <2>3. ObjectFine(x, strs)
    <3>1. PICK header \in Nat \cup {None} : header = 1
      BY <1>5
    <3> HIDE DEF x
    <3> QED
      BY <1>2, <1>4, <1>5a, <2>2, <3>1, EmptyIsFine
  <2> QED
    BY <2>1, <2>3 DEF r, own
<1>8. CASE f.kind = "elf"
  <2> DEFINE sound == segs.ok /\ Undamaged(f)
             m == f.shstrndx + 1
  <2>1. r.object = Object(f.shstrndx, secs.sections, segs.segments, n, sound)
        /\ r.fail = segs.fail
    BY <1>8 DEF AfterLoad, r
  <2>2. x = Object(f.shstrndx, secs.sections, segs.segments, own, sound)
    BY <2>1 DEF Object
  <2>3. /\ secs.fail \in BOOLEAN /\ secs.sections \in Seq(SectionRecord)
        /\ Len(secs.sections) = IF f.shentsize_ok THEN Len(f.secs) ELSE 0
        /\ EntriesInside(f) => ~secs.fail
        /\ \A k \in 1..Len(secs.sections) :
             LoadedFrom(secs.sections[k], k, f, n, lazy)
        /\ f.shentsize_ok /\ EntriesInside(f) /\ NamesInside(f) =>
             /\ m \in DOMAIN secs.sections
             /\ secs.sections[m].type = "BITS" /\ secs.sections[m].held
             /\ AllNamesFine(secs.sections, secs.sections[m])
    BY <1>1, <1>2, NamedFacts
  <2> HIDE DEF secs
  <2>4. PICK count \in Nat : count = Len(secs.sections)
    BY <2>3, LenProperties
  <2>5. /\ segs.segments \in Seq(SegmentRecord)
        /\ segs.ok \in BOOLEAN /\ segs.fail \in BOOLEAN
        /\ ~secs.fail /\ TablesInside(f) => ~segs.fail
        /\ \A g \in 1..Len(segs.segments) :
             SegmentFrom(segs.segments[g], g, f, n, lazy, count)
    <3>1. PICK fail \in BOOLEAN : fail = secs.fail
      BY <2>3
    <3>2. segs = LoadedSegments(f, fail, n, lazy, count)
      BY <2>4, <3>1
    <3> HIDE DEF segs
    <3>3. /\ segs.segments \in Seq(SegmentRecord)
          /\ segs.ok \in BOOLEAN /\ segs.fail \in BOOLEAN
          /\ ~fail /\ TablesInside(f) => ~segs.fail
          /\ \A g \in 1..Len(segs.segments) :
               SegmentFrom(segs.segments[g], g, f, n, lazy, count)
      <4>1. IsFile(f) /\ n \in 0..MaxStreams /\ lazy \in BOOLEAN
        BY <1>1, <1>2
      <4>2. LET r1 == LoadedSegments(f, fail, n, lazy, count)
            IN /\ r1.segments \in Seq(SegmentRecord)
               /\ r1.ok \in BOOLEAN /\ r1.fail \in BOOLEAN
               /\ ~fail /\ TablesInside(f) => ~r1.fail
               /\ \A g \in 1..Len(r1.segments) :
                    SegmentFrom(r1.segments[g], g, f, n, lazy, count)
        BY <4>1, LoadedSegmentsFacts, ZenonT(60)
      <4> QED
        BY <3>2, <4>2, Zenon
    <3> QED
      BY <3>1, <3>3
  <2> HIDE DEF segs
  <2>6. sound \in BOOLEAN /\ f.shstrndx \in Nat
    BY <1>1 DEF IsFile
  <2>7. /\ DOMAIN secs.sections = 1..count
        /\ DOMAIN segs.segments = 1..Len(segs.segments)
        /\ \A k \in 1..count : secs.sections[k] \in SectionRecord
        /\ Len(f.secs) \in Nat /\ DOMAIN f.secs = 1..Len(f.secs)
    BY <1>1, <2>3, <2>4, <2>5, LenProperties, SectionsOfFile
  <2>8. TablesInside(f) => EntriesInside(f) /\ ~r.fail
    BY <2>1, <2>3, <2>5 DEF TablesInside, EntriesInside
  <2> HIDE DEF sound
  <2>9. /\ x.header = f.shstrndx /\ x.sections = secs.sections
        /\ x.segments = segs.segments /\ x.own = own /\ x.sound = sound
    BY <2>2 DEF Object
  <2>10. x \in ObjectRecord
    BY <1>2, <2>2, <2>3, <2>5, <2>6 DEF Object, ObjectRecord
  <2> HIDE DEF x
  <2>11. ASSUME NEW k \in 1..count
         PROVE  SectionFine(secs.sections[k], k, strs)
    <3>1. LoadedFrom(secs.sections[k], k, f, n, lazy)
      BY <2>3, <2>4
    <3>2. k \in DOMAIN f.secs
      BY <2>3, <2>4, <2>7
    <3>3. FromFile(secs.sections[k], k, f)
      BY <2>8, <3>1, <3>2 DEF LoadedFrom, FromFile
    <3> QED
      BY <1>3, <2>8, <3>1, <3>3 DEF LoadedFrom, SectionFine
  <2>12. ASSUME NEW g \in 1..Len(segs.segments)
         PROVE  SegmentFine(segs.segments[g], g, count, strs)
    BY <1>3, <2>5 DEF SegmentFine, SegmentFrom
  <2>13. ASSUME sound
         PROVE  Soundness(x, strs)
    <3>1. f.shentsize_ok /\ EntriesInside(f) /\ NamesInside(f)
      <4>1. Undamaged(f)
        BY <2>13 DEF sound
      <4>2. f.shentsize_ok /\ EntriesInside(f)
        BY <4>1 DEF Undamaged, EntriesInside
      <4>3. m \in DOMAIN f.secs
        BY <2>6, <2>7, <4>1 DEF Undamaged
      <4>4. NamesInside(f)
        BY <4>1, <4>3 DEF Undamaged, NamesInside
      <4> QED
        BY <4>2, <4>4
    <3>2. f.shstrndx # 0
      BY <3>1 DEF NamesInside
    <3>3. HasTable(x) /\ Table(x) = secs.sections[m]
      BY <2>3, <2>6, <2>9, <3>1, <3>2 DEF HasTable, Table
    <3>4. \A k \in DOMAIN x.sections : NameFine(x.sections[k], Table(x))
      BY <2>3, <2>9, <3>1, <3>3 DEF AllNamesFine
    <3>5. Served(x, strs)
      <4>1. CASE lazy
        <5>1. own = n /\ strs[own].live
          BY <1>3, <4>1 DEF own
        <5>2. \A k \in 1..count : secs.sections[k].stream = n
          BY <2>3, <2>4 DEF LoadedFrom
        <5> QED
          BY <2>5, <2>7, <2>9, <5>1, <5>2 DEF Served, SegmentFrom
      <4>2. CASE ~lazy
        <5>1. \A k \in 1..count : ~Fetches(secs.sections[k])
          BY <2>3, <2>4, <4>2 DEF LoadedFrom
        <5>2. ~strs[n].live
          BY <1>3, <4>2
        <5> QED
          BY <2>5, <2>7, <2>9, <4>2, <5>1, <5>2
          DEF Served, SegmentFrom
      <4> QED
        BY <4>1, <4>2
    <3> QED
      BY <3>3, <3>4, <3>5 DEF Soundness
  <2>14. ObjectFine(x, strs)
    BY <1>4, <2>4, <2>7, <2>9, <2>10, <2>11, <2>12, <2>13 DEF ObjectFine
  <2> QED
    BY <2>1, <2>5, <2>14 DEF x, r, own
<1> QED
  BY <1>1, <1>6, <1>7, <1>8

-----------------------------------------------------------------------------
(* What changes of the streams when another object changes                 *)

(* The streams that object x refers to are in `new` what they are in       *)
(* `strs`; those it does not own may be closed.                            *)
Kept(x, strs, new) ==
  \A n \in StreamsOf(x) \ {0} :
    /\ new[n].file = strs[n].file
    /\ TablesInside(strs[n].file) /\ new[n].fail => strs[n].fail
    /\ new[n].live => strs[n].live
    /\ n = x.own => (new[n].live <=> strs[n].live)

LEMMA ObjectTyped ==
  ASSUME NEW x \in ObjectRecord
  PROVE  /\ DOMAIN x.sections = 1..Len(x.sections) /\ Len(x.sections) \in Nat
         /\ DOMAIN x.segments = 1..Len(x.segments) /\ Len(x.segments) \in Nat
         /\ \A k \in 1..Len(x.sections) :
              x.sections[k] \in SectionRecord /\ x.sections[k].stream \in 0..MaxStreams
         /\ \A g \in 1..Len(x.segments) :
              x.segments[g] \in SegmentRecord /\ x.segments[g].stream \in 0..MaxStreams
         /\ StreamsOf(x) \subseteq 0..MaxStreams
         /\ x.own \in StreamsOf(x)
<1>1. /\ x.sections \in Seq(SectionRecord) /\ x.segments \in Seq(SegmentRecord)
      /\ x.own \in 0..MaxStreams
  BY DEF ObjectRecord
<1>2. /\ DOMAIN x.sections = 1..Len(x.sections) /\ Len(x.sections) \in Nat
      /\ DOMAIN x.segments = 1..Len(x.segments) /\ Len(x.segments) \in Nat
      /\ \A k \in 1..Len(x.sections) : x.sections[k] \in SectionRecord
      /\ \A g \in 1..Len(x.segments) : x.segments[g] \in SegmentRecord
  BY <1>1, LenProperties
<1>3. /\ \A k \in 1..Len(x.sections) : x.sections[k].stream \in 0..MaxStreams
      /\ \A g \in 1..Len(x.segments) : x.segments[g].stream \in 0..MaxStreams
  BY <1>2 DEF SectionRecord, SegmentRecord
<1> QED
  BY <1>1, <1>2, <1>3 DEF StreamsOf

LEMMA KeptIsFine ==
  ASSUME NEW x, NEW strs, NEW new, ObjectFine(x, strs), Kept(x, strs, new)
  PROVE  ObjectFine(x, new)
<1>1. x \in ObjectRecord
  BY DEF ObjectFine
<1>2. \A n \in StreamsOf(x) \ {0} : new[n].file = strs[n].file
  BY DEF Kept
<1>3. ASSUME NEW k \in DOMAIN x.sections
      PROVE  SectionFine(x.sections[k], k, new)
  <2>1. SectionFine(x.sections[k], k, strs)
    BY DEF ObjectFine
  <2>2. x.sections[k].stream \in StreamsOf(x)
    BY DEF StreamsOf
  <2> QED
    BY <2>1, <2>2 DEF SectionFine, Kept
<1>4. ASSUME NEW g \in DOMAIN x.segments
      PROVE  SegmentFine(x.segments[g], g, Len(x.sections), new)
  <2>1. SegmentFine(x.segments[g], g, Len(x.sections), strs)
    BY DEF ObjectFine
  <2>2. x.segments[g].stream \in StreamsOf(x)
    BY DEF StreamsOf
  <2> QED
    BY <1>2, <2>1, <2>2 DEF SegmentFine
<1>5. x.own # 0 => new[x.own].file \in Files
  BY <1>1, <1>2, ObjectTyped DEF ObjectFine
<1>6. ASSUME x.sound
      PROVE  Soundness(x, new)
  <2>1. Soundness(x, strs)
    BY <1>6 DEF ObjectFine
  <2>2. \A n \in StreamsOf(x) \ {0} :
          /\ new[n].live => strs[n].live
          /\ n = x.own => (new[n].live <=> strs[n].live)
    BY DEF Kept
  <2>3. /\ \A k \in DOMAIN x.sections : x.sections[k].stream \in StreamsOf(x)
        /\ \A g \in DOMAIN x.segments : x.segments[g].stream \in StreamsOf(x)
    BY DEF StreamsOf
  <2>4. ASSUME NEW k \in DOMAIN x.sections, x.sections[k].stream # 0,
               Fetches(x.sections[k])
        PROVE  x.sections[k].stream = x.own /\ new[x.own].live
    BY <2>1, <2>2, <2>3, <2>4 DEF Soundness, Served
  <2>5. ASSUME NEW g \in DOMAIN x.segments, x.segments[g].stream # 0,
               ~x.segments[g].loaded
        PROVE  \/ x.segments[g].stream = x.own /\ new[x.own].live
               \/ ~new[x.segments[g].stream].live /\ ~x.segments[g].bytes
    <3> DEFINE str == x.segments[g].stream
    <3>1. \/ str = x.own /\ strs[x.own].live
          \/ ~strs[str].live /\ ~x.segments[g].bytes
      BY <2>1, <2>5 DEF Soundness, Served
    <3>2. str \in StreamsOf(x) \ {0}
      BY <2>3, <2>5
    <3> HIDE DEF str
    <3>3. new[str].live => strs[str].live
      BY <2>2, <3>2
    <3>4. str = x.own => (new[str].live <=> strs[str].live)
      BY <2>2, <3>2
    <3>5. \/ str = x.own /\ new[x.own].live
          \/ ~new[str].live /\ ~x.segments[g].bytes
      BY <3>1, <3>3, <3>4
    <3> QED
      BY <3>5 DEF str
  <2>6. Served(x, new)
    BY <2>4, <2>5 DEF Served
  <2> QED
    BY <2>1, <2>6 DEF Soundness
<1> QED
  BY <1>1, <1>3, <1>4, <1>5, <1>6 DEF ObjectFine

OthersKept(o, new) ==
  \A p \in Objects \ {o} : Kept(object[p], streams, new)

OwnedByNoOther(o, n) == n # 0 => \A p \in Objects \ {o} : object[p].own # n

(* A step that changes one object                                          *)
LEMMA OneObject ==
  ASSUME FileInv, fault = None, UNCHANGED fault, NEW o \in Objects, NEW x,
         object' = [object EXCEPT ![o] = x], streams' \in StreamTables,
         ObjectFine(x, streams'), OthersKept(o, streams'),
         OwnedByNoOther(o, x.own)
  PROVE  FileInv'
<1>1. x \in ObjectRecord
  BY DEF ObjectFine
<1>2. /\ object' \in [Objects -> ObjectRecord] /\ object'[o] = x
      /\ \A p \in Objects \ {o} : object'[p] = object[p]
  BY <1>1 DEF FileInv
<1>3. AllFine'
  <2>1. ASSUME NEW p \in Objects \ {o}
        PROVE  ObjectFine(object'[p], streams')
    <3>1. ObjectFine(object[p], streams) /\ Kept(object[p], streams, streams')
      BY DEF FileInv, AllFine, OthersKept
    <3> QED
      BY <1>2, <3>1, KeptIsFine
  <2> QED
    BY <1>2, <2>1 DEF AllFine
<1>4. OwnersDiffer'
  BY <1>2 DEF OwnersDiffer, FileInv, OwnedByNoOther
<1>5. SoundObjectsWork' /\ fault' \in Objects \cup {None}
  BY DEF SoundObjectsWork
<1> QED
  BY <1>2, <1>3, <1>4, <1>5 DEF FileInv

LEMMA OwnerKept ==
  ASSUME FileInv, NEW o \in Objects
  PROVE  OwnedByNoOther(o, object[o].own)
BY DEF FileInv, OwnersDiffer, OwnedByNoOther

LEMMA SameStreamsKept ==
  ASSUME FileInv, NEW o \in Objects
  PROVE  OthersKept(o, streams)
BY DEF OthersKept, Kept

(* Streams that nothing refers to are forgotten, others are not.           *)
LEMMA RememberedFacts ==
  ASSUME NEW strs \in StreamTables, NEW objs
  PROVE  /\ Remembered(strs, objs) \in StreamTables
         /\ \A o \in Objects : \A n \in StreamsOf(objs[o]) :
              n \in 1..MaxStreams => Remembered(strs, objs)[n] = strs[n]
<1>1. NoStream \in StreamRecord
  BY DEF NoStream, StreamRecord
<1> QED
  BY <1>1 DEF Remembered, StreamTables

LEMMA ClosedFacts ==
  ASSUME streams \in StreamTables, NEW n \in 0..MaxStreams
  PROVE  /\ Closed(n) \in StreamTables
         /\ \A m \in 1..MaxStreams :
              /\ Closed(n)[m].file = streams[m].file
              /\ Closed(n)[m].fail = streams[m].fail
              /\ Closed(n)[m].live => streams[m].live
              /\ m # n => Closed(n)[m] = streams[m]
<1>1. CASE n = 0
  BY <1>1 DEF Closed
<1>2. CASE n # 0
  <2>1. n \in 1..MaxStreams
    BY <1>2, ElfFileAssumption
  <2>2. Closed(n) = [streams EXCEPT ![n] = [@ EXCEPT !.live = FALSE]]
    BY <1>2 DEF Closed
  <2>3. ASSUME NEW m \in 1..MaxStreams
        PROVE  streams[m] \in StreamRecord
    BY DEF StreamTables
  <2>4. [streams[n] EXCEPT !.live = FALSE] \in StreamRecord
    BY <2>1, <2>3 DEF StreamRecord
  <2> QED
    BY <2>1, <2>2, <2>3, <2>4 DEF StreamTables, StreamRecord
<1> QED
  BY <1>1, <1>2

(* The streams in use, but for the one that object o owns and may close    *)
Spares(o, strs) ==
  \A m \in 1..MaxStreams : streams[m] # NoStream =>
    /\ strs[m].file = streams[m].file
    /\ strs[m].fail = streams[m].fail
    /\ strs[m].live => streams[m].live
    /\ m # object[o].own => strs[m] = streams[m]

LEMMA StreamsInUse ==
  ASSUME NEW x, NEW strs, ObjectFine(x, strs), NEW n \in StreamsOf(x) \ {0}
  PROVE  n \in 1..MaxStreams /\ strs[n].file \in Files
                             /\ strs[n] # NoStream
<1>1. x \in ObjectRecord
  BY DEF ObjectFine
<1>2. n \in 1..MaxStreams
  BY <1>1, ObjectTyped, ElfFileAssumption
<1>3. strs[n].file \in Files
  BY DEF ObjectFine, StreamsOf, SectionFine, SegmentFine
<1>4. NoStream.file \notin Files
  BY ElfFileAssumption DEF NoStream
<1> QED
  BY <1>2, <1>3, <1>4

(* The other objects do not care when one object closes or opens a stream. *)
LEMMA OthersSpared ==
  ASSUME FileInv, NEW o \in Objects, NEW x,
         object' = [object EXCEPT ![o] = x], NEW strs \in StreamTables,
         Spares(o, strs), streams' = Remembered(strs, object')
  PROVE  /\ streams' \in StreamTables /\ OthersKept(o, streams')
         /\ \A n \in StreamsOf(x) : n \in 1..MaxStreams => streams'[n] = strs[n]
<1>1. object \in [Objects -> ObjectRecord] /\ streams \in StreamTables
  BY DEF FileInv
<1>2. PICK objs : objs = object'
  OBVIOUS
<1>3. /\ streams' \in StreamTables
      /\ \A p \in Objects : \A n \in StreamsOf(object'[p]) :
           n \in 1..MaxStreams => streams'[n] = strs[n]
  <2>1. streams' = Remembered(strs, objs)
    BY <1>2
  <2>2. /\ Remembered(strs, objs) \in StreamTables
        /\ \A p \in Objects : \A n \in StreamsOf(objs[p]) :
             n \in 1..MaxStreams => Remembered(strs, objs)[n] = strs[n]
    BY RememberedFacts
  <2> QED
    BY <1>2, <2>1, <2>2
<1>4. ASSUME NEW p \in Objects \ {o}
      PROVE  Kept(object[p], streams, streams')
  <2>1. object'[p] = object[p] /\ ObjectFine(object[p], streams)
    BY <1>1 DEF FileInv, AllFine
  <2>2. ASSUME NEW n \in StreamsOf(object[p]) \ {0}
        PROVE  /\ streams'[n].file = streams[n].file
               /\ streams'[n].fail = streams[n].fail
               /\ streams'[n].live => streams[n].live
               /\ n = object[p].own => streams'[n] = streams[n]
    <3>1. n \in 1..MaxStreams /\ streams[n] # NoStream
      BY <2>1, StreamsInUse
    <3>2. streams'[n] = strs[n]
      BY <1>3, <2>1, <3>1
    <3>3. n = object[p].own => n # object[o].own
      BY DEF FileInv, OwnersDiffer
    <3> QED
      BY <3>1, <3>2, <3>3 DEF Spares
  <2> QED
    BY <2>2 DEF Kept
<1>5. object'[o] = x
  BY <1>1
<1> QED
  BY <1>3, <1>4, <1>5 DEF OthersKept

(* Nor does the object itself, if it gives up the stream that is closed.   *)
LEMMA ItselfSpared ==
  ASSUME FileInv, NEW o \in Objects, NEW x, ObjectFine(x, streams),
         object' = [object EXCEPT ![o] = x],
         \/ streams' = Remembered(streams, object')
         \/ streams' = Remembered(Closed(object[o].own), object') /\ x.own = 0
  PROVE  /\ streams' \in StreamTables /\ OthersKept(o, streams')
         /\ ObjectFine(x, streams')
<1>1. /\ streams \in StreamTables /\ object[o].own \in 0..MaxStreams
  BY DEF FileInv, ObjectRecord
<1>2. PICK strs \in StreamTables :
        /\ streams' = Remembered(strs, object')
        /\ Spares(o, strs)
        /\ strs = streams \/ x.own = 0
  <2>1. CASE streams' = Remembered(streams, object')
    BY <1>1, <2>1 DEF Spares
  <2>2. CASE streams' = Remembered(Closed(object[o].own), object') /\ x.own = 0
    <3>1. PICK n \in 0..MaxStreams : n = object[o].own
      BY <1>1
    <3>2. /\ Closed(n) \in StreamTables
          /\ \A m \in 1..MaxStreams :
               /\ Closed(n)[m].file = streams[m].file
               /\ Closed(n)[m].fail = streams[m].fail
               /\ Closed(n)[m].live => streams[m].live
               /\ m # n => Closed(n)[m] = streams[m]
      BY <1>1, ClosedFacts
    <3> QED
      BY <2>2, <3>1, <3>2 DEF Spares
  <2> QED
    BY <2>1, <2>2
<1>3. /\ streams' \in StreamTables /\ OthersKept(o, streams')
      /\ \A n \in StreamsOf(x) : n \in 1..MaxStreams => streams'[n] = strs[n]
  BY <1>2, OthersSpared
<1>4. Kept(x, streams, streams')
  <2>1. ASSUME NEW n \in StreamsOf(x) \ {0}
        PROVE  /\ streams'[n].file = streams[n].file
               /\ streams'[n].fail = streams[n].fail
               /\ streams'[n].live => streams[n].live
               /\ n = x.own => streams'[n] = streams[n]
    <3>1. n \in 1..MaxStreams /\ streams[n] # NoStream
      BY StreamsInUse
    <3> QED
      BY <1>2, <1>3, <3>1 DEF Spares
  <2> QED
    BY <2>1 DEF Kept
<1>5. ObjectFine(x, streams')
  BY <1>4, KeptIsFine
<1> QED
  BY <1>3, <1>5

-----------------------------------------------------------------------------
(* New objects                                                             *)

LEMMA MandatoryFacts ==
  /\ Mandatory \in Seq(SectionRecord) /\ Len(Mandatory) = 2
  /\ Mandatory[1] = Section(0, 0, "NULL", 0)
  /\ Mandatory[2].index = 1 /\ Mandatory[2].name = ".shstrtab"
  /\ Mandatory[2].nameoff = 1 /\ Mandatory[2].type = "BITS"
  /\ Mandatory[2].size = 1 /\ Mandatory[2].held
  /\ Mandatory[2].text = <<".shstrtab">> /\ Mandatory[2].stream = 0
<1> DEFINE s == [Section(1, 1, "BITS", 1) EXCEPT
                   !.name = ".shstrtab", !.held = TRUE,
                   !.text = <<".shstrtab">>]
<1>1. /\ None \in Strings /\ ".shstrtab" \in Strings
      /\ "NULL" \in Types /\ "BITS" \in Types
  BY DEF Strings, Types
<1>2. <<".shstrtab">> \in Seq(Strings) /\ <<>> \in Seq(Strings)
      /\ 0 \in 0..MaxStreams
  BY <1>1, ElfFileAssumption
<1>3. Section(0, 0, "NULL", 0) \in SectionRecord
  BY <1>1, <1>2 DEF Section, SectionRecord
<1>4. /\ s \in SectionRecord /\ s.index = 1 /\ s.name = ".shstrtab"
      /\ s.nameoff = 1 /\ s.type = "BITS" /\ s.size = 1 /\ s.held
      /\ s.text = <<".shstrtab">> /\ s.stream = 0
  BY <1>1, <1>2 DEF Section, SectionRecord
<1>5. Mandatory = <<Section(0, 0, "NULL", 0), s>>
  BY DEF Mandatory
<1> HIDE DEF s
<1> QED
  BY <1>3, <1>4, <1>5

LEMMA NewIsFine ==
  ASSUME NEW own \in 0..MaxStreams, NEW strs,
         own # 0 => strs[own].file \in Files, NEW yes, yes = TRUE
  PROVE  ObjectFine(Object(1, Mandatory, <<>>, own, yes), strs)
<1> DEFINE x == Object(1, Mandatory, <<>>, own, yes)
<1>1. /\ x.header = 1 /\ x.sections = Mandatory /\ x.segments = <<>>
      /\ x.own = own /\ x.sound
  BY DEF Object
<1>2. <<>> \in Seq(SegmentRecord) /\ DOMAIN <<>> = {}
  OBVIOUS
<1>3. x \in ObjectRecord
  BY <1>2, MandatoryFacts DEF Object, ObjectRecord
<1> HIDE DEF x
<1>4. DOMAIN Mandatory = 1..2
  BY MandatoryFacts, LenProperties
<1>5. /\ Mandatory[1].index = 0 /\ ~Mandatory[1].held
      /\ Mandatory[1].text = <<>> /\ Mandatory[1].stream = 0
      /\ Mandatory[1].nameoff = 0 /\ Mandatory[1].name = None
  BY MandatoryFacts DEF Section
<1>6. \A k \in 1..2 : SectionFine(x.sections[k], k, strs)
  <2>1. Len(<<".shstrtab">>) = 1
    OBVIOUS
  <2>2. SectionFine(Mandatory[1], 1, strs)
    BY <1>5 DEF SectionFine, TextFits
  <2>3. SectionFine(Mandatory[2], 2, strs)
    BY <2>1, MandatoryFacts DEF SectionFine, TextFits
  <2>4. \A k \in 1..2 : k = 1 \/ k = 2
    OBVIOUS
  <2> QED
    BY <1>1, <2>2, <2>3, <2>4
<1>7. HasTable(x) /\ Table(x) = Mandatory[2]
  BY <1>1, <1>4, MandatoryFacts DEF HasTable, Table
<1>8. \A k \in 1..2 : NameFine(Mandatory[k], Mandatory[2])
  <2>1. /\ Len(<<".shstrtab">>) = 1 /\ DOMAIN <<".shstrtab">> = 1..1
        /\ <<".shstrtab">>[1] = ".shstrtab"
    OBVIOUS
  <2> QED
    BY <1>5, <2>1, MandatoryFacts DEF NameFine, NameIn
<1>9. Served(x, strs)
  BY <1>1, <1>2, <1>4, <1>5, MandatoryFacts DEF Served
<1> QED
  BY <1>1, <1>2, <1>3, <1>4, <1>6, <1>7, <1>8, <1>9
  DEF ObjectFine, Soundness, x

LEMMA InitFine == Init => FileInv
<1> SUFFICES ASSUME Init
             PROVE  FileInv
  OBVIOUS
<1> DEFINE x == Object(1, Mandatory, <<>>, 0, TRUE)
<1>1. PICK yes : yes = TRUE
  OBVIOUS
<1>2. x = Object(1, Mandatory, <<>>, 0, yes)
  BY <1>1
<1>3. ObjectFine(x, streams)
  <2> HIDE DEF x
  <2>1. 0 \in 0..MaxStreams
    BY ElfFileAssumption
  <2> QED
    BY <1>1, <1>2, <2>1, NewIsFine
<1>4. x \in ObjectRecord /\ x.own = 0
  BY <1>3 DEF ObjectFine, Object
<1>5. object = [o \in Objects |-> x] /\ fault = None
  BY DEF Init
<1>6. streams \in StreamTables
  BY DEF Init, StreamTables, NoStream, StreamRecord
<1> HIDE DEF x
<1> QED
  BY <1>3, <1>4, <1>5, <1>6
  DEF FileInv, AllFine, OwnersDiffer, SoundObjectsWork

LEMMA FineObject ==
  ASSUME FileInv, NEW o \in Objects
  PROVE  /\ ObjectFine(object[o], streams) /\ object[o] \in ObjectRecord
         /\ object[o].own \in 0..MaxStreams
         /\ object[o].own # 0 => streams[object[o].own].file \in Files
         /\ object \in [Objects -> ObjectRecord]
BY DEF FileInv, AllFine, ObjectFine, ObjectRecord

LEMMA CreateFine ==
  ASSUME FileInv, NEW o \in Objects, Create(o)
  PROVE  FileInv'
<1> DEFINE x == Object(1, Mandatory, <<>>, object[o].own, TRUE)
<1>1. PICK yes : yes = TRUE
  OBVIOUS
<1>2. x = Object(1, Mandatory, <<>>, object[o].own, yes)
  BY <1>1
<1>3. object' = [object EXCEPT ![o] = x]
  BY FineObject DEF Create, Cleared
<1>4. /\ streams' = Remembered(streams, object')
      /\ UNCHANGED fault /\ fault = None
  BY DEF Create, Usable
<1>5. x.own = object[o].own
  BY DEF Object
<1> HIDE DEF x
<1>6. ObjectFine(x, streams)
  <2>1. PICK own \in 0..MaxStreams : own = object[o].own
    BY FineObject
  <2> QED
    BY <1>1, <1>2, <2>1, FineObject, NewIsFine
<1>7. /\ streams' \in StreamTables /\ OthersKept(o, streams')
      /\ ObjectFine(x, streams')
  BY <1>3, <1>4, <1>6, ItselfSpared
<1>8. OwnedByNoOther(o, x.own)
  BY <1>5, OwnerKept
<1> QED
  BY <1>3, <1>4, <1>7, <1>8, OneObject

LEMMA RenewFine ==
  ASSUME FileInv, NEW o \in Objects, Renew(o)
  PROVE  FileInv'
<1> DEFINE x == Object(1, Mandatory, <<>>, 0, TRUE)
<1>1. PICK yes : yes = TRUE
  OBVIOUS
<1>2. x = Object(1, Mandatory, <<>>, 0, yes)
  BY <1>1
<1>3. /\ object' = [object EXCEPT ![o] = x]
      /\ streams' = Remembered(Closed(object[o].own), object')
      /\ UNCHANGED fault /\ fault = None
  BY DEF Renew
<1>4. x.own = 0
  BY DEF Object
<1> HIDE DEF x
<1>5. ObjectFine(x, streams)
  <2>1. 0 \in 0..MaxStreams
    BY ElfFileAssumption
  <2> QED
    BY <1>1, <1>2, <2>1, NewIsFine
<1>6. /\ streams' \in StreamTables /\ OthersKept(o, streams')
      /\ ObjectFine(x, streams')
  BY <1>3, <1>4, <1>5, ItselfSpared
<1>7. OwnedByNoOther(o, x.own)
  BY <1>4 DEF OwnedByNoOther
<1> QED
  BY <1>3, <1>6, <1>7, OneObject

LEMMA LoadMissingFine ==
  ASSUME FileInv, NEW o \in Objects, LoadMissing(o)
  PROVE  FileInv'
<1> DEFINE y == object[o]
           x == [y EXCEPT !.own = 0, !.sound = @ /\ ~Waiting(o)]
<1>1. ObjectFine(y, streams) /\ y \in ObjectRecord
  BY FineObject
<1>2. object' = [object EXCEPT ![o] = x]
  BY FineObject DEF LoadMissing
<1>3. /\ streams' = Remembered(Closed(object[o].own), object')
      /\ UNCHANGED fault /\ fault = None
  BY DEF LoadMissing, Usable
<1>4. /\ x.header = y.header /\ x.sections = y.sections
      /\ x.segments = y.segments /\ x.own = 0
      /\ x.sound = (y.sound /\ ~Waiting(o))
  BY <1>1 DEF ObjectRecord
<1>5. x \in ObjectRecord
  <2>1. PICK b \in BOOLEAN : b = (y.sound /\ ~Waiting(o))
    OBVIOUS
  <2>2. x = [y EXCEPT !.own = 0, !.sound = b]
    BY <2>1
  <2> HIDE DEF x, y
  <2>3. 0 \in 0..MaxStreams
    BY ElfFileAssumption
  <2> QED
    BY <1>1, <2>2, <2>3 DEF ObjectRecord
<1>6. Waiting(o) =
        \/ \E k \in DOMAIN y.sections :
              y.sections[k].stream # 0 /\ Fetches(y.sections[k])
        \/ \E g \in DOMAIN y.segments :
              y.segments[g].stream # 0 /\ ~y.segments[g].loaded
  BY DEF Waiting
<1> HIDE DEF x, y
<1>7. ObjectFine(x, streams)
  <2>1. ASSUME x.sound
        PROVE  Soundness(x, streams)
    <3>1. y.sound /\ ~Waiting(o)
      BY <1>4, <2>1
    <3>2. Soundness(y, streams)
      BY <1>1, <3>1 DEF ObjectFine
    <3>3. Served(x, streams)
      BY <1>4, <1>6, <3>1 DEF Served
    <3>4. HasTable(x) /\ Table(x) = Table(y)
      BY <1>4, <3>2 DEF Soundness, HasTable, Table
    <3> QED
      BY <1>4, <3>2, <3>3, <3>4 DEF Soundness
  <2> QED
    BY <1>1, <1>4, <1>5, <2>1 DEF ObjectFine
<1>8. /\ streams' \in StreamTables /\ OthersKept(o, streams')
      /\ ObjectFine(x, streams')
  BY <1>2, <1>3, <1>4, <1>7, ItselfSpared
<1>9. OwnedByNoOther(o, x.own)
  BY <1>4 DEF OwnedByNoOther
<1> QED
  BY <1>2, <1>3, <1>8, <1>9, OneObject

LEMMA LoadFine ==
  ASSUME FileInv, NEW o \in Objects, NEW f \in Files, NEW lazy \in BOOLEAN,
         Load(o, f, lazy)
  PROVE  FileInv'
<1> DEFINE Free(m) == /\ streams[m] = NoStream
                      /\ \A l \in 1..m - 1 : streams[l] # NoStream
           free == CHOOSE m \in DOMAIN streams : Free(m)
<1>1. /\ streams \in StreamTables /\ DOMAIN streams = 1..MaxStreams
      /\ MaxStreams \in Nat
  BY ElfFileAssumption DEF FileInv, StreamTables
<1>2. free \in 1..MaxStreams /\ streams[free] = NoStream
  <2> DEFINE empty == {m \in 1..MaxStreams : streams[m] = NoStream}
  <2>1. empty \in SUBSET Nat /\ empty # {}
    BY <1>1 DEF Load
  <2> HIDE DEF empty
  <2>2. PICK m \in empty : \A l \in empty : m <= l
    BY <2>1, LeastElement
  <2>3. m \in 1..MaxStreams /\ streams[m] = NoStream
    BY DEF empty
  <2>4. \A l \in 1..m - 1 : streams[l] # NoStream
    <3>1. ASSUME NEW l \in 1..m - 1, streams[l] = NoStream
          PROVE  FALSE
      <4>1. l \in empty /\ ~(m <= l)
        BY <1>1, <2>3, <3>1 DEF empty
      <4> QED
        BY <2>2, <4>1
    <3> QED
      BY <3>1
  <2>5. Free(m) /\ m \in DOMAIN streams
    BY <1>1, <2>3, <2>4
  <2>6. Free(free) /\ free \in DOMAIN streams
    <3> HIDE DEF Free
    <3> QED
      BY <2>5
  <2> QED
    BY <1>1, <2>6
<1>3. PICK n \in 1..MaxStreams : n = free
  BY <1>2
<1> DEFINE r == AfterLoad(o, f, n, lazy)
           own == IF lazy THEN n ELSE 0
           x == [r.object EXCEPT !.own = own]
           stream == [file |-> f, live |-> lazy, fail |-> r.fail]
           closed == Closed(object[o].own)
           strs == [closed EXCEPT ![n] = stream]
<1>4. /\ object' = [object EXCEPT ![o] = x]
      /\ streams' = Remembered(strs, object')
      /\ UNCHANGED fault /\ fault = None
  <2> HIDE DEF free
  <2>1. LET m == free
            q == AfterLoad(o, f, m, lazy)
        IN /\ object' = [object EXCEPT
                ![o] = [q.object EXCEPT !.own = IF lazy THEN m ELSE 0]]
           /\ streams' = Remembered(
                [Closed(object[o].own) EXCEPT
                   ![m] = [file |-> f, live |-> StaysOpen(lazy),
                           fail |-> q.fail]],
                object')
    BY Zenon DEF Load, free
  <2>2. UNCHANGED fault /\ fault = None
    BY DEF Load, Usable
  <2> QED
    BY <1>3, <2>1, <2>2, Zenon DEF StaysOpen
<1> HIDE DEF free
<1>5. /\ closed \in StreamTables
      /\ \A m \in 1..MaxStreams :
           /\ closed[m].file = streams[m].file
           /\ closed[m].fail = streams[m].fail
           /\ closed[m].live => streams[m].live
           /\ m # object[o].own => closed[m] = streams[m]
  <2>1. PICK m \in 0..MaxStreams : m = object[o].own
    BY FineObject
  <2>2. Closed(m) = closed
    BY <2>1
  <2> HIDE DEF closed
  <2> QED
    BY <1>1, <2>1, <2>2, ClosedFacts
<1> HIDE DEF closed
<1>6. DOMAIN strs = 1..MaxStreams /\ strs[n] = stream
      /\ \A m \in 1..MaxStreams : m # n => strs[m] = closed[m]
  BY <1>5 DEF StreamTables
<1>7. r.fail \in BOOLEAN /\ ObjectFine(x, strs)
  <2>1. strs[n] = [file |-> f, live |-> lazy, fail |-> AfterLoad(o, f, n, lazy).fail]
    BY <1>6
  <2>2. PICK q : q = strs
    OBVIOUS
  <2> HIDE DEF strs
  <2>3. LET a == AfterLoad(o, f, n, lazy)
        IN /\ a.fail \in BOOLEAN
           /\ ObjectFine([a.object EXCEPT !.own = IF lazy THEN n ELSE 0], q)
    BY <2>1, <2>2, FineObject, AfterLoadFine
  <2> QED
    BY <2>2, <2>3
<1>8. x.own = own
  <2>1. x \in ObjectRecord
    BY <1>7 DEF ObjectFine
  <2>2. "own" \in DOMAIN x
    BY <2>1 DEF ObjectRecord
  <2>3. DOMAIN x = DOMAIN r.object
    OBVIOUS
  <2> QED
    BY <2>2, <2>3
<1> HIDE DEF x, own, r
<1>9. strs \in StreamTables
  <2>1. stream \in StreamRecord
    BY <1>7 DEF StreamRecord
  <2> QED
    BY <1>5, <2>1 DEF StreamTables
<1> HIDE DEF strs
<1>10. Spares(o, strs)
  BY <1>1, <1>2, <1>3, <1>5, <1>6 DEF Spares
<1>11. /\ streams' \in StreamTables /\ OthersKept(o, streams')
       /\ \A m \in StreamsOf(x) : m \in 1..MaxStreams => streams'[m] = strs[m]
  BY <1>4, <1>9, <1>10, OthersSpared
<1>12. ObjectFine(x, streams')
  <2>1. \A m \in StreamsOf(x) \ {0} : streams'[m] = strs[m]
    BY <1>7, <1>11, StreamsInUse
  <2>2. Kept(x, strs, streams')
    BY <2>1 DEF Kept
  <2> QED
    BY <1>7, <2>2, KeptIsFine
<1>13. OwnedByNoOther(o, x.own)
  <2>1. ASSUME NEW p \in Objects, object[p].own = n
        PROVE  FALSE
    <3>1. ObjectFine(object[p], streams) /\ object[p] \in ObjectRecord
      BY FineObject
    <3>2. n \in StreamsOf(object[p]) \ {0}
      BY <2>1, <3>1, ObjectTyped
    <3>3. streams[n] # NoStream
      BY <3>1, <3>2, StreamsInUse
    <3> QED
      BY <1>2, <1>3, <3>3
  <2>2. own = n \/ own = 0
    BY DEF own
  <2> QED
    BY <1>8, <2>1, <2>2 DEF OwnedByNoOther
<1> QED
  BY <1>4, <1>11, <1>12, <1>13, OneObject

-----------------------------------------------------------------------------
(* Steps that keep the sections' headers: reading, saving, new segments    *)

SectionsRefreshed(secs, y, strs) ==
  \A k \in 1..Len(y.sections) :
    /\ SectionFine(secs[k], k, strs)
    /\ secs[k].name = y.sections[k].name
    /\ secs[k].nameoff = y.sections[k].nameoff
    /\ secs[k].type = y.sections[k].type
    /\ secs[k].size = y.sections[k].size
    /\ y.sections[k].held =>
         secs[k].held /\ secs[k].text = y.sections[k].text
    /\ secs[k].stream = y.sections[k].stream
    /\ Fetches(secs[k]) => Fetches(y.sections[k])

SegmentsFine(segs, count, strs) ==
  \A g \in 1..Len(segs) : SegmentFine(segs[g], g, count, strs)

SegmentsServed(segs, own, strs) ==
  \A g \in 1..Len(segs) :
    segs[g].stream # 0 /\ ~segs[g].loaded =>
      \/ segs[g].stream = own /\ strs[own].live
      \/ ~strs[segs[g].stream].live /\ ~segs[g].bytes

LEMMA SameName ==
  ASSUME NEW s \in SectionRecord, NEW t \in SectionRecord,
         s.held \/ s.size = 0, TextFits(s), TextFits(t), t.size = s.size,
         s.held => t.held /\ t.text = s.text
  PROVE  /\ t.text = s.text
         /\ \A p \in Nat : NameIn(t, p) = NameIn(s, p)
<1>1. s.text \in Seq(Strings) /\ t.text \in Seq(Strings)
  BY DEF SectionRecord
<1>2. CASE s.held
  BY <1>2 DEF NameIn
<1>3. CASE ~s.held
  <2>1. s.text = <<>> /\ s.size = 0
    BY <1>3 DEF TextFits
  <2>2. t.text = <<>>
    BY <1>1, <2>1, EmptySeq DEF TextFits
  <2>3. DOMAIN <<>> = {}
    OBVIOUS
  <2> QED
    BY <2>1, <2>2, <2>3 DEF NameIn
<1> QED
  BY <1>2, <1>3

LEMMA RefreshedIsFine ==
  ASSUME NEW y, NEW strs, ObjectFine(y, strs),
         NEW secs \in Seq(SectionRecord), Len(secs) = Len(y.sections),
         NEW segs \in Seq(SegmentRecord), NEW b \in BOOLEAN, b => y.sound,
         SectionsRefreshed(secs, y, strs),
         SegmentsFine(segs, Len(y.sections), strs),
         b => SegmentsServed(segs, y.own, strs)
  PROVE  ObjectFine([y EXCEPT !.sections = secs, !.segments = segs,
                              !.sound = b], strs)
<1> DEFINE x == [y EXCEPT !.sections = secs, !.segments = segs, !.sound = b]
<1>1. /\ y \in ObjectRecord
      /\ DOMAIN y.sections = 1..Len(y.sections) /\ Len(y.sections) \in Nat
      /\ \A k \in 1..Len(y.sections) : y.sections[k] \in SectionRecord
  BY ObjectTyped DEF ObjectFine
<1>2. /\ x.header = y.header /\ x.sections = secs /\ x.segments = segs
      /\ x.own = y.own /\ x.sound = b /\ x \in ObjectRecord
  BY <1>1 DEF ObjectRecord
<1> HIDE DEF x
<1>3. /\ DOMAIN secs = 1..Len(y.sections) /\ DOMAIN segs = 1..Len(segs)
      /\ \A k \in 1..Len(y.sections) : secs[k] \in SectionRecord
  BY LenProperties
<1>4. ASSUME b
      PROVE  Soundness(x, strs)
  <2>1. Soundness(y, strs)
    BY <1>4 DEF ObjectFine
  <2> DEFINE n == y.header + 1
  <2>2. /\ y.header \in Nat \ {0} /\ n \in DOMAIN y.sections
        /\ y.sections[n].type = "BITS"
        /\ y.sections[n].held \/ y.sections[n].size = 0
    BY <2>1 DEF Soundness, HasTable, Table
  <2>3. /\ TextFits(y.sections[n]) /\ TextFits(secs[n])
        /\ secs[n].type = "BITS" /\ secs[n].size = y.sections[n].size
        /\ y.sections[n].held =>
             secs[n].held /\ secs[n].text = y.sections[n].text
    BY <1>1, <2>2 DEF ObjectFine, SectionsRefreshed, SectionFine
  <2>4. /\ secs[n].text = y.sections[n].text
        /\ \A p \in Nat : NameIn(secs[n], p) = NameIn(y.sections[n], p)
    BY <1>1, <1>3, <2>2, <2>3, SameName
  <2>5. HasTable(x) /\ Table(x) = secs[n]
    BY <1>1, <1>2, <1>3, <2>2, <2>3 DEF HasTable, Table
  <2>6. \A k \in DOMAIN x.sections : NameFine(x.sections[k], Table(x))
    <3>1. ASSUME NEW k \in 1..Len(y.sections)
          PROVE  NameFine(secs[k], secs[n])
      <4>1. NameFine(y.sections[k], y.sections[n])
        BY <1>1, <2>1 DEF Soundness, Table
      <4>2. /\ secs[k].name = y.sections[k].name
            /\ secs[k].nameoff = y.sections[k].nameoff
            /\ secs[k].nameoff \in Nat
        BY <1>3 DEF SectionsRefreshed, SectionRecord
      <4> QED
        BY <2>4, <4>1, <4>2 DEF NameFine
    <3> QED
      BY <1>2, <1>3, <2>5, <3>1
  <2>7. Served(x, strs)
    <3>1. ASSUME NEW k \in 1..Len(y.sections), secs[k].stream # 0,
                 Fetches(secs[k])
          PROVE  secs[k].stream = y.own /\ strs[y.own].live
      BY <1>1, <2>1, <3>1 DEF Soundness, Served, SectionsRefreshed
    <3> QED
      BY <1>2, <1>3, <1>4, <3>1 DEF Served, SegmentsServed
  <2> QED
    BY <2>5, <2>6, <2>7 DEF Soundness
<1>5. \A k \in DOMAIN x.sections : SectionFine(x.sections[k], k, strs)
  BY <1>2, <1>3 DEF SectionsRefreshed
<1>6. \A g \in DOMAIN x.segments :
        SegmentFine(x.segments[g], g, Len(x.sections), strs)
  BY <1>2, <1>3 DEF SegmentsFine
<1>7. x.own # 0 => strs[x.own].file \in Files
  BY <1>2 DEF ObjectFine
<1>8. ObjectFine(x, strs)
  BY <1>2, <1>4, <1>5, <1>6, <1>7 DEF ObjectFine
<1> QED
  BY <1>8 DEF x

(* Of a fine object, the parts as they are                                 *)
LEMMA PartsAreFine ==
  ASSUME NEW y, NEW strs, ObjectFine(y, strs)
  PROVE  /\ y \in ObjectRecord /\ y.sound \in BOOLEAN
         /\ y.sections \in Seq(SectionRecord)
         /\ y.segments \in Seq(SegmentRecord)
         /\ SectionsRefreshed(y.sections, y, strs)
         /\ SegmentsFine(y.segments, Len(y.sections), strs)
         /\ y.sound => SegmentsServed(y.segments, y.own, strs)
<1>1. y \in ObjectRecord
  BY DEF ObjectFine
<1>2. /\ DOMAIN y.sections = 1..Len(y.sections)
      /\ DOMAIN y.segments = 1..Len(y.segments)
  BY <1>1, ObjectTyped
<1> QED
  BY <1>1, <1>2
  DEF ObjectRecord, ObjectFine, SectionsRefreshed, SegmentsFine,
      SegmentsServed, Soundness, Served

(* A step on one object that leaves the streams alone                      *)
LEMMA SameStreams ==
  ASSUME FileInv, fault = None, UNCHANGED <<streams, fault>>,
         NEW o \in Objects, NEW x, object' = [object EXCEPT ![o] = x],
         ObjectFine(x, streams), x.own = object[o].own
  PROVE  FileInv'
<1>1. streams' \in StreamTables /\ ObjectFine(x, streams')
  BY DEF FileInv
<1>2. OthersKept(o, streams')
  BY SameStreamsKept
<1>3. OwnedByNoOther(o, x.own)
  BY OwnerKept
<1> QED
  BY <1>1, <1>2, <1>3, OneObject

LEMMA AddSegmentFine ==
  ASSUME FileInv, NEW o \in Objects, AddSegment(o)
  PROVE  FileInv'
<1> DEFINE y == object[o]
           new == Segment(Len(y.segments), FALSE, {})
           segs == Append(y.segments, new)
           x == [y EXCEPT !.segments = segs]
           z == [y EXCEPT !.sections = y.sections, !.segments = segs,
                          !.sound = y.sound]
<1>1. ObjectFine(y, streams) /\ y \in ObjectRecord
  BY FineObject
<1>2. object' = [object EXCEPT ![o] = x]
  BY FineObject DEF AddSegment
<1>3. fault = None /\ UNCHANGED <<streams, fault>>
  BY DEF AddSegment, Usable
<1> HIDE DEF y
<1>4. x = z /\ z.own = y.own
  BY <1>1 DEF ObjectRecord
<1>5. /\ y.sound \in BOOLEAN /\ y.sections \in Seq(SectionRecord)
      /\ y.segments \in Seq(SegmentRecord)
      /\ SectionsRefreshed(y.sections, y, streams)
      /\ SegmentsFine(y.segments, Len(y.sections), streams)
      /\ y.sound => SegmentsServed(y.segments, y.own, streams)
  BY <1>1, PartsAreFine
<1>6. Len(y.segments) \in Nat
  BY <1>5, LenProperties
<1>7. /\ new \in SegmentRecord /\ new.index = Len(y.segments)
      /\ new.members = {} /\ new.stream = 0 /\ ~new.unlimited
  <2>1. 0 \in 0..MaxStreams
    BY ElfFileAssumption
  <2> QED
    BY <1>6, <2>1 DEF Segment, SegmentRecord
<1> HIDE DEF new
<1>8. /\ segs \in Seq(SegmentRecord) /\ Len(segs) = Len(y.segments) + 1
      /\ segs[Len(y.segments) + 1] = new
      /\ \A g \in 1..Len(y.segments) : segs[g] = y.segments[g]
  BY <1>5, <1>7, AppendProperties
<1> HIDE DEF segs
<1>9. \A g \in 1..Len(segs) :
        g \in 1..Len(y.segments) \/ g = Len(y.segments) + 1
  BY <1>6, <1>8
<1>10. SegmentFine(new, Len(y.segments) + 1, Len(y.sections), streams)
  BY <1>6, <1>7 DEF SegmentFine
<1>11. SegmentsFine(segs, Len(y.sections), streams)
  BY <1>5, <1>8, <1>9, <1>10 DEF SegmentsFine
<1>12. y.sound => SegmentsServed(segs, y.own, streams)
  BY <1>5, <1>7, <1>8, <1>9 DEF SegmentsServed
<1>13. ObjectFine(z, streams)
  BY <1>1, <1>5, <1>8, <1>11, <1>12, RefreshedIsFine
<1> HIDE DEF x, z
<1> QED
  BY <1>2, <1>3, <1>4, <1>13, SameStreams DEF y

LEMMA AddToSegmentFine ==
  ASSUME FileInv, NEW o \in Objects, NEW g \in DOMAIN object[o].segments,
         NEW k \in DOMAIN object[o].sections, AddToSegment(o, g, k)
  PROVE  FileInv'
<1> DEFINE y == object[o]
           old == y.segments[g]
           members == old.members \cup {y.sections[k].index}
           new == [old EXCEPT !.members = members]
           segs == [y.segments EXCEPT ![g] = new]
           x == [y EXCEPT !.segments = segs]
           z == [y EXCEPT !.sections = y.sections, !.segments = segs,
                          !.sound = y.sound]
<1>1. ObjectFine(y, streams) /\ y \in ObjectRecord
  BY FineObject
<1>2. object' = [object EXCEPT ![o] = x]
  BY FineObject DEF AddToSegment
<1>3. fault = None /\ UNCHANGED <<streams, fault>>
  BY DEF AddToSegment, Usable
<1>4. g \in DOMAIN y.segments /\ k \in DOMAIN y.sections
  OBVIOUS
<1> HIDE DEF y
<1>5. x = z /\ z.own = y.own
  BY <1>1 DEF ObjectRecord
<1>6. /\ y.sound \in BOOLEAN /\ y.sections \in Seq(SectionRecord)
      /\ y.segments \in Seq(SegmentRecord)
      /\ SectionsRefreshed(y.sections, y, streams)
      /\ SegmentsFine(y.segments, Len(y.sections), streams)
      /\ y.sound => SegmentsServed(y.segments, y.own, streams)
  BY <1>1, PartsAreFine
<1>7. /\ Len(y.sections) \in Nat /\ DOMAIN y.sections = 1..Len(y.sections)
      /\ Len(y.segments) \in Nat /\ DOMAIN y.segments = 1..Len(y.segments)
      /\ \A h \in 1..Len(y.segments) : y.segments[h] \in SegmentRecord
  BY <1>6, LenProperties
<1>8. y.sections[k].index \in 0..Len(y.sections) - 1
  BY <1>4, <1>6, <1>7 DEF SectionsRefreshed, SectionFine
<1>9. old \in SegmentRecord /\ SegmentFine(old, g, Len(y.sections), streams)
  BY <1>4, <1>6, <1>7 DEF SegmentsFine
<1>10. members \subseteq 0..Len(y.sections) - 1 /\ members \in SUBSET Nat
  BY <1>7, <1>8, <1>9 DEF SegmentFine
<1> HIDE DEF members, old
<1>11. /\ new \in SegmentRecord /\ new.index = old.index
       /\ new.members = members /\ new.stream = old.stream
       /\ new.loaded = old.loaded /\ new.bytes = old.bytes
       /\ new.unlimited = old.unlimited
  BY <1>9, <1>10 DEF SegmentRecord
<1> HIDE DEF new
<1>12. /\ segs \in Seq(SegmentRecord) /\ Len(segs) = Len(y.segments)
       /\ segs[g] = new
       /\ \A h \in 1..Len(y.segments) : h # g => segs[h] = y.segments[h]
  <2>1. g \in 1..Len(y.segments)
    BY <1>4, <1>7
  <2> QED
    BY <1>6, <1>7, <1>11, <2>1, ExceptSeq
<1> HIDE DEF segs
<1>13. SegmentFine(new, g, Len(y.sections), streams)
  BY <1>9, <1>10, <1>11 DEF SegmentFine
<1>14. SegmentsFine(segs, Len(y.sections), streams)
  BY <1>6, <1>12, <1>13 DEF SegmentsFine
<1>15. y.sound => SegmentsServed(segs, y.own, streams)
  BY <1>4, <1>6, <1>7, <1>11, <1>12 DEF SegmentsServed, old
<1>16. ObjectFine(z, streams)
  BY <1>1, <1>6, <1>12, <1>14, <1>15, RefreshedIsFine
<1> HIDE DEF x, z
<1> QED
  BY <1>2, <1>3, <1>5, <1>16, SameStreams DEF y

LEMMA SaveFine ==
  ASSUME FileInv, NEW o \in Objects, Save(o)
  PROVE  FileInv'
<1> DEFINE y == object[o]
           segs == [g \in DOMAIN y.segments |-> Sized(y.segments[g], y.sections)]
           secs == [k \in DOMAIN y.sections |-> Offset(y.sections[k])]
           grown == \E g \in DOMAIN segs :
                      /\ segs[g].bytes /\ ~segs[g].loaded
                      /\ segs[g].stream # 0 /\ ~streams[segs[g].stream].live
           sound == y.sound /\ ~grown
           z == [y EXCEPT !.sections = secs, !.segments = segs, !.sound = sound]
<1>1. ObjectFine(y, streams) /\ y \in ObjectRecord
  BY FineObject
<1>2. object' = [object EXCEPT ![o] = z]
  <2>1. object' = [object EXCEPT
          ![o] = [object[o] EXCEPT
                    !.segments = segs,
                    !.sections = [k \in DOMAIN @ |-> Offset(@[k])],
                    !.sound = @ /\ ~grown]]
    <3> HIDE DEF segs
    <3> QED
      BY FineObject, Zenon DEF Save, segs
  <2>2. [object[o] EXCEPT
           !.segments = segs,
           !.sections = [k \in DOMAIN @ |-> Offset(@[k])],
           !.sound = @ /\ ~grown] = z
    <3> HIDE DEF segs, grown
    <3> QED
      BY <1>1 DEF ObjectRecord
  <2> QED
    BY <2>1, <2>2
<1>3. fault = None /\ UNCHANGED <<streams, fault>>
  BY DEF Save, Usable
<1> HIDE DEF y
<1>4. z.own = y.own
  BY <1>1 DEF ObjectRecord
<1>5. /\ y.sound \in BOOLEAN /\ y.sections \in Seq(SectionRecord)
      /\ y.segments \in Seq(SegmentRecord)
      /\ SectionsRefreshed(y.sections, y, streams)
      /\ SegmentsFine(y.segments, Len(y.sections), streams)
      /\ y.sound => SegmentsServed(y.segments, y.own, streams)
  BY <1>1, PartsAreFine
<1>6. /\ Len(y.sections) \in Nat /\ DOMAIN y.sections = 1..Len(y.sections)
      /\ Len(y.segments) \in Nat /\ DOMAIN y.segments = 1..Len(y.segments)
      /\ \A g \in 1..Len(y.segments) : y.segments[g] \in SegmentRecord
      /\ \A k \in 1..Len(y.sections) : y.sections[k] \in SectionRecord
  BY <1>5, LenProperties
<1>7. ASSUME NEW k \in 1..Len(y.sections)
      PROVE  LET s == y.sections[k]
             IN /\ secs[k] \in SectionRecord
                /\ secs[k] = [s EXCEPT !.moved = secs[k].moved]
                /\ s.moved => secs[k].moved
  <2> DEFINE s == y.sections[k]
             moved == s.moved \/ (s.index # 0 /\ s.stream # 0 /\ Fetches(s))
  <2>1. s \in SectionRecord /\ moved \in BOOLEAN
    BY <1>6
  <2>2. secs[k] = [s EXCEPT !.moved = moved]
    BY <1>6 DEF Offset
  <2> HIDE DEF moved, s, secs
  <2>3. secs[k] \in SectionRecord /\ secs[k].moved = moved
    BY <2>1, <2>2 DEF SectionRecord
  <2> QED
    BY <2>2, <2>3 DEF s, moved
<1>8. ASSUME NEW g \in 1..Len(y.segments)
      PROVE  /\ segs[g] \in SegmentRecord
             /\ segs[g].index = y.segments[g].index
             /\ segs[g].members = y.segments[g].members
             /\ segs[g].loaded = y.segments[g].loaded
             /\ segs[g].stream = y.segments[g].stream
             /\ segs[g].unlimited = y.segments[g].unlimited
  <2> DEFINE s == y.segments[g]
             moved == s.moved \/ (s.stream # 0 /\ ~s.loaded)
             bytes == \E m \in s.members :
                        /\ y.sections[m + 1].type # "NOBITS"
                        /\ y.sections[m + 1].size > 0
  <2>1. s \in SegmentRecord /\ moved \in BOOLEAN /\ bytes \in BOOLEAN
    BY <1>6
  <2>2. segs[g] = [s EXCEPT !.moved = moved, !.bytes = bytes]
    BY <1>6 DEF Sized
  <2> HIDE DEF moved, bytes, s, segs
  <2> QED
    BY <2>1, <2>2 DEF SegmentRecord, s
<1>9. secs \in [1..Len(y.sections) -> SectionRecord]
  BY <1>6, <1>7
<1>10. segs \in [1..Len(y.segments) -> SegmentRecord]
  BY <1>6, <1>8
<1>11. /\ secs \in Seq(SectionRecord) /\ Len(secs) = Len(y.sections)
       /\ segs \in Seq(SegmentRecord) /\ Len(segs) = Len(y.segments)
       /\ DOMAIN segs = 1..Len(y.segments)
  <2> HIDE DEF secs, segs
  <2> QED
    BY <1>6, <1>9, <1>10, SeqDef, LenProperties, SMTT(40)
<1> HIDE DEF secs, segs
<1>12. SectionsRefreshed(secs, y, streams)
  <2>1. ASSUME NEW k \in 1..Len(y.sections)
        PROVE  /\ SectionFine(secs[k], k, streams)
               /\ secs[k].name = y.sections[k].name
               /\ secs[k].nameoff = y.sections[k].nameoff
               /\ secs[k].type = y.sections[k].type
               /\ secs[k].size = y.sections[k].size
               /\ y.sections[k].held =>
                    secs[k].held /\ secs[k].text = y.sections[k].text
               /\ secs[k].stream = y.sections[k].stream
               /\ Fetches(secs[k]) => Fetches(y.sections[k])
    <3> DEFINE s == y.sections[k]
               t == secs[k]
    <3>1. s \in SectionRecord /\ t = [s EXCEPT !.moved = t.moved]
          /\ (s.moved => t.moved) /\ SectionFine(s, k, streams)
      BY <1>5, <1>6, <1>7 DEF SectionsRefreshed
    <3> HIDE DEF s, t
    <3>2. /\ t.index = s.index /\ t.name = s.name /\ t.nameoff = s.nameoff
          /\ t.type = s.type /\ t.size = s.size /\ t.held = s.held
          /\ t.text = s.text /\ t.loaded = s.loaded
          /\ t.loadable = s.loadable /\ t.unlimited = s.unlimited
          /\ t.stream = s.stream
      BY <3>1 DEF SectionRecord
    <3>3. SectionFine(t, k, streams)
      BY <3>1, <3>2 DEF SectionFine, TextFits, FromFile
    <3> QED
      BY <3>2, <3>3 DEF Fetches, s, t
  <2> QED
    BY <2>1 DEF SectionsRefreshed
<1>13. SegmentsFine(segs, Len(y.sections), streams)
  BY <1>5, <1>8, <1>11 DEF SegmentsFine, SegmentFine
<1>14. sound => SegmentsServed(segs, y.own, streams)
  <2>1. ASSUME sound, NEW g \in 1..Len(segs), segs[g].stream # 0,
               ~segs[g].loaded
        PROVE  \/ segs[g].stream = y.own /\ streams[y.own].live
               \/ ~streams[segs[g].stream].live /\ ~segs[g].bytes
    <3>1. y.sound /\ ~grown
      BY <2>1
    <3>2. ~segs[g].bytes \/ streams[segs[g].stream].live
      BY <1>11, <2>1, <3>1
    <3>3. \/ segs[g].stream = y.own /\ streams[y.own].live
          \/ ~streams[segs[g].stream].live
      BY <1>5, <1>8, <1>11, <2>1, <3>1 DEF SegmentsServed
    <3> QED
      BY <3>2, <3>3
  <2> HIDE DEF sound
  <2> QED
    BY <2>1 DEF SegmentsServed
<1>15. sound \in BOOLEAN /\ (sound => y.sound)
  OBVIOUS
<1>16. ObjectFine(z, streams)
  <2> HIDE DEF sound
  <2> QED
    BY <1>1, <1>11, <1>12, <1>13, <1>14, <1>15, RefreshedIsFine
<1> HIDE DEF z
<1> QED
  BY <1>2, <1>3, <1>4, <1>16, SameStreams DEF y

-----------------------------------------------------------------------------
(* get_data() of a section, of a segment                                   *)

LEMMA CrashFine ==
  ASSUME FileInv, NEW o \in Objects, Crash(o), ~object[o].sound
  PROVE  FileInv'
<1>1. object' = object /\ streams' = streams /\ fault' = o
  BY DEF Crash
<1>2. AllFine' /\ OwnersDiffer'
  BY <1>1 DEF FileInv, AllFine, OwnersDiffer
<1>3. SoundObjectsWork'
  BY <1>1 DEF SoundObjectsWork
<1> QED
  BY <1>1, <1>2, <1>3 DEF FileInv

(* What may become of a section when its bytes are asked for               *)
Refreshed(t, s) ==
  /\ t \in SectionRecord /\ SameHeader(t, s) /\ TextFits(t)
  /\ s.held => t.held /\ t.text = s.text
  /\ Fetches(t) => Fetches(s)

LEMMA OneSectionFine ==
  ASSUME NEW y, NEW strs, ObjectFine(y, strs), NEW k \in DOMAIN y.sections,
         NEW t, Refreshed(t, y.sections[k]), SectionFine(t, k, strs)
  PROVE  LET x == [y EXCEPT !.sections[k] = t]
         IN ObjectFine(x, strs) /\ x.own = y.own
<1> DEFINE secs == [y.sections EXCEPT ![k] = t]
           x == [y EXCEPT !.sections[k] = t]
           z == [y EXCEPT !.sections = secs, !.segments = y.segments,
                          !.sound = y.sound]
<1>1. y \in ObjectRecord
  BY DEF ObjectFine
<1>2. x = z /\ z.own = y.own
  BY <1>1 DEF ObjectRecord
<1>3. /\ y.sound \in BOOLEAN /\ y.sections \in Seq(SectionRecord)
      /\ y.segments \in Seq(SegmentRecord)
      /\ SectionsRefreshed(y.sections, y, strs)
      /\ SegmentsFine(y.segments, Len(y.sections), strs)
      /\ y.sound => SegmentsServed(y.segments, y.own, strs)
  BY PartsAreFine
<1>4. Len(y.sections) \in Nat /\ DOMAIN y.sections = 1..Len(y.sections)
  BY <1>3, LenProperties
<1>5. /\ secs \in Seq(SectionRecord) /\ Len(secs) = Len(y.sections)
      /\ secs[k] = t
      /\ \A h \in 1..Len(y.sections) : h # k => secs[h] = y.sections[h]
  <2>1. k \in 1..Len(y.sections) /\ t \in SectionRecord
    BY <1>4 DEF Refreshed
  <2> QED
    BY <1>3, <1>4, <2>1, ExceptSeq
<1> HIDE DEF secs
<1>6. SectionsRefreshed(secs, y, strs)
  BY <1>3, <1>5 DEF SectionsRefreshed, Refreshed, SameHeader
<1>7. PICK segs \in Seq(SegmentRecord), b \in BOOLEAN :
        segs = y.segments /\ b = y.sound
  BY <1>3
<1>8. z = [y EXCEPT !.sections = secs, !.segments = segs, !.sound = b]
  BY <1>7
<1> HIDE DEF z
<1>9. ObjectFine(z, strs)
  <2>1. secs \in Seq(SectionRecord) /\ Len(secs) = Len(y.sections)
    BY <1>5
  <2>2. /\ SegmentsFine(segs, Len(y.sections), strs) /\ (b => y.sound)
        /\ b => SegmentsServed(segs, y.own, strs)
    BY <1>3, <1>7
  <2> QED
    BY <1>6, <1>8, <2>1, <2>2, RefreshedIsFine, Zenon
<1> QED
  BY <1>2, <1>9

(* The header-table entry of a section, if it comes from a file            *)
LEMMA EntryFacts ==
  ASSUME NEW strs \in StreamTables, NEW s \in SectionRecord,
         NEW k \in Nat, SectionFine(s, k, strs), s.stream # 0
  PROVE  LET st == strs[s.stream]
             e == st.file.secs[s.index + 1]
         IN /\ s.stream \in 1..MaxStreams
            /\ st \in StreamRecord /\ st.file \in Files
            /\ k \in DOMAIN st.file.secs /\ e = st.file.secs[k]
            /\ e.inside \in BOOLEAN /\ e.text \in Seq(Strings)
<1> DEFINE n == s.stream
           file == strs[n].file
<1>1. n \in 1..MaxStreams
  BY ElfFileAssumption DEF SectionRecord
<1>2. strs[n] \in StreamRecord
  BY <1>1 DEF StreamTables
<1>3. /\ file \in Files /\ k \in DOMAIN file.secs /\ IsFile(file)
      /\ s.index = k - 1
  BY ElfFileAssumption DEF SectionFine, FromFile
<1>4. s.index + 1 = k
  BY <1>3
<1> HIDE DEF n, file
<1>5. /\ file.secs[k].inside \in BOOLEAN
      /\ file.secs[k].text \in Seq(Strings)
  BY <1>3, SectionsOfFile
<1> QED
  BY <1>1, <1>2, <1>3, <1>4, <1>5 DEF n, file

(* get_data() of a fine section, asked for for the first time              *)
LEMMA FetchedIsFine ==
  ASSUME NEW strs \in StreamTables, NEW s \in SectionRecord,
         NEW k \in Nat, SectionFine(s, k, strs), s.stream # 0, Fetches(s),
         s.type = "BITS"
  PROVE  LET st == strs[s.stream]
             e == st.file.secs[s.index + 1]
             t == GetData(s, e, st.fail)
             after == FailAfter(s, e, st.fail)
         IN /\ Refreshed(t, s) /\ SectionFine(t, k, strs)
            /\ after \in BOOLEAN
            /\ TablesInside(st.file) => after = st.fail
<1> DEFINE st == strs[s.stream]
           f == st.file
           e == f.secs[s.index + 1]
           t == GetData(s, e, st.fail)
           after == FailAfter(s, e, st.fail)
<1>1. /\ st \in StreamRecord /\ f \in Files /\ k \in DOMAIN f.secs
      /\ e = f.secs[k] /\ e.inside \in BOOLEAN /\ e.text \in Seq(Strings)
  BY EntryFacts
<1>2. /\ s.index = k - 1 /\ TextFits(s) /\ FromFile(s, k, f)
      /\ TablesInside(f) => ~st.fail
  BY DEF SectionFine
<1> HIDE DEF e, f, st
<1>3. st.fail \in BOOLEAN
  BY <1>1 DEF StreamRecord
<1>4. ~s.held => s.size = Len(e.text)
  BY <1>1, <1>2 DEF FromFile
<1>5. /\ t \in SectionRecord /\ SameHeader(t, s) /\ TextFits(t)
      /\ after \in BOOLEAN /\ ~Fetches(t)
      /\ s.held => t.held /\ t.text = s.text
      /\ ~s.unlimited => after = st.fail
      /\ s.loadable /\ ~s.unlimited /\ ~st.fail /\ e.inside => t.loadable
  BY <1>1, <1>2, <1>3, <1>4, GetDataFacts
<1> HIDE DEF t, after
<1>6. Refreshed(t, s)
  BY <1>5 DEF Refreshed
<1>7. FromFile(t, k, f)
  <2>1. /\ t.type = s.type /\ t.size = s.size /\ t.unlimited = s.unlimited
        /\ t.moved = s.moved /\ s.loadable
    BY <1>5 DEF SameHeader, Fetches
  <2> QED
    BY <1>1, <1>2, <1>5, <2>1 DEF FromFile
<1>8. SectionFine(t, k, strs)
  BY <1>1, <1>2, <1>5, <1>7 DEF SectionFine, SameHeader, f, st
<1>9. TablesInside(f) => after = st.fail
  BY <1>2, <1>5 DEF FromFile
<1> QED
  BY <1>5, <1>6, <1>8, <1>9, Zenon DEF t, after, e, f, st

(* ... or, after a save gave it another offset: nothing, or other bytes    *)
LEMMA MisreadIsFine ==
  ASSUME NEW strs, NEW s \in SectionRecord, NEW k \in Nat,
         SectionFine(s, k, strs), Fetches(s), s.moved, ~s.held,
         NEW t, \/ t = Failed(s)
                \/ t = Loaded(s, [i \in 1..s.size |-> None])
  PROVE  Refreshed(t, s) /\ SectionFine(t, k, strs)
<1>1. s.size \in Nat /\ None \in Strings /\ TextFits(s)
  BY DEF SectionRecord, Strings, SectionFine
<1>2. Refreshed(t, s) /\ t.moved
  <2>1. CASE t = Failed(s)
    <3>1. t = [s EXCEPT !.loadable = FALSE]
      BY <2>1 DEF Failed
    <3> QED
      BY <1>1, <3>1 DEF Refreshed, SectionRecord, SameHeader, TextFits
  <2>2. CASE t = Loaded(s, [i \in 1..s.size |-> None])
    <3> DEFINE text == [i \in 1..s.size |-> None]
    <3>1. text \in [1..s.size -> Strings]
      BY <1>1
    <3>2. text \in Seq(Strings) /\ Len(text) = s.size
      BY <1>1, <3>1, SeqDef, LenProperties
    <3>3. t = [s EXCEPT !.held = TRUE, !.loaded = TRUE, !.text = text]
      BY <2>2 DEF Loaded
    <3> HIDE DEF text
    <3> QED
      BY <1>1, <3>2, <3>3 DEF Refreshed, SectionRecord, SameHeader, TextFits
  <2> QED
    BY <2>1, <2>2
<1> QED
  BY <1>2 DEF SectionFine, FromFile, Refreshed, SameHeader

(* No object notices that a stream fails, except if its tables are not     *)
(* all in the file.                                                        *)
LEMMA FailingIsKept ==
  ASSUME NEW strs \in StreamTables, NEW n \in 1..MaxStreams,
         NEW after \in BOOLEAN,
         TablesInside(strs[n].file) => after = strs[n].fail
  PROVE  LET new == [strs EXCEPT ![n] = [@ EXCEPT !.fail = after]]
         IN /\ new \in StreamTables
            /\ \A z : ObjectFine(z, strs) => Kept(z, strs, new)
<1> DEFINE new == [strs EXCEPT ![n] = [@ EXCEPT !.fail = after]]
<1>1. \A m \in 1..MaxStreams : strs[m] \in StreamRecord
  BY DEF StreamTables
<1>2. [strs[n] EXCEPT !.fail = after] \in StreamRecord
  BY <1>1 DEF StreamRecord
<1>3. /\ new \in StreamTables
      /\ \A m \in 1..MaxStreams :
           /\ new[m].file = strs[m].file /\ new[m].live = strs[m].live
           /\ m # n => new[m].fail = strs[m].fail
      /\ new[n].fail = after
  BY <1>1, <1>2 DEF StreamTables, StreamRecord
<1> HIDE DEF new
<1>4. ASSUME NEW z, ObjectFine(z, strs)
      PROVE  Kept(z, strs, new)
  <2>1. \A m \in StreamsOf(z) \ {0} : m \in 1..MaxStreams
    BY <1>4, StreamsInUse
  <2> QED
    BY <1>3, <2>1 DEF Kept
<1> QED
  BY <1>3, <1>4 DEF new

(* A step on one object and the failbit of a stream                        *)
LEMMA FailingStream ==
  ASSUME FileInv, fault = None, UNCHANGED fault, NEW o \in Objects, NEW x,
         object' = [object EXCEPT ![o] = x], ObjectFine(x, streams),
         x.own = object[o].own,
         NEW n \in 1..MaxStreams, NEW after \in BOOLEAN,
         TablesInside(streams[n].file) => after = streams[n].fail,
         streams' = [streams EXCEPT ![n] = [@ EXCEPT !.fail = after]]
  PROVE  FileInv'
<1>1. /\ streams' \in StreamTables
      /\ \A z : ObjectFine(z, streams) => Kept(z, streams, streams')
  BY FailingIsKept DEF FileInv
<1>2. ObjectFine(x, streams')
  BY <1>1, KeptIsFine
<1>3. OthersKept(o, streams')
  BY <1>1, FineObject DEF OthersKept
<1>4. OwnedByNoOther(o, x.own)
  BY OwnerKept
<1> QED
  BY <1>1, <1>2, <1>3, <1>4, OneObject

LEMMA FetchSectionFine ==
  ASSUME FileInv, NEW o \in Objects, NEW k \in DOMAIN object[o].sections,
         FetchSection(o, k)
  PROVE  FileInv'
<1>1. PICK y : /\ y = object[o] /\ y \in ObjectRecord
               /\ ObjectFine(y, streams) /\ k \in DOMAIN y.sections
  BY FineObject
<1>2. PICK s \in SectionRecord :
        s = y.sections[k] /\ SectionFine(s, k, streams) /\ k \in Nat
  BY <1>1, ObjectTyped DEF ObjectFine
<1>3. PICK st : st = streams[s.stream]
  OBVIOUS
<1>4. PICK e : e = st.file.secs[s.index + 1]
  OBVIOUS
<1> DEFINE becomes(t) == object' = [object EXCEPT ![o].sections[k] = t]
           Ends == UNCHANGED <<streams, fault>>
<1>5. fault = None /\ s.stream # 0 /\ Fetches(s) /\ s.type = "BITS"
  <2>1. Usable(o) /\ s.stream # 0 /\ Fetches(s) /\ s.type = "BITS"
    BY <1>1, <1>2, Zenon DEF FetchSection
  <2> QED
    BY <2>1 DEF Usable
<1>6. IF s.moved /\ ~s.held /\ s.size > 0
        THEN \/ becomes(Failed(s)) /\ Ends
             \/ /\ st.live /\ ~st.fail
                /\ becomes(Loaded(s, [i \in 1..s.size |-> None]))
                /\ Ends
             \/ ~st.live /\ Crash(o)
      ELSE IF Reads(s, e) /\ ~st.live THEN Crash(o)
      ELSE /\ becomes(GetData(s, e, st.fail))
           /\ streams' = [streams EXCEPT
                ![s.stream].fail = FailAfter(s, e, @)]
           /\ UNCHANGED fault
  BY <1>1, <1>2, <1>3, <1>4, Zenon DEF FetchSection, Entry
<1>7. ~st.live => ~y.sound
  BY <1>1, <1>2, <1>3, <1>5 DEF ObjectFine, Soundness, Served
<1>8. ASSUME NEW t, Refreshed(t, s), SectionFine(t, k, streams), becomes(t)
      PROVE  \E x : /\ object' = [object EXCEPT ![o] = x]
                    /\ ObjectFine(x, streams) /\ x.own = object[o].own
  <2> DEFINE x == [y EXCEPT !.sections[k] = t]
  <2>1. object' = [object EXCEPT ![o] = x]
    BY <1>1, <1>8, FineObject
  <2>2. ObjectFine(x, streams) /\ x.own = y.own
    <3>1. Refreshed(t, y.sections[k])
      BY <1>2, <1>8
    <3> QED
      BY <1>1, <1>8, <3>1, OneSectionFine
  <2> HIDE DEF x
  <2> QED
    BY <1>1, <2>1, <2>2
<1>9. CASE ~st.live /\ Crash(o)
  BY <1>1, <1>7, <1>9, CrashFine
<1>10. CASE s.moved /\ ~s.held /\ Ends
              /\ \/ becomes(Failed(s))
                 \/ becomes(Loaded(s, [i \in 1..s.size |-> None]))
  <2>1. PICK t : /\ becomes(t)
                 /\ \/ t = Failed(s)
                    \/ t = Loaded(s, [i \in 1..s.size |-> None])
    BY <1>10
  <2>2. Refreshed(t, s) /\ SectionFine(t, k, streams)
    BY <1>2, <1>5, <1>10, <2>1, MisreadIsFine
  <2>3. PICK x : /\ object' = [object EXCEPT ![o] = x]
                 /\ ObjectFine(x, streams) /\ x.own = object[o].own
    <3> HIDE DEF becomes
    <3> QED
      BY <1>8, <2>1, <2>2
  <2> QED
    BY <1>5, <1>10, <2>3, SameStreams
<1>11. CASE /\ becomes(GetData(s, e, st.fail))
            /\ streams' = [streams EXCEPT
                 ![s.stream].fail = FailAfter(s, e, @)]
            /\ UNCHANGED fault
  <2>1. PICK t, after :
          t = GetData(s, e, st.fail) /\ after = FailAfter(s, e, st.fail)
    OBVIOUS
  <2>2. streams \in StreamTables
    BY DEF FileInv
  <2>3. /\ Refreshed(t, s) /\ SectionFine(t, k, streams)
        /\ after \in BOOLEAN
        /\ TablesInside(st.file) => after = st.fail
    BY <1>2, <1>3, <1>4, <1>5, <2>1, <2>2, FetchedIsFine, Zenon
  <2>4. s.stream \in 1..MaxStreams
    BY <1>2, <1>5, <2>2, EntryFacts
  <2>5. streams' = [streams EXCEPT ![s.stream] = [@ EXCEPT !.fail = after]]
    BY <1>3, <1>11, <2>1, <2>2, <2>4 DEF StreamTables
  <2>6. becomes(t)
    BY <1>11, <2>1
  <2>7. PICK x : /\ object' = [object EXCEPT ![o] = x]
                 /\ ObjectFine(x, streams) /\ x.own = object[o].own
    <3> HIDE DEF becomes
    <3> QED
      BY <1>8, <2>3, <2>6
  <2> QED
    BY <1>3, <1>5, <1>11, <2>3, <2>4, <2>5, <2>7, FailingStream
<1> HIDE DEF becomes
<1> QED
  BY <1>6, <1>9, <1>10, <1>11

LEMMA OneSegmentFine ==
  ASSUME NEW y, NEW strs, ObjectFine(y, strs), NEW g \in DOMAIN y.segments,
         ~y.segments[g].loaded, NEW b \in BOOLEAN
  PROVE  LET x == [y EXCEPT !.segments[g].loaded = b]
         IN ObjectFine(x, strs) /\ x.own = y.own
<1> DEFINE old == y.segments[g]
           new == [old EXCEPT !.loaded = b]
           segs == [y.segments EXCEPT ![g] = new]
           x == [y EXCEPT !.segments[g].loaded = b]
           z == [y EXCEPT !.sections = y.sections, !.segments = segs,
                          !.sound = y.sound]
<1>1. y \in ObjectRecord
  BY DEF ObjectFine
<1>2. /\ y.sound \in BOOLEAN /\ y.sections \in Seq(SectionRecord)
      /\ y.segments \in Seq(SegmentRecord)
      /\ SectionsRefreshed(y.sections, y, strs)
      /\ SegmentsFine(y.segments, Len(y.sections), strs)
      /\ y.sound => SegmentsServed(y.segments, y.own, strs)
  BY PartsAreFine
<1>3. /\ Len(y.segments) \in Nat /\ DOMAIN y.segments = 1..Len(y.segments)
      /\ \A h \in 1..Len(y.segments) : y.segments[h] \in SegmentRecord
  BY <1>2, LenProperties
<1>4. x = z /\ z.own = y.own
  BY <1>1, <1>3 DEF ObjectRecord, SegmentRecord
<1>5. /\ new \in SegmentRecord /\ new.index = old.index
      /\ new.members = old.members /\ new.stream = old.stream
      /\ new.bytes = old.bytes /\ new.unlimited = old.unlimited
  BY <1>3 DEF SegmentRecord
<1> HIDE DEF new
<1>6. /\ segs \in Seq(SegmentRecord) /\ Len(segs) = Len(y.segments)
      /\ segs[g] = new
      /\ \A h \in 1..Len(y.segments) : h # g => segs[h] = y.segments[h]
  <2>1. g \in 1..Len(y.segments)
    BY <1>3
  <2> QED
    BY <1>2, <1>3, <1>5, <2>1, ExceptSeq
<1> HIDE DEF segs
<1>7. SegmentFine(old, g, Len(y.sections), strs)
  BY <1>2, <1>3 DEF SegmentsFine
<1>8. SegmentsFine(segs, Len(y.sections), strs)
  BY <1>2, <1>5, <1>6, <1>7 DEF SegmentsFine, SegmentFine
<1>9. y.sound => SegmentsServed(segs, y.own, strs)
  BY <1>2, <1>3, <1>5, <1>6 DEF SegmentsServed
<1>10. ObjectFine(z, strs)
  BY <1>1, <1>2, <1>6, <1>8, <1>9, RefreshedIsFine, Zenon
<1> HIDE DEF z
<1> QED
  BY <1>4, <1>10

LEMMA FetchSegmentFine ==
  ASSUME FileInv, NEW o \in Objects, NEW g \in DOMAIN object[o].segments,
         FetchSegment(o, g)
  PROVE  FileInv'
<1>1. PICK y : /\ y = object[o] /\ y \in ObjectRecord
               /\ ObjectFine(y, streams) /\ g \in DOMAIN y.segments
  BY FineObject
<1>2. PICK s \in SegmentRecord :
        /\ s = y.segments[g]
        /\ SegmentFine(s, g, Len(y.sections), streams)
  BY <1>1, ObjectTyped DEF ObjectFine
<1>3. PICK st : st = streams[s.stream]
  OBVIOUS
<1>4. PICK e : e = st.file.segs[s.index + 1]
  OBVIOUS
<1> DEFINE good == e.inside \/ s.moved
<1>5. /\ fault = None /\ s.stream # 0 /\ ~s.loaded /\ s.bytes
      /\ InBounds(s, e) \/ s.moved
  <2>1. /\ Usable(o) /\ s.stream # 0 /\ ~s.loaded /\ s.bytes
        /\ InBounds(s, e) \/ s.moved
    BY <1>1, <1>2, <1>3, <1>4, Zenon DEF FetchSegment
  <2> QED
    BY <2>1 DEF Usable
<1>6. IF ~st.live THEN Crash(o)
      ELSE /\ object' = [object EXCEPT
                ![o].segments[g].loaded = ~st.fail /\ good]
           /\ streams' = [streams EXCEPT ![s.stream].fail = @ \/ ~good]
           /\ UNCHANGED fault
  BY <1>1, <1>2, <1>3, <1>4, Zenon DEF FetchSegment
<1>7. good
  BY <1>2, <1>5 DEF InBounds, SegmentFine
<1>8. CASE ~st.live
  <2>1. Crash(o)
    BY <1>6, <1>8
  <2>2. ~y.sound
    BY <1>1, <1>2, <1>3, <1>5, <1>8 DEF ObjectFine, Soundness, Served
  <2> QED
    BY <1>1, <2>1, <2>2, CrashFine
<1>9. CASE st.live
  <2>1. streams \in StreamTables /\ s.stream \in 1..MaxStreams
    BY <1>2, <1>5, ElfFileAssumption DEF FileInv, SegmentRecord
  <2>2. st \in StreamRecord /\ st.fail \in BOOLEAN
    BY <1>3, <2>1 DEF StreamTables, StreamRecord
  <2>3. PICK b \in BOOLEAN, after \in BOOLEAN :
          /\ b = (~st.fail /\ good) /\ after = (st.fail \/ ~good)
          /\ after = st.fail
    BY <1>7, <2>2
  <2> DEFINE x == [y EXCEPT !.segments[g].loaded = b]
  <2>4. /\ object' = [object EXCEPT ![o].segments[g].loaded = b]
        /\ streams' = [streams EXCEPT ![s.stream].fail = @ \/ ~good]
        /\ UNCHANGED fault
    BY <1>6, <1>9, <2>3
  <2>5. streams' = [streams EXCEPT ![s.stream] = [@ EXCEPT !.fail = after]]
    <3> HIDE DEF good
    <3> QED
      BY <1>3, <2>1, <2>3, <2>4 DEF StreamTables
  <2>6. object' = [object EXCEPT ![o] = x]
    BY <1>1, <2>4, FineObject
  <2>7. ObjectFine(x, streams) /\ x.own = y.own
    <3>1. ~y.segments[g].loaded
      BY <1>2, <1>5
    <3> QED
      BY <1>1, <3>1, OneSegmentFine
  <2> HIDE DEF x
  <2> QED
    BY <1>1, <1>3, <1>5, <2>1, <2>3, <2>4, <2>5, <2>6, <2>7, FailingStream
<1> QED
  BY <1>8, <1>9

-----------------------------------------------------------------------------
(* sections.add()                                                          *)

(* String table s with one more string, n                                  *)
Extended(w, s, n) ==
  /\ w \in SectionRecord /\ TextFits(w) /\ w.held
  /\ s.size \in Nat /\ Len(s.text) = s.size /\ Len(w.text) = s.size + 1
  /\ w.index = s.index /\ w.name = s.name /\ w.nameoff = s.nameoff
  /\ w.type = s.type /\ w.stream = s.stream
  /\ w.loaded = s.loaded /\ w.loadable = s.loadable
  /\ w.unlimited = s.unlimited /\ w.moved = s.moved
  /\ \A p \in 0..s.size : NameIn(w, p) = NameIn(s, p)
  /\ NameIn(w, s.size + 1) = n

LEMMA WithStringFacts ==
  ASSUME NEW s \in SectionRecord, TextFits(s), s.held \/ s.size = 0,
         NEW n \in Strings
  PROVE  Extended(WithString(s, n), s, n)
<1> DEFINE w == WithString(s, n)
<1>1. /\ s.size \in Nat /\ s.text \in Seq(Strings) /\ Len(s.text) = s.size
      /\ s.held \/ s.text = <<>>
  BY DEF SectionRecord, TextFits
<1> DEFINE text == Append(s.text, n)
<1>2. /\ text \in Seq(Strings) /\ Len(text) = s.size + 1
      /\ text[s.size + 1] = n
      /\ \A p \in 1..s.size : text[p] = s.text[p]
  BY <1>1, AppendProperties
<1>3. DOMAIN text = 1..s.size + 1 /\ DOMAIN s.text = 1..s.size
  BY <1>1, <1>2, LenProperties
<1> HIDE DEF text
<1>4. w = [s EXCEPT !.held = TRUE, !.size = s.size + 1, !.text = text]
  BY DEF WithString, text
<1> HIDE DEF w
<1>5. /\ w \in SectionRecord /\ w.held /\ w.text = text
      /\ w.size = s.size + 1
      /\ w.index = s.index /\ w.name = s.name /\ w.nameoff = s.nameoff
      /\ w.type = s.type /\ w.stream = s.stream
      /\ w.loaded = s.loaded /\ w.loadable = s.loadable
      /\ w.unlimited = s.unlimited /\ w.moved = s.moved
  <2>1. PICK size \in Nat : size = s.size + 1
    BY <1>1
  <2>2. w = [s EXCEPT !.held = TRUE, !.size = size, !.text = text]
    BY <1>4, <2>1
  <2>3. text \in Seq(Strings)
    BY <1>2
  <2> QED
    BY <2>1, <2>2, <2>3 DEF SectionRecord
<1>6. ASSUME NEW p \in 0..s.size
      PROVE  NameIn(w, p) = NameIn(s, p)
  <2>1. CASE p = 0
    BY <1>1, <1>3, <1>5, <2>1 DEF NameIn
  <2>2. CASE p # 0
    <3>1. p \in 1..s.size /\ p \in 1..s.size + 1 /\ s.held
      <4>1. p \in 1..s.size /\ p \in 1..s.size + 1
        BY <1>1, <2>2
      <4> QED
        BY <1>1, <4>1
    <3> QED
      BY <1>2, <1>3, <1>5, <3>1 DEF NameIn
  <2> QED
    BY <2>1, <2>2
<1>7. NameIn(w, s.size + 1) = n
  BY <1>1, <1>2, <1>3, <1>5 DEF NameIn
<1> QED
  BY <1>1, <1>2, <1>5, <1>6, <1>7 DEF w, TextFits, Extended

(* The sections after an addition: the t-th is the string table.           *)
Added(old, final, t, n) ==
  LET len == Len(old)
  IN /\ final \in Seq(SectionRecord) /\ Len(final) = len + 1
     /\ \A k \in 1..len : k # t => final[k] = old[k]
     /\ t \in 1..len => final[t] = WithString(old[t], n)
     /\ final[len + 1].index = len /\ TextFits(final[len + 1])
     /\ final[len + 1].stream = 0
     /\ t \in 1..len =>
          final[len + 1].name = n /\ final[len + 1].nameoff = old[t].size + 1

LEMMA AddedSections ==
  ASSUME NEW old \in Seq(SectionRecord), NEW n \in Strings, NEW secs,
         secs = Append(old, [Section(Len(old), 0, "BITS", 0)
                               EXCEPT !.name = n]),
         NEW t \in DOMAIN secs, TextFits(secs[t]),
         secs[t].held \/ secs[t].size = 0
  PROVE  Added(old,
               [[secs EXCEPT ![t] = WithString(@, n)]
                  EXCEPT ![Len(old) + 1].nameoff = NameOffset(secs[t])],
               t, n)
<1> DEFINE len == Len(old)
           new == [Section(len, 0, "BITS", 0) EXCEPT !.name = n]
           w == WithString(secs[t], n)
           mid == [secs EXCEPT ![t] = w]
           last == [mid[len + 1] EXCEPT !.nameoff = secs[t].size + 1]
           final == [mid EXCEPT ![len + 1] = last]
<1>1. len \in Nat /\ 0 \in 0..MaxStreams /\ <<>> \in Seq(Strings)
      /\ "BITS" \in Types /\ Len(<<>>) = 0
  BY LenProperties, ElfFileAssumption DEF Types
<1>2. /\ new \in SectionRecord /\ new.index = len /\ TextFits(new)
      /\ new.stream = 0 /\ new.name = n /\ new.size = 0 /\ ~new.held
  BY <1>1 DEF Section, SectionRecord, TextFits
<1> HIDE DEF new
<1>3. /\ secs \in Seq(SectionRecord) /\ Len(secs) = len + 1
      /\ secs[len + 1] = new /\ \A k \in 1..len : secs[k] = old[k]
  <2>1. secs = Append(old, new)
    BY DEF new
  <2> QED
    BY <1>2, <2>1, AppendProperties
<1> HIDE DEF len
<1>4. /\ t \in 1..len + 1 /\ len + 1 \in 1..len + 1
      /\ \A k \in 1..len + 1 : secs[k] \in SectionRecord
  <2>1. DOMAIN secs = 1..len + 1
    BY <1>3, LenProperties
  <2> QED
    BY <1>1, <1>3, <2>1, LenProperties
<1>5. PICK s \in SectionRecord :
        s = secs[t] /\ TextFits(s) /\ (s.held \/ s.size = 0)
  BY <1>4
<1>6. w = WithString(s, n) /\ s.size \in Nat
  BY <1>5 DEF SectionRecord
<1>7. /\ w \in SectionRecord /\ TextFits(w) /\ w.index = s.index
      /\ w.stream = s.stream
  <2>1. Extended(WithString(s, n), s, n)
    BY <1>5, WithStringFacts
  <2> HIDE DEF w
  <2> QED
    BY <1>6, <2>1 DEF Extended
<1> HIDE DEF w
<1>8. /\ mid \in Seq(SectionRecord) /\ Len(mid) = len + 1 /\ mid[t] = w
      /\ \A k \in 1..len + 1 : k # t => mid[k] = secs[k]
  <2>1. PICK q \in Seq(SectionRecord) : q = secs
    BY <1>3
  <2>2. PICK i \in 1..Len(q) : i = t
    BY <1>3, <1>4, <2>1
  <2> DEFINE r == [q EXCEPT ![i] = w]
  <2>3. /\ r \in Seq(SectionRecord) /\ Len(r) = Len(q)
        /\ \A k \in 1..Len(q) : r[k] = IF k = i THEN w ELSE q[k]
    BY <1>7, ExceptSeq
  <2>4. mid = r
    BY <2>1, <2>2
  <2> HIDE DEF mid, r
  <2> QED
    BY <1>3, <1>4, <2>1, <2>2, <2>3, <2>4
<1> HIDE DEF mid
<1>9. PICK m \in SectionRecord : m = mid[len + 1]
  BY <1>4, <1>8, LenProperties
<1>10. m = IF t = len + 1 THEN w ELSE new
  BY <1>3, <1>4, <1>8, <1>9
<1>11. /\ last \in SectionRecord /\ last.index = m.index
       /\ last.stream = m.stream /\ (TextFits(m) => TextFits(last))
       /\ last.name = m.name /\ last.nameoff = s.size + 1
  <2>1. last = [m EXCEPT !.nameoff = s.size + 1]
    BY <1>5, <1>9
  <2> HIDE DEF last
  <2>2. /\ last \in SectionRecord /\ last.index = m.index
        /\ last.stream = m.stream /\ last.name = m.name
        /\ last.nameoff = s.size + 1
        /\ last.held = m.held /\ last.text = m.text /\ last.size = m.size
    <3>1. PICK off \in Nat : off = s.size + 1
      BY <1>6
    <3>2. last = [m EXCEPT !.nameoff = off]
      BY <2>1, <3>1
    <3> QED
      BY <3>1, <3>2 DEF SectionRecord
  <2> QED
    BY <2>2 DEF TextFits
<1>12. m.index = len /\ m.stream = 0 /\ TextFits(m)
  <2>1. CASE t = len + 1
    BY <1>2, <1>3, <1>5, <1>7, <1>10, <2>1
  <2>2. CASE t # len + 1
    BY <1>2, <1>10, <2>2
  <2> QED
    BY <2>1, <2>2
<1> HIDE DEF last
<1>13. /\ final \in Seq(SectionRecord) /\ Len(final) = len + 1
       /\ final[len + 1] = last
       /\ \A k \in 1..len + 1 : k # len + 1 => final[k] = mid[k]
  BY <1>4, <1>8, <1>11, ExceptSeq
<1>14. final = [[secs EXCEPT ![t] = WithString(@, n)]
                  EXCEPT ![Len(old) + 1].nameoff = NameOffset(secs[t])]
  <2>1. mid = [secs EXCEPT ![t] = WithString(@, n)]
    BY <1>4 DEF mid, w
  <2>2. final = [mid EXCEPT ![len + 1].nameoff = NameOffset(secs[t])]
    BY <1>8, <1>4 DEF last, NameOffset
  <2> QED
    BY <2>1, <2>2 DEF len
<1> HIDE DEF final
<1>15. \A k \in 1..len : k \in 1..len + 1 /\ k # len + 1
  BY <1>1
<1>16. t \in 1..len => w = WithString(old[t], n) /\ s = old[t] /\ m.name = n
  BY <1>2, <1>3, <1>5, <1>6, <1>10, <1>15
<1>17. Added(old, final, t, n)
  BY <1>3, <1>8, <1>11, <1>12, <1>13, <1>15, <1>16
  DEF Added, len
<1> QED
  BY <1>14, <1>17

LEMMA AddedIsFine ==
  ASSUME NEW y, NEW strs, ObjectFine(y, strs), y.header \in Nat,
         NEW n \in Strings, NEW final, NEW t \in Nat, t = y.header + 1,
         Added(y.sections, final, t, n),
         t \in 1..Len(y.sections) =>
           y.sections[t].held \/ y.sections[t].size = 0
  PROVE  LET x == [y EXCEPT !.sections = final]
         IN ObjectFine(x, strs) /\ x.own = y.own
<1> DEFINE x == [y EXCEPT !.sections = final]
           len == Len(y.sections)
<1>1. /\ y \in ObjectRecord
      /\ DOMAIN y.sections = 1..len /\ len \in Nat
      /\ \A k \in 1..len : y.sections[k] \in SectionRecord
      /\ DOMAIN y.segments = 1..Len(y.segments)
  BY ObjectTyped DEF ObjectFine
<1>2. /\ final \in Seq(SectionRecord) /\ Len(final) = len + 1
      /\ \A k \in 1..len : k # t => final[k] = y.sections[k]
      /\ t \in 1..len => final[t] = WithString(y.sections[t], n)
      /\ final[len + 1].index = len /\ TextFits(final[len + 1])
      /\ final[len + 1].stream = 0
      /\ t \in 1..len => /\ final[len + 1].name = n
                         /\ final[len + 1].nameoff = y.sections[t].size + 1
  BY DEF Added
<1>3. /\ x.header = y.header /\ x.sections = final
      /\ x.segments = y.segments /\ x.own = y.own /\ x.sound = y.sound
      /\ x \in ObjectRecord
  BY <1>1, <1>2 DEF ObjectRecord
<1> HIDE DEF x
<1>4. /\ DOMAIN final = 1..len + 1
      /\ \A k \in 1..len + 1 : k \in 1..len \/ k = len + 1
  <2>1. DOMAIN final = 1..len + 1
    BY <1>2, LenProperties
  <2> QED
    BY <1>1, <2>1
<1>5. \A k \in 1..len : SectionFine(y.sections[k], k, strs)
  BY <1>1 DEF ObjectFine
<1> HIDE DEF len
<1>6. ASSUME t \in 1..len
      PROVE  Extended(final[t], y.sections[t], n)
  <2>1. PICK s \in SectionRecord : s = y.sections[t]
    BY <1>1, <1>6
  <2>2. TextFits(s) /\ (s.held \/ s.size = 0) /\ s.size \in Nat
    BY <1>5, <1>6, <2>1 DEF SectionFine, len, SectionRecord
  <2>3. PICK w : w = WithString(s, n)
    OBVIOUS
  <2>4. final[t] = w
    BY <1>2, <1>6, <2>1, <2>3
  <2>5. Extended(w, s, n)
    BY <2>2, <2>3, WithStringFacts
  <2> QED
    BY <2>1, <2>4, <2>5
<1>7. ASSUME NEW k \in 1..len
      PROVE  /\ SectionFine(final[k], k, strs)
             /\ final[k].name = y.sections[k].name
             /\ final[k].nameoff = y.sections[k].nameoff
             /\ final[k].stream = y.sections[k].stream
             /\ Fetches(final[k]) <=> Fetches(y.sections[k])
  <2>1. CASE k # t
    BY <1>2, <1>5, <2>1
  <2>2. CASE k = t
    <3>1. Extended(final[t], y.sections[t], n)
      BY <1>6, <2>2
    <3>2. SectionFine(y.sections[t], t, strs)
      BY <1>5, <2>2
    <3>3. PICK s, w : s = y.sections[t] /\ w = final[t]
      OBVIOUS
    <3>4. Extended(w, s, n) /\ SectionFine(s, t, strs)
      BY <3>1, <3>2, <3>3
    <3>5. /\ SectionFine(w, t, strs) /\ w.name = s.name
          /\ w.nameoff = s.nameoff /\ w.stream = s.stream
          /\ Fetches(w) <=> Fetches(s)
      BY <3>4 DEF Extended, SectionFine, FromFile, Fetches
    <3> QED
      BY <2>2, <3>3, <3>5
  <2> QED
    BY <2>1, <2>2
<1>8. SectionFine(final[len + 1], len + 1, strs)
  BY <1>1, <1>2 DEF SectionFine
<1>9. \A k \in DOMAIN x.sections : SectionFine(x.sections[k], k, strs)
  BY <1>3, <1>4, <1>7, <1>8
<1>10. \A g \in DOMAIN x.segments :
         SegmentFine(x.segments[g], g, Len(x.sections), strs)
  <2>1. ASSUME NEW g \in DOMAIN y.segments
        PROVE  SegmentFine(y.segments[g], g, len + 1, strs)
    <3>1. PICK s : s = y.segments[g] /\ SegmentFine(s, g, len, strs)
      BY DEF ObjectFine, len
    <3>2. PICK count \in Nat : count = len + 1
      BY <1>1
    <3>3. s.members \subseteq 0..count - 1
      <4>1. s.members \subseteq 0..len - 1
        BY <3>1 DEF SegmentFine
      <4>2. 0..len - 1 \subseteq 0..count - 1
        BY <1>1, <3>2
      <4> QED
        BY <4>1, <4>2
    <3>4. SegmentFine(s, g, count, strs)
      BY <3>1, <3>3 DEF SegmentFine
    <3> QED
      BY <3>1, <3>2, <3>4
  <2> QED
    BY <1>2, <1>3, <2>1
<1>11. ASSUME y.sound
       PROVE  Soundness(x, strs)
  <2>1. Soundness(y, strs)
    BY <1>11 DEF ObjectFine
  <2>2. /\ t \in 1..len /\ y.header # 0
        /\ y.sections[t].type = "BITS"
    BY <1>1, <2>1 DEF Soundness, HasTable, Table
  <2>3. PICK s, w :
          /\ s = y.sections[t] /\ w = final[t] /\ w.held
          /\ s.size \in Nat
          /\ Len(s.text) = s.size /\ Len(w.text) = s.size + 1
          /\ w.type = s.type
          /\ \A p \in 0..s.size : NameIn(w, p) = NameIn(s, p)
          /\ NameIn(w, s.size + 1) = n
    BY <1>6, <2>2 DEF Extended
  <2>4. HasTable(x) /\ Table(x) = w
    <3>1. t \in DOMAIN x.sections
      BY <1>1, <1>3, <1>4, <2>2
    <3> QED
      BY <1>3, <2>2, <2>3, <3>1 DEF HasTable, Table
  <2>5. ASSUME NEW k \in 1..len + 1
        PROVE  NameFine(final[k], w)
    <3>1. CASE k \in 1..len
      <4>1. NameFine(y.sections[k], s)
        BY <1>1, <2>1, <2>3, <3>1 DEF Soundness, Table
      <4>2. final[k].name = y.sections[k].name
            /\ final[k].nameoff = y.sections[k].nameoff
        BY <1>7, <3>1
      <4>3. final[k].nameoff \in 0..s.size
        BY <2>3, <4>1, <4>2 DEF NameFine
      <4> QED
        BY <2>3, <4>1, <4>2, <4>3, SMTT(40) DEF NameFine
    <3>2. CASE k = len + 1
      <4>1. final[k].name = n /\ final[k].nameoff = s.size + 1
        BY <1>2, <2>2, <2>3, <3>2
      <4> QED
        BY <2>3, <4>1, SMTT(40) DEF NameFine
    <3> QED
      BY <1>4, <3>1, <3>2
  <2>6. Served(x, strs)
    <3>1. ASSUME NEW k \in 1..len + 1, final[k].stream # 0, Fetches(final[k])
          PROVE  final[k].stream = y.own /\ strs[y.own].live
      <4>1. k \in 1..len
        BY <1>2, <1>4, <3>1
      <4>2. y.sections[k].stream # 0 /\ Fetches(y.sections[k])
            /\ final[k].stream = y.sections[k].stream
        BY <1>7, <3>1, <4>1
      <4> QED
        BY <1>1, <2>1, <4>1, <4>2 DEF Soundness, Served
    <3> QED
      BY <1>3, <1>4, <2>1, <3>1 DEF Soundness, Served
  <2> QED
    BY <1>3, <1>4, <2>4, <2>5, <2>6 DEF Soundness
<1>12. x.own # 0 => strs[x.own].file \in Files
  BY <1>3 DEF ObjectFine
<1>13. ObjectFine(x, strs)
  BY <1>3, <1>9, <1>10, <1>11, <1>12 DEF ObjectFine
<1> QED
  BY <1>3, <1>13 DEF x

LEMMA AddSectionFine ==
  ASSUME FileInv, NEW o \in Objects, NEW n \in Names, AddSection(o, n)
  PROVE  FileInv'
<1>1. PICK y : /\ y = object[o] /\ y \in ObjectRecord
               /\ ObjectFine(y, streams)
  BY FineObject
<1>2. PICK secs : secs = Append(y.sections,
                          [Section(Len(y.sections), 0, "BITS", 0)
                             EXCEPT !.name = n])
  OBVIOUS
<1>3. PICK t : t = y.header + 1
  OBVIOUS
<1> DEFINE final == [[secs EXCEPT ![t] = WithString(@, n)]
                       EXCEPT ![Len(y.sections) + 1].nameoff =
                                NameOffset(secs[t])]
           fails == t \notin DOMAIN secs \/ (~secs[t].held /\ secs[t].size > 0)
<1>4. /\ Usable(o)
      /\ IF fails THEN Crash(o)
         ELSE /\ object' = [object EXCEPT ![o].sections = final]
              /\ UNCHANGED <<streams, fault>>
  BY <1>1, <1>2, <1>3, Zenon DEF AddSection
<1>5. fault = None /\ y.header \in Nat /\ t \in Nat
  <2>1. fault = None /\ y.header # None
    BY <1>1, <1>4 DEF Usable
  <2>2. y.header \in Nat
    BY <1>1, <2>1 DEF ObjectRecord
  <2> QED
    BY <1>3, <2>1, <2>2
<1>6. /\ y.sections \in Seq(SectionRecord) /\ Len(y.sections) \in Nat
      /\ DOMAIN y.sections = 1..Len(y.sections)
      /\ \A k \in 1..Len(y.sections) : y.sections[k] \in SectionRecord
  BY <1>1, ObjectTyped DEF ObjectRecord
<1>7. /\ secs \in Seq(SectionRecord)
      /\ DOMAIN secs = 1..Len(y.sections) + 1
      /\ \A k \in 1..Len(y.sections) : secs[k] = y.sections[k]
      /\ ~secs[Len(y.sections) + 1].held
      /\ secs[Len(y.sections) + 1].text = <<>>
      /\ secs[Len(y.sections) + 1].size = 0
  <2> DEFINE new == [Section(Len(y.sections), 0, "BITS", 0) EXCEPT !.name = n]
  <2>1. /\ "BITS" \in Types /\ 0 \in 0..MaxStreams /\ n \in Strings
        /\ <<>> \in Seq(Strings)
    BY ElfFileAssumption DEF Types, Strings
  <2>2. /\ new \in SectionRecord /\ new.size = 0 /\ ~new.held
        /\ new.text = <<>>
    BY <1>6, <2>1 DEF Section, SectionRecord
  <2>3. secs = Append(y.sections, new)
    BY <1>2
  <2> HIDE DEF new
  <2>4. /\ secs \in Seq(SectionRecord) /\ Len(secs) = Len(y.sections) + 1
        /\ secs[Len(y.sections) + 1] = new
        /\ \A k \in 1..Len(y.sections) : secs[k] = y.sections[k]
    BY <1>6, <2>2, <2>3, AppendProperties
  <2>5. DOMAIN secs = 1..Len(y.sections) + 1
    BY <2>4, LenProperties
  <2> QED
    BY <2>2, <2>4, <2>5
<1>8. CASE fails
  <2>1. Crash(o)
    BY <1>4, <1>8
  <2>2. ~y.sound
    <3>1. ASSUME y.sound
          PROVE  FALSE
      <4>1. /\ t \in 1..Len(y.sections)
            /\ y.sections[t].held \/ y.sections[t].size = 0
        BY <1>1, <1>3, <1>6, <3>1
        DEF ObjectFine, Soundness, HasTable, Table
      <4>2. t \in DOMAIN secs /\ secs[t] = y.sections[t]
        BY <1>6, <1>7, <4>1
      <4>3. y.sections[t].size \in Nat
        BY <1>6, <4>1 DEF SectionRecord
      <4> QED
        BY <1>8, <4>1, <4>2, <4>3
    <3> QED
      BY <3>1
  <2> QED
    BY <1>1, <2>1, <2>2, CrashFine
<1>9. CASE ~fails
  <2> DEFINE x == [y EXCEPT !.sections = final]
  <2>1. /\ object' = [object EXCEPT ![o].sections = final]
        /\ UNCHANGED <<streams, fault>>
    BY <1>4, <1>9
  <2> HIDE DEF final
  <2>2. object' = [object EXCEPT ![o] = x]
    BY <1>1, <2>1, FineObject
  <2>3. /\ t \in DOMAIN secs /\ t \in 1..Len(y.sections) + 1
        /\ secs[t].held \/ secs[t].size = 0
    <3>1. t \in 1..Len(y.sections) + 1
      BY <1>7, <1>9
    <3>2. secs[t].size \in Nat
      <4>1. secs[t] \in SectionRecord
        BY <1>7, <3>1, LenProperties
      <4> QED
        BY <4>1 DEF SectionRecord
    <3> QED
      BY <1>7, <1>9, <3>1, <3>2
  <2>4. TextFits(secs[t])
    <3>1. CASE t \in 1..Len(y.sections)
      <4>1. SectionFine(y.sections[t], t, streams)
        BY <1>1, <1>6, <3>1 DEF ObjectFine
      <4> QED
        BY <1>7, <3>1, <4>1 DEF SectionFine
    <3>2. CASE t = Len(y.sections) + 1
      BY <1>7, <3>2 DEF TextFits
    <3> QED
      BY <1>6, <2>3, <3>1, <3>2
  <2>5. n \in Strings
    BY DEF Strings
  <2>6. Added(y.sections, final, t, n)
    BY <1>2, <1>6, <2>3, <2>4, <2>5, AddedSections DEF final
  <2>7. t \in 1..Len(y.sections) =>
          y.sections[t].held \/ y.sections[t].size = 0
    BY <1>7, <2>3
  <2>8. ObjectFine(x, streams) /\ x.own = y.own
    BY <1>1, <1>3, <1>5, <2>5, <2>6, <2>7, AddedIsFine
  <2> HIDE DEF x
  <2> QED
    BY <1>1, <1>5, <2>1, <2>2, <2>8, SameStreams
<1> QED
  BY <1>8, <1>9

-----------------------------------------------------------------------------
(* Moves                                                                   *)

(* The sections and segments of object `from`, in another object           *)
LEMMA MovedIsFine ==
  ASSUME FileInv, NEW from \in Objects, NEW own \in 0..MaxStreams,
         own # 0 => streams[own].file \in Files, NEW b \in BOOLEAN,
         b <=> object[from].sound /\ ~Waiting(from)
  PROVE  ObjectFine([object[from] EXCEPT !.own = own, !.sound = b], streams)
<1>1. PICK y : /\ y = object[from] /\ y \in ObjectRecord
               /\ ObjectFine(y, streams)
  BY FineObject
<1> DEFINE x == [y EXCEPT !.own = own, !.sound = b]
<1>2. /\ x.header = y.header /\ x.sections = y.sections
      /\ x.segments = y.segments /\ x.own = own /\ x.sound = b
      /\ x \in ObjectRecord
  BY <1>1 DEF ObjectRecord
<1> HIDE DEF x
<1>3. ASSUME b
      PROVE  Soundness(x, streams)
  <2>1. y.sound /\ ~Waiting(from)
    BY <1>1, <1>3
  <2>2. Soundness(y, streams)
    BY <1>1, <2>1 DEF ObjectFine
  <2>3. Served(x, streams)
    BY <1>1, <1>2, <2>1 DEF Served, Waiting
  <2>4. HasTable(x) /\ Table(x) = Table(y)
    BY <1>2, <2>2 DEF Soundness, HasTable, Table
  <2> QED
    BY <1>2, <2>2, <2>3, <2>4 DEF Soundness
<1>4. ObjectFine(x, streams)
  BY <1>1, <1>2, <1>3 DEF ObjectFine
<1> QED
  BY <1>1, <1>4 DEF x

LEMMA MoveFine ==
  ASSUME FileInv, NEW from \in Objects, NEW to \in Objects, Move(from, to)
  PROVE  FileInv'
<1>1. PICK b \in BOOLEAN : b <=> object[from].sound /\ ~Waiting(from)
  OBVIOUS
<1>2. PICK no : no = FALSE
  OBVIOUS
<1> DEFINE moved == [object[from] EXCEPT !.own = object[to].own, !.sound = b]
           empty == Object(None, <<>>, <<>>, object[from].own, no)
<1>3. /\ object \in [Objects -> ObjectRecord] /\ streams \in StreamTables
      /\ object[from].sound \in BOOLEAN
  BY FineObject DEF FileInv, ObjectRecord
<1>4. /\ object' = [object EXCEPT ![to] = moved, ![from] = empty]
      /\ streams' = Remembered(streams, object')
      /\ fault' = fault /\ fault = None /\ from # to
  <2>1. (object[from].sound /\ ~Waiting(from)) = b
    BY <1>1, <1>3
  <2>2. [object[from] EXCEPT !.own = object[to].own,
                             !.sound = @ /\ ~Waiting(from)] = moved
    BY <2>1
  <2> HIDE DEF moved
  <2> QED
    BY <1>2, <2>2 DEF Move, Usable
<1>5. moved \in ObjectRecord /\ ObjectFine(moved, streams)
      /\ moved.own = object[to].own
  <2>1. PICK own \in 0..MaxStreams :
          /\ own = object[to].own
          /\ own # 0 => streams[own].file \in Files
    BY FineObject
  <2>2. ObjectFine([object[from] EXCEPT !.own = own, !.sound = b], streams)
    BY <1>1, <2>1, MovedIsFine, Zenon
  <2>3. moved.own = own
    BY <1>3, <2>1 DEF ObjectRecord
  <2> QED
    BY <2>1, <2>2, <2>3 DEF ObjectFine
<1>6. empty \in ObjectRecord /\ ObjectFine(empty, streams)
      /\ empty.own = object[from].own
  <2>1. PICK own \in 0..MaxStreams :
          /\ own = object[from].own
          /\ own # 0 => streams[own].file \in Files
    BY FineObject
  <2>2. PICK header \in Nat \cup {None} : header = None
    OBVIOUS
  <2>3. ObjectFine(Object(header, <<>>, <<>>, own, no), streams)
    BY <1>2, <2>1, EmptyIsFine
  <2>4. ObjectFine(empty, streams)
    BY <2>1, <2>2, <2>3
  <2>5. empty.own = object[from].own
    BY DEF Object
  <2> QED
    BY <2>4, <2>5 DEF ObjectFine
<1> HIDE DEF moved, empty
<1>7. /\ object' \in [Objects -> ObjectRecord]
      /\ object'[to] = moved /\ object'[from] = empty
      /\ \A p \in Objects : p # to /\ p # from => object'[p] = object[p]
  BY <1>3, <1>4, <1>5, <1>6
<1>8. \A p \in Objects :
        /\ ObjectFine(object'[p], streams)
        /\ object'[p].own = object[p].own
  BY <1>5, <1>6, <1>7, FineObject
<1>9. /\ streams' \in StreamTables
      /\ \A p \in Objects : \A n \in StreamsOf(object'[p]) :
           n \in 1..MaxStreams => streams'[n] = streams[n]
  <2>1. PICK objs : objs = object'
    OBVIOUS
  <2>2. streams' = Remembered(streams, objs)
    BY <1>4, <2>1
  <2>3. /\ Remembered(streams, objs) \in StreamTables
        /\ \A p \in Objects : \A n \in StreamsOf(objs[p]) :
             n \in 1..MaxStreams => Remembered(streams, objs)[n] = streams[n]
    BY <1>3, RememberedFacts
  <2> QED
    BY <2>1, <2>2, <2>3
<1>10. AllFine'
  <2>1. ASSUME NEW p \in Objects
        PROVE  ObjectFine(object'[p], streams')
    <3>1. PICK x : x = object'[p] /\ ObjectFine(x, streams)
      BY <1>8
    <3>2. \A n \in StreamsOf(x) \ {0} : streams'[n] = streams[n]
      BY <1>9, <3>1, StreamsInUse
    <3>3. Kept(x, streams, streams')
      BY <3>2 DEF Kept
    <3> QED
      BY <3>1, <3>3, KeptIsFine
  <2> QED
    BY <2>1 DEF AllFine
<1>11. OwnersDiffer'
  BY <1>8 DEF FileInv, OwnersDiffer
<1>12. SoundObjectsWork' /\ fault' \in Objects \cup {None}
  BY <1>4 DEF SoundObjectsWork
<1> QED
  BY <1>7, <1>9, <1>10, <1>11, <1>12 DEF FileInv

-----------------------------------------------------------------------------
(* The theorems                                                            *)

LEMMA FileStep ==
  ASSUME FileInv, [Next]_vars
  PROVE  FileInv'
<1>1. ASSUME NEW o \in Objects, OfObject(o)
      PROVE  FileInv'
  <2>1. CASE Create(o)
    BY <2>1, CreateFine
  <2>2. CASE Renew(o)
    BY <2>2, RenewFine
  <2>3. CASE LoadMissing(o)
    BY <2>3, LoadMissingFine
  <2>4. CASE AddSegment(o)
    BY <2>4, AddSegmentFine
  <2>5. CASE Save(o)
    BY <2>5, SaveFine
  <2>6. CASE \E f \in Files, lazy \in BOOLEAN : Load(o, f, lazy)
    BY <2>6, LoadFine
  <2>7. CASE \E k \in DOMAIN object[o].sections : FetchSection(o, k)
    BY <2>7, FetchSectionFine
  <2>8. CASE \E g \in DOMAIN object[o].segments : FetchSegment(o, g)
    BY <2>8, FetchSegmentFine
  <2>9. CASE \E n \in Names : AddSection(o, n)
    BY <2>9, AddSectionFine
  <2>10. CASE \E g \in DOMAIN object[o].segments,
                 k \in DOMAIN object[o].sections : AddToSegment(o, g, k)
    BY <2>10, AddToSegmentFine
  <2> QED
    BY <1>1, <2>1, <2>2, <2>3, <2>4, <2>5, <2>6, <2>7, <2>8, <2>9, <2>10
    DEF OfObject
<1>2. CASE \E from, to \in Objects : Move(from, to)
  BY <1>2, MoveFine
<1>3. CASE UNCHANGED vars
  <2>1. object' = object /\ streams' = streams /\ fault' = fault
    BY <1>3 DEF vars
  <2> QED
    BY <2>1 DEF FileInv, AllFine, OwnersDiffer, SoundObjectsWork
<1> QED
  BY <1>1, <1>2, <1>3 DEF Next

(* The inductive invariant: what every object, whether loaded from a       *)
(* damaged file, moved from or half read, may say of its sections, its     *)
(* segments and its streams holds after any calls on any of the objects.   *)
THEOREM FilesInvariance == Spec => []FileInv
<1>1. Init => FileInv
  BY InitFine
<1>2. FileInv /\ [Next]_vars => FileInv'
  BY FileStep
<1> QED
  BY <1>1, <1>2, PTL DEF Spec

(* Objects hold what they should, bytes are as many as headers say, and    *)
(* indexes are positions (load(), sections.add(), add_section(), moves).   *)
THEOREM FileTypeCorrect == Spec => []FileTypeOK
<1>1. FileInv => FileTypeOK
  <2> SUFFICES ASSUME FileInv
               PROVE  FileTypeOK
    OBVIOUS
  <2>1. DOMAIN streams = 1..MaxStreams /\ MaxStreams \in Nat
        /\ 0..MaxStreams = {0} \cup 1..MaxStreams
    BY ElfFileAssumption DEF FileInv, StreamTables
  <2>2. ASSUME NEW o \in Objects
        PROVE  /\ object[o].header \in Nat \cup {None}
               /\ \A k \in DOMAIN object[o].sections :
                    /\ SectionOK(object[o].sections[k])
                    /\ object[o].sections[k].index = k - 1
               /\ object[o].own \in {0} \cup DOMAIN streams
               /\ object[o].sound \in BOOLEAN
               /\ \A g \in DOMAIN object[o].segments :
                    /\ object[o].segments[g].index = g - 1
                    /\ object[o].segments[g].members
                         \subseteq 0..Len(object[o].sections) - 1
    <3>1. PICK y \in ObjectRecord : y = object[o] /\ ObjectFine(y, streams)
      BY FineObject
    <3>2. /\ y.header \in Nat \cup {None} /\ y.sound \in BOOLEAN
          /\ y.own \in 0..MaxStreams
      BY DEF ObjectRecord
    <3>3. ASSUME NEW k \in DOMAIN y.sections
          PROVE  SectionOK(y.sections[k]) /\ y.sections[k].index = k - 1
      <4>1. PICK s \in SectionRecord :
              s = y.sections[k] /\ SectionFine(s, k, streams)
        BY <3>1, ObjectTyped DEF ObjectFine
      <4>2. SectionOK(s)
        BY <2>1, <4>1 DEF SectionOK, SectionRecord, SectionFine, TextFits
      <4> QED
        BY <4>1, <4>2 DEF SectionFine
    <3>4. ASSUME NEW g \in DOMAIN y.segments
          PROVE  /\ y.segments[g].index = g - 1
                 /\ y.segments[g].members \subseteq 0..Len(y.sections) - 1
      BY <3>1 DEF ObjectFine, SegmentFine
    <3> QED
      BY <2>1, <3>1, <3>2, <3>3, <3>4
  <2> QED
    BY <2>2 DEF FileInv, FileTypeOK, IndexesArePositions
<1> QED
  BY <1>1, FilesInvariance, PTL

(* An object that was created or loaded from an undamaged file, and used   *)
(* as the code provides for, never meets undefined behaviour: no stream    *)
(* that is gone, no string table that is not there.                        *)
THEOREM SoundObjectsStayWorking == Spec => []SoundObjectsWork
<1>1. FileInv => SoundObjectsWork
  BY DEF FileInv
<1> QED
  BY <1>1, FilesInvariance, PTL

(* The sections of a file whose header tables can be read can be read too, *)
(* each as far as it is in the file, whatever was read before (get_data(), *)
(* elfio_section.hpp).                                                     *)
THEOREM CorruptSectionsReadable == Spec => []ReadsIndependent
<1>1. FileInv => ReadsIndependent
  <2> SUFFICES ASSUME FileInv, NEW o \in Objects,
                      NEW k \in DOMAIN object[o].sections,
                      object[o].sections[k].stream # 0,
                      ~object[o].sections[k].moved,
                      TablesInside(streams[object[o].sections[k].stream].file)
               PROVE  /\ object[o].sections[k].type
                           = Entry(object[o].sections[k]).type
                      /\ \/ object[o].sections[k].loadable
                         \/ ~Entry(object[o].sections[k]).inside
    BY DEF ReadsIndependent
  <2>1. PICK y \in ObjectRecord :
          y = object[o] /\ ObjectFine(y, streams) /\ k \in DOMAIN y.sections
    BY FineObject
  <2>2. PICK s \in SectionRecord :
          s = y.sections[k] /\ SectionFine(s, k, streams) /\ k \in Nat
    BY <2>1, ObjectTyped DEF ObjectFine
  <2>3. PICK f : f = streams[s.stream].file
    OBVIOUS
  <2>4. s.stream # 0 /\ TablesInside(f) /\ ~s.moved
    BY <2>1, <2>2, <2>3
  <2>5. PICK e : e = Entry(s)
    OBVIOUS
  <2>6. e = f.secs[k]
    <3>1. s.index + 1 = k
      <4>1. s.index = k - 1
        BY <2>2 DEF SectionFine
      <4> QED
        BY <2>2, <4>1
    <3> QED
      BY <2>3, <2>5, <3>1, Zenon DEF Entry
  <2>7. FromFile(s, k, f)
    BY <2>2, <2>3, <2>4 DEF SectionFine
  <2>8. s.type = e.type /\ (s.loadable \/ ~e.inside)
    BY <2>4, <2>6, <2>7 DEF FromFile
  <2> QED
    BY <2>1, <2>2, <2>5, <2>8
<1> QED
  BY <1>1, FilesInvariance, PTL

(* What save() writes of a sound object is a file from which the sections  *)
(* and their names can be read.                                            *)
LEMMA ImageFacts ==
  ASSUME NEW o \in Objects, NEW y \in ObjectRecord, y = object[o],
         ObjectFine(y, streams), y.sound, NEW f, f = Image(o)
  PROVE  /\ IsFile(f) /\ f.shentsize_ok /\ f.shstrndx = y.header
         /\ EntriesInside(f) /\ NamesInside(f)
         /\ Len(f.secs) = Len(y.sections)
         /\ \A k \in 1..Len(y.sections) :
              f.secs[k].type = y.sections[k].type
         /\ \A p \in Nat : LET e == f.secs[y.header + 1]
                           IN NameIn(Table(y), p)
                                = IF p \in DOMAIN e.text THEN e.text[p] ELSE None
<1> DEFINE len == Len(y.sections)
           Text(s) == IF s.held /\ s.type = "BITS" THEN s.text
                      ELSE [i \in 1..s.size |-> None]
           E(s) == [type |-> s.type, nameoff |-> s.nameoff, table |-> TRUE,
                    inside |-> TRUE, text |-> Text(s)]
           t == y.header + 1
<1>1. /\ len \in Nat /\ DOMAIN y.sections = 1..len
      /\ \A k \in 1..len : y.sections[k] \in SectionRecord
  BY ObjectTyped
<1>2. /\ f.kind = "elf" /\ f.shstrndx = y.header
      /\ f.shentsize_ok = TRUE /\ f.phentsize_ok = TRUE /\ f.segs = <<>>
      /\ f.secs = [k \in 1..len |-> E(y.sections[k])]
  BY <1>1 DEF Image
<1> HIDE DEF len, Text, E
<1>3. ASSUME NEW s \in SectionRecord
      PROVE  /\ E(s) \in FileSection /\ E(s).type = s.type
             /\ E(s).nameoff = s.nameoff /\ E(s).table /\ E(s).inside
             /\ E(s).text = Text(s)
  <2>1. /\ s.type \in Types /\ s.nameoff \in Nat /\ s.size \in Nat
        /\ s.text \in Seq(Strings) /\ None \in Strings
    BY DEF SectionRecord, Strings
  <2>2. [i \in 1..s.size |-> None] \in Seq(Strings)
    <3>1. [i \in 1..s.size |-> None] \in [1..s.size -> Strings]
      BY <2>1
    <3> QED
      BY <2>1, <3>1, SeqDef
  <2>3. Text(s) \in Seq(Strings)
    BY <2>1, <2>2 DEF Text
  <2> QED
    BY <2>1, <2>3 DEF E, FileSection
<1>4. /\ f.secs \in Seq(FileSection) /\ Len(f.secs) = len
      /\ DOMAIN f.secs = 1..len
      /\ \A k \in 1..len : f.secs[k] = E(y.sections[k])
  <2>1. f.secs \in [1..len -> FileSection]
    BY <1>1, <1>2, <1>3
  <2> QED
    BY <1>1, <1>2, <2>1, SeqDef, LenProperties
<1>5. /\ y.header \in Nat \ {0} /\ t \in 1..len
      /\ y.sections[t].type = "BITS"
      /\ y.sections[t].held \/ y.sections[t].size = 0
      /\ Table(y) = y.sections[t]
      /\ \A k \in 1..len : NameFine(y.sections[k], y.sections[t])
      /\ TextFits(y.sections[t])
  <2>1. Soundness(y, streams)
    BY DEF ObjectFine
  <2>2. /\ y.header \in Nat \ {0} /\ t \in 1..len
        /\ y.sections[t].type = "BITS"
        /\ y.sections[t].held \/ y.sections[t].size = 0
        /\ Table(y) = y.sections[t]
    BY <1>1, <2>1 DEF Soundness, HasTable, Table
  <2>3. \A k \in 1..len : NameFine(y.sections[k], y.sections[t])
    BY <1>1, <2>1, <2>2 DEF Soundness
  <2>4. TextFits(y.sections[t])
    BY <1>1, <2>2 DEF ObjectFine, SectionFine
  <2> QED
    BY <2>2, <2>3, <2>4
<1>6. PICK s \in SectionRecord : s = y.sections[t]
  BY <1>1, <1>5
<1>7. PICK e : e = f.secs[t]
  OBVIOUS
<1>8. /\ e.type = "BITS" /\ e.inside /\ e.text = Text(s)
  BY <1>3, <1>4, <1>5, <1>6, <1>7
<1>9. e.text = s.text
  <2>1. CASE s.held
    BY <1>5, <1>6, <1>8, <2>1 DEF Text
  <2>2. CASE ~s.held
    <3>1. s.text = <<>> /\ s.size = 0
      BY <1>5, <1>6, <2>2 DEF TextFits
    <3>2. [i \in 1..0 |-> None] = <<>>
      OBVIOUS
    <3> QED
      BY <1>8, <2>2, <3>1, <3>2 DEF Text
  <2> QED
    BY <2>1, <2>2
<1>10. ASSUME NEW p \in Nat
       PROVE  NameIn(s, p) = IF p \in DOMAIN e.text THEN e.text[p] ELSE None
  <2>1. CASE s.held
    BY <1>9, <2>1 DEF NameIn
  <2>2. CASE ~s.held
    <3>1. s.text = <<>> /\ DOMAIN <<>> = {}
      BY <1>5, <1>6, <2>2 DEF TextFits
    <3> QED
      BY <1>9, <2>2, <3>1 DEF NameIn
  <2> QED
    BY <2>1, <2>2
<1>11. EntriesInside(f)
  BY <1>1, <1>3, <1>4 DEF EntriesInside
<1>12. NamesInside(f)
  <2>1. \A k \in 1..len : f.secs[k].nameoff \in 0..Len(e.text)
    BY <1>1, <1>3, <1>4, <1>5, <1>6, <1>9 DEF NameFine
  <2>2. f.shstrndx \in 1..Len(f.secs) - 1
    BY <1>1, <1>2, <1>4, <1>5
  <2>3. f.secs[f.shstrndx + 1] = e
    BY <1>2, <1>7
  <2> QED
    BY <1>4, <1>8, <2>1, <2>2, <2>3 DEF NamesInside
<1>13. IsFile(f)
  <2>1. <<>> \in Seq(FileSegment)
    OBVIOUS
  <2>2. f.secs[f.shstrndx + 1].type # "NOBITS" /\ f.shstrndx \in Nat
    BY <1>2, <1>5, <1>7, <1>8
  <2> QED
    BY <1>2, <1>4, <2>1, <2>2 DEF IsFile
<1>14. \A k \in 1..len : f.secs[k].type = y.sections[k].type
  BY <1>1, <1>3, <1>4
<1>15. \A p \in Nat :
         NameIn(Table(y), p) = IF p \in DOMAIN f.secs[t].text
                                 THEN f.secs[t].text[p] ELSE None
  <2>1. Table(y) = s
    BY <1>5, <1>6
  <2> HIDE DEF t
  <2> QED
    BY <1>7, <1>10, <2>1
<1> QED
  BY <1>2, <1>4, <1>11, <1>12, <1>13, <1>14, <1>15 DEF len

(* What a sound object saves loads again with the same sections, types and *)
(* names: every name is where its offset says in the string table, however *)
(* often sections were added, saved, read or moved (save(), add_string()). *)
THEOREM NamesSurvive == Spec => []NamesSurviveSave
<1>1. FileInv => NamesSurviveSave
  <2> SUFFICES ASSUME FileInv, NEW o \in Objects, object[o].sound
               PROVE  LET r == Named(LoadedSections(Image(o), 0, FALSE),
                                     Image(o))
                          secs == object[o].sections
                      IN /\ DOMAIN r.sections = DOMAIN secs
                         /\ \A k \in DOMAIN secs :
                              /\ r.sections[k].name = secs[k].name
                              /\ r.sections[k].type = secs[k].type
    BY DEF NamesSurviveSave
  <2>1. PICK y \in ObjectRecord : y = object[o] /\ ObjectFine(y, streams)
    BY FineObject
  <2>2. PICK f : f = Image(o)
    OBVIOUS
  <2>3. PICK eager \in BOOLEAN : eager = FALSE
    OBVIOUS
  <2>4. PICK r : r = Named(LoadedSections(f, 0, eager), f)
    OBVIOUS
  <2> DEFINE t == y.header + 1
             e == f.secs[t]
             len == Len(y.sections)
  <2>5. /\ IsFile(f) /\ f.shentsize_ok /\ f.shstrndx = y.header
        /\ EntriesInside(f) /\ NamesInside(f) /\ Len(f.secs) = len
        /\ \A k \in 1..len : f.secs[k].type = y.sections[k].type
        /\ \A p \in Nat : NameIn(Table(y), p)
                            = IF p \in DOMAIN e.text THEN e.text[p] ELSE None
    BY <2>1, <2>2, ImageFacts
  <2>6. /\ r.sections \in Seq(SectionRecord) /\ Len(r.sections) = len
        /\ \A k \in 1..Len(r.sections) :
             LoadedFrom(r.sections[k], k, f, 0, eager)
        /\ t \in DOMAIN r.sections
        /\ r.sections[t].held
        /\ AllNamesFine(r.sections, r.sections[t])
    <3>1. 0 \in 0..MaxStreams
      BY ElfFileAssumption
    <3>2. /\ r.sections \in Seq(SectionRecord) /\ Len(r.sections) = len
          /\ \A k \in 1..Len(r.sections) :
               LoadedFrom(r.sections[k], k, f, 0, eager)
          /\ f.shstrndx + 1 \in DOMAIN r.sections
          /\ r.sections[f.shstrndx + 1].held
          /\ AllNamesFine(r.sections, r.sections[f.shstrndx + 1])
      BY <2>4, <2>5, <3>1, NamedFacts, Zenon
    <3> QED
      BY <2>5, <3>2
  <2>7. /\ len \in Nat /\ DOMAIN y.sections = 1..len
        /\ DOMAIN r.sections = 1..len
        /\ \A k \in 1..len : y.sections[k] \in SectionRecord
    BY <2>6, ObjectTyped, LenProperties
  <2> HIDE DEF len
  <2>8. r.sections[t].text = e.text
    BY <2>6, <2>7 DEF LoadedFrom
  <2>9. Soundness(y, streams)
    BY <2>1 DEF ObjectFine
  <2>10. ASSUME NEW k \in 1..len
         PROVE  /\ r.sections[k].name = y.sections[k].name
                /\ r.sections[k].type = y.sections[k].type
    <3>1. /\ r.sections[k].type = f.secs[k].type
          /\ r.sections[k].nameoff = f.secs[k].nameoff
      BY <2>5, <2>6, <2>7 DEF LoadedFrom, len
    <3>2. f.secs[k].nameoff = y.sections[k].nameoff
      BY <2>1, <2>2, <2>7 DEF Image
    <3>3. PICK p \in Nat : p = y.sections[k].nameoff
      BY <2>7 DEF SectionRecord
    <3>4. r.sections[k].name = NameIn(r.sections[t], p)
      BY <2>6, <2>7, <3>1, <3>2, <3>3 DEF AllNamesFine, NameFine
    <3>5. y.sections[k].name = NameIn(Table(y), p)
      BY <2>7, <2>9, <3>3 DEF Soundness, NameFine
    <3>6. NameIn(r.sections[t], p) = NameIn(Table(y), p)
      BY <2>5, <2>6, <2>8 DEF NameIn
    <3> QED
      BY <2>5, <3>1, <3>4, <3>5, <3>6
  <2>11. r = Named(LoadedSections(Image(o), 0, FALSE), Image(o))
    BY <2>2, <2>3, <2>4
  <2> QED
    BY <2>1, <2>7, <2>10, <2>11, Zenon
<1> QED
  BY <1>1, FilesInvariance, PTL

=============================================================================
