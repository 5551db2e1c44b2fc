------------------------------ MODULE ElfFile ------------------------------
(***************************************************************************)
(* The life of elfio objects (class elfio of elfio/elfio.hpp): created,    *)
(* loaded from a file eagerly or lazily, extended, saved, moved from one   *)
(* to another, destroyed.  Sections and segments loaded lazily go on       *)
(* reading from a stream that belongs to the object they were loaded into, *)
(* and all of them share the stream's failbit.  `fault` names the object   *)
(* in which C++ leaves the behaviour undefined: a stream that is gone, an  *)
(* element of an empty vector, bytes of a buffer that was never allocated. *)
(*                                                                         *)
(* The content of a section is a sequence of strings, and a position in a  *)
(* string table the number of a string.  Bytes, sizes and release of a     *)
(* section are the subject of SectionData, offsets that of Layout.         *)
(***************************************************************************)
EXTENDS Integers, Sequences, FiniteSets

CONSTANTS
  Objects,      \* the elfio objects
  Files,        \* the files; see the assumption
  Names,        \* the names clients give sections
  MaxSections,  \* bound on the sections of an object, below 2^16
  MaxSegments,  \* bound on the segments of an object
  MaxMembers,   \* bound on the sections clients add to a segment
  MaxStreams,   \* bound on the streams that are referred to at a time
  None          \* no name, no object, no header

VARIABLES
  object,       \* the objects; see Object
  streams,      \* each std::ifstream referred to: its file, whether it still
                \* exists, and its failbit
  fault

vars == <<object, streams, fault>>

Types == {"NULL", "BITS", "NOBITS"}

Strings ==
  Names \cup {None, ".shstrtab"}
    \cup UNION {UNION {{e.text[i] : i \in DOMAIN e.text} :
                        e \in {f.secs[k] : k \in DOMAIN f.secs}} : f \in Files}

(* An entry of a file's section header table: `table`: the entry lies in   *)
(* the file, or else no byte of it does; `inside`: so do the bytes it      *)
(* describes.                                                              *)
FileSection == [type : Types, nameoff : Nat, table : BOOLEAN,
                inside : BOOLEAN, text : Seq(Strings)]

FileSegment == [table : BOOLEAN, inside : BOOLEAN, bytes : BOOLEAN,
                members : SUBSET Nat]

(* A file is no ELF file ("foreign"), ends within its header ("short") or  *)
(* has tables.  The string table is not of type NOBITS.                    *)
IsFile(f) ==
  /\ f.kind \in {"foreign", "short", "elf"}
  /\ {f.shentsize_ok, f.phentsize_ok} \subseteq BOOLEAN
  /\ f.secs \in Seq(FileSection) /\ f.segs \in Seq(FileSegment)
  /\ f.shstrndx \in Nat
  /\ f.shstrndx + 1 \in DOMAIN f.secs
       => f.secs[f.shstrndx + 1].type # "NOBITS"

ASSUME ElfFileAssumption ==
  /\ \A f \in Files : IsFile(f)
  /\ None \notin Objects \cup Names /\ None \notin Files
  /\ {MaxSections, MaxSegments, MaxMembers, MaxStreams} \subseteq Nat

-----------------------------------------------------------------------------
(* Sections and segments, and what a stream gives them.  Stream 0 is none. *)

Section(index, nameoff, type, size) ==
  [index |-> index, name |-> None, nameoff |-> nameoff, type |-> type,
   size |-> size, held |-> FALSE, text |-> <<>>, loaded |-> FALSE,
   loadable |-> TRUE, unlimited |-> FALSE, stream |-> 0, moved |-> FALSE]

Segment(index, bytes, members) ==
  [index |-> index, bytes |-> bytes, members |-> members, loaded |-> FALSE,
   unlimited |-> FALSE, stream |-> 0, moved |-> FALSE]

InBounds_Unchecked(x, e) == TRUE

(* The bounds check of load_data(), which knows the size of the stream     *)
(* unless the stream had failed.                                           *)
InBounds(x, e) == x.unlimited \/ e.inside

Loaded(s, text) == [s EXCEPT !.held = TRUE, !.loaded = TRUE, !.text = text]
Failed(s) == [s EXCEPT !.loadable = FALSE]

Fetches(s) == ~s.loaded /\ s.loadable

(* Does get_data() go to the stream?                                       *)
Reads(s, e) ==
  Fetches(s) /\ InBounds(s, e) /\ ~s.held /\ s.type = "BITS" /\ s.size > 0

(* get_data() of a section at entry e of the file's table, on a stream     *)
(* whose failbit is `fail`                                                 *)
GetData(s, e, fail) ==
  IF ~Fetches(s) THEN s
  ELSE IF ~InBounds(s, e) THEN Failed(s)
  ELSE IF ~Reads(s, e) THEN
         IF s.type = "BITS" THEN Loaded(s, s.text) ELSE [s EXCEPT !.loaded = TRUE]
  ELSE IF fail \/ ~e.inside THEN Failed(s)
  ELSE Loaded(s, e.text)

FailAfter(s, e, fail) == fail \/ (Reads(s, e) /\ ~e.inside)

NoText == [inside |-> TRUE, text |-> <<>>]

-----------------------------------------------------------------------------
(* load_sections() and load_segments(): entry by entry, on one stream      *)

(* An entry that cannot be read stays all zero.                            *)
LoadSection(file, k, fail, stream, lazy) ==
  LET e == file.secs[k]
      read == ~fail /\ e.table
      s == [(IF read THEN Section(k - 1, e.nameoff, e.type, Len(e.text))
                     ELSE Section(k - 1, 0, "NULL", 0))
              EXCEPT !.stream = stream, !.unlimited = fail]
      bytes == IF read THEN e ELSE NoText
  IN IF lazy THEN [section |-> s, fail |-> ~read]
     ELSE [section |-> GetData(s, bytes, ~read),
           fail    |-> FailAfter(s, bytes, ~read)]

LoadedSections(file, stream, lazy) ==
  LET fail[k \in 0..Len(file.secs)] ==
        k # 0 /\ LoadSection(file, k, fail[k - 1], stream, lazy).fail
  IN IF ~file.shentsize_ok THEN [sections |-> <<>>, fail |-> FALSE]
     ELSE [sections |->
             [k \in 1..Len(file.secs) |->
                LoadSection(file, k, fail[k - 1], stream, lazy).section],
           fail |-> fail[Len(file.secs)]]

(* get_string(): the p-th string of a string table, if it is there         *)
NameIn(table, p) ==
  IF table.held /\ p \in DOMAIN table.text THEN table.text[p] ELSE None

(* The names, from the string table, which is fetched for that             *)
Named(r, file) ==
  LET n == file.shstrndx + 1
      table == GetData(r.sections[n],
                       IF r.sections[n].type = "NULL" THEN NoText
                                                      ELSE file.secs[n], r.fail)
  IN IF file.shstrndx = 0 \/ n \notin DOMAIN r.sections THEN r
     ELSE [sections |->
             [k \in DOMAIN r.sections |->
                [(IF k = n THEN table ELSE r.sections[k])
                   EXCEPT !.name = NameIn(table, r.sections[k].nameoff)]],
           fail |-> FailAfter(r.sections[n], file.secs[n], r.fail)]

(* The first segment that cannot be read ends the load.                    *)
LoadedSegments(file, fail, stream, lazy, count) ==
  LET good(g) ==
        /\ ~fail /\ file.segs[g].table
        /\ lazy \/ ~file.segs[g].bytes \/ file.segs[g].inside
      n == CHOOSE m \in 0..Len(file.segs) :
             /\ \A g \in 1..m : good(g)
             /\ m = Len(file.segs) \/ ~good(m + 1)
      last == file.segs[n + 1]
  IN IF ~file.phentsize_ok
       THEN [segments |-> <<>>, ok |-> FALSE, fail |-> fail]
     ELSE [segments |->
             [g \in 1..n |->
                [Segment(g - 1, file.segs[g].bytes,
                         file.segs[g].members \cap 0..count - 1)
                   EXCEPT !.stream = stream, !.loaded = ~lazy /\ file.segs[g].bytes]],
           ok |-> n = Len(file.segs),
           fail |-> fail \/ (n < Len(file.segs) /\ ~last.table)]

-----------------------------------------------------------------------------
(* Objects.  `header` is e_shstrndx, None when there is no header; `own`   *)
(* is the stream the object owns.  An object is `sound` (a ghost) when it  *)
(* was created, or loaded successfully from an undamaged file, and has not *)
(* been used in one of the ways that the code does not provide for.        *)

Object(header, sections, segments, own, sound) ==
  [header |-> header, sections |-> sections, segments |-> segments,
   own |-> own, sound |-> sound]

NoStream == [file |-> None, live |-> FALSE, fail |-> FALSE]

(* create_mandatory_sections()                                             *)
Mandatory ==
  <<Section(0, 0, "NULL", 0),
    [Section(1, 1, "BITS", 1) EXCEPT !.name = ".shstrtab", !.held = TRUE,
                                     !.text = <<".shstrtab">>]>>

Init ==
  /\ object = [o \in Objects |-> Object(1, Mandatory, <<>>, 0, TRUE)]
  /\ streams = [n \in 1..MaxStreams |-> NoStream]
  /\ fault = None

(* The streams, without those that nothing refers to any longer            *)
StreamsOf(x) ==
  {x.own} \cup {x.sections[k].stream : k \in DOMAIN x.sections}
          \cup {x.segments[g].stream : g \in DOMAIN x.segments}

Remembered(strs, objs) ==
  [n \in DOMAIN strs |->
     IF \E o \in Objects : n \in StreamsOf(objs[o]) THEN strs[n] ELSE NoStream]

Usable(o) == fault = None /\ object[o].header # None

Waiting(o) ==
  \/ \E k \in DOMAIN object[o].sections :
        object[o].sections[k].stream # 0 /\ Fetches(object[o].sections[k])
  \/ \E g \in DOMAIN object[o].segments :
        object[o].segments[g].stream # 0 /\ ~object[o].segments[g].loaded

Closed(n) == IF n = 0 THEN streams ELSE [streams EXCEPT ![n].live = FALSE]

Cleared_SectionsOnly(o) == object[o].segments

(* The segments after create()                                             *)
Cleared(o) == <<>>

Create(o) ==
  /\ Usable(o)
  /\ object' = [object EXCEPT
       ![o] = Object(1, Mandatory, Cleared(o), @.own, TRUE)]
  /\ streams' = Remembered(streams, object')
  /\ UNCHANGED fault

(* The object is destroyed and another constructed.                        *)
Renew(o) ==
  /\ fault = None
  /\ object' = [object EXCEPT ![o] = Object(1, Mandatory, <<>>, 0, TRUE)]
  /\ streams' = Remembered(Closed(object[o].own), object')
  /\ UNCHANGED fault

-----------------------------------------------------------------------------
(* load()                                                                  *)

(* An undamaged file                                                       *)
Undamaged(f) ==
  /\ f.kind = "elf" /\ f.shentsize_ok /\ f.phentsize_ok
  /\ \A k \in DOMAIN f.secs : f.secs[k].table /\ f.secs[k].inside
  /\ \A g \in DOMAIN f.segs : f.segs[g].table /\ f.segs[g].inside
  /\ f.shstrndx \in 1..Len(f.secs) - 1
  /\ f.secs[f.shstrndx + 1].type = "BITS"
  /\ \A k \in DOMAIN f.secs :
        f.secs[k].nameoff \in 0..Len(f.secs[f.shstrndx + 1].text)

(* The object and the failbit after load() from the n-th stream            *)
AfterLoad(o, f, n, lazy) ==
  LET secs == Named(LoadedSections(f, n, lazy), f)
      segs == LoadedSegments(f, secs.fail, n, lazy,
                             Len(secs.sections))
  IN CASE f.kind = "foreign" ->
            [object |-> Object(object[o].header, <<>>, <<>>, n, FALSE),
             fail |-> FALSE]
       [] f.kind = "short" ->
            [object |-> Object(1, <<>>, <<>>, n, FALSE), fail |-> TRUE]
       [] f.kind = "elf" ->
            [object |-> Object(f.shstrndx, secs.sections, segs.segments, n,
                               segs.ok /\ Undamaged(f)),
             fail |-> segs.fail]

StaysOpen_Never(lazy) == FALSE

(* After an eager load the stream is gone.                                 *)
StaysOpen(lazy) == lazy

Load(o, f, lazy) ==
  /\ Usable(o) /\ \E n \in DOMAIN streams : streams[n] = NoStream
  /\ LET n == CHOOSE m \in DOMAIN streams :
                 /\ streams[m] = NoStream
                 /\ \A l \in 1..m - 1 : streams[l] # NoStream
         r == AfterLoad(o, f, n, lazy)
     IN /\ object' = [object EXCEPT
             ![o] = [r.object EXCEPT !.own = IF lazy THEN n ELSE 0]]
        /\ streams' = Remembered(
             [Closed(object[o].own) EXCEPT
                ![n] = [file |-> f, live |-> StaysOpen(lazy), fail |-> r.fail]],
             object')
  /\ UNCHANGED fault

(* A file that cannot be opened: the old stream is gone, the old sections  *)
(* are not.                                                                *)
LoadMissing(o) ==
  /\ Usable(o)
  /\ object' = [object EXCEPT ![o].own = 0,
                              ![o].sound = @ /\ ~Waiting(o)]
  /\ streams' = Remembered(Closed(object[o].own), object')
  /\ UNCHANGED fault

-----------------------------------------------------------------------------
(* get_data() of sections and segments                                     *)

Entry(s) == streams[s.stream].file.secs[s.index + 1]

Crash(o) == fault' = o /\ UNCHANGED <<object, streams>>

(* Also when a save has given the section another offset: if the bounds    *)
(* check lets it read, the bytes are other ones.  (A section without bytes *)
(* in the file does not go to the stream.)                                 *)
FetchSection(o, k) ==
  LET s == object[o].sections[k]
      st == streams[s.stream]
      becomes(t) == object' = [object EXCEPT ![o].sections[k] = t]
  IN /\ Usable(o) /\ s.stream # 0 /\ Fetches(s) /\ s.type = "BITS"
     /\ IF s.moved /\ ~s.held /\ s.size > 0
          THEN \/ /\ becomes(Failed(s))
                  /\ UNCHANGED <<streams, fault>>
               \/ /\ st.live /\ ~st.fail
                  /\ becomes(Loaded(s, [i \in 1..s.size |-> None]))
                  /\ UNCHANGED <<streams, fault>>
               \/ ~st.live /\ Crash(o)
        ELSE IF Reads(s, Entry(s)) /\ ~st.live THEN Crash(o)
        ELSE /\ becomes(GetData(s, Entry(s), st.fail))
             /\ streams' = [streams EXCEPT
                  ![s.stream].fail = FailAfter(s, Entry(s), @)]
             /\ UNCHANGED fault

FetchSegment(o, g) ==
  LET s == object[o].segments[g]
      st == streams[s.stream]
      e == st.file.segs[s.index + 1]
      good == e.inside \/ s.moved
  IN /\ Usable(o) /\ s.stream # 0 /\ ~s.loaded /\ s.bytes
     /\ InBounds(s, e) \/ s.moved
     /\ IF ~st.live THEN Crash(o)
        ELSE /\ object' = [object EXCEPT
                  ![o].segments[g].loaded = ~st.fail /\ good]
             /\ streams' = [streams EXCEPT ![s.stream].fail = @ \/ ~good]
             /\ UNCHANGED fault

-----------------------------------------------------------------------------
(* Additions                                                               *)

NameOffset_Last(table) == table.size

(* Where add_string() puts the name of a section                           *)
NameOffset(table) == table.size + 1

WithString(table, n) ==
  [table EXCEPT !.held = TRUE, !.size = @ + 1, !.text = Append(@, n)]

(* sections.add(), and set_type() for a section with content.  The new     *)
(* section may be the string table itself.                                 *)
AddSection(o, n) ==
  /\ Usable(o) /\ Len(object[o].sections) < MaxSections
  /\ LET len == Len(object[o].sections)
         t == object[o].header + 1
         secs == Append(object[o].sections,
                        [Section(len, 0, "BITS", 0) EXCEPT !.name = n])
     IN IF t \notin DOMAIN secs \/ (~secs[t].held /\ secs[t].size > 0)
          THEN Crash(o)
          ELSE /\ object' = [object EXCEPT ![o].sections =
                    [[secs EXCEPT ![t] = WithString(@, n)]
                       EXCEPT ![len + 1].nameoff = NameOffset(secs[t])]]
               /\ UNCHANGED <<streams, fault>>

AddSegment(o) ==
  /\ Usable(o) /\ Len(object[o].segments) < MaxSegments
  /\ object' = [object EXCEPT ![o].segments =
                  Append(@, Segment(Len(@), FALSE, {}))]
  /\ UNCHANGED <<streams, fault>>

(* add_section()                                                           *)
AddToSegment(o, g, k) ==
  /\ Usable(o) /\ Cardinality(object[o].segments[g].members) < MaxMembers
  /\ object' = [object EXCEPT ![o].segments[g].members =
                  @ \cup {object[o].sections[k].index}]
  /\ UNCHANGED <<streams, fault>>

-----------------------------------------------------------------------------
(* save() and moves                                                        *)

(* The segments get the file sizes of their sections.  (PT_PHDR and        *)
(* segments at offset 0, which cover the headers too, are not modelled.)   *)
Sized(s, sections) ==
  [s EXCEPT !.moved = @ \/ (s.stream # 0 /\ ~s.loaded),
            !.bytes = \E m \in s.members :
                        /\ sections[m + 1].type # "NOBITS"
                        /\ sections[m + 1].size > 0]

(* A section, other than the first, gets an offset of its new file, also   *)
(* when its bytes are still to be read from the old one.                   *)
Offset(s) ==
  [s EXCEPT !.moved = @ \/ (s.index # 0 /\ s.stream # 0 /\ Fetches(s))]

(* A segment loaded eagerly and empty is not loaded: if it grows, its next *)
(* get_data() goes to the stream that is gone.                             *)
Save(o) ==
  /\ Usable(o)
  /\ LET segs == [g \in DOMAIN object[o].segments |->
                    Sized(object[o].segments[g], object[o].sections)]
         grown == \E g \in DOMAIN segs :
                    /\ segs[g].bytes /\ ~segs[g].loaded
                    /\ segs[g].stream # 0 /\ ~streams[segs[g].stream].live
     IN object' = [object EXCEPT
          ![o].segments = segs,
          ![o].sections = [k \in DOMAIN @ |-> Offset(@[k])],
          ![o].sound = @ /\ ~grown]
  /\ UNCHANGED <<streams, fault>>

(* What save() writes of the sections                                      *)
Image(o) ==
  [kind |-> "elf", shstrndx |-> object[o].header, shentsize_ok |-> TRUE,
   phentsize_ok |-> TRUE, segs |-> <<>>,
   secs |-> [k \in DOMAIN object[o].sections |->
               LET s == object[o].sections[k]
               IN [type |-> s.type, nameoff |-> s.nameoff, table |-> TRUE,
                   inside |-> TRUE,
                   text |-> IF s.held /\ s.type = "BITS" THEN s.text
                            ELSE [i \in 1..s.size |-> None]]]]

(* Both move operations; the stream stays where it is.                     *)
Move(from, to) ==
  /\ Usable(from) /\ from # to
  /\ object' = [object EXCEPT
       ![to] = [object[from] EXCEPT !.own = object[to].own,
                                    !.sound = @ /\ ~Waiting(from)],
       ![from] = Object(None, <<>>, <<>>, object[from].own, FALSE)]
  /\ streams' = Remembered(streams, object')
  /\ UNCHANGED fault

-----------------------------------------------------------------------------
OfObject(o) ==
  \/ Create(o) \/ Renew(o) \/ LoadMissing(o) \/ AddSegment(o) \/ Save(o)
  \/ \E f \in Files, lazy \in BOOLEAN : Load(o, f, lazy)
  \/ \E k \in DOMAIN object[o].sections : FetchSection(o, k)
  \/ \E g \in DOMAIN object[o].segments : FetchSegment(o, g)
  \/ \E n \in Names : AddSection(o, n)
  \/ \E g \in DOMAIN object[o].segments, k \in DOMAIN object[o].sections :
        AddToSegment(o, g, k)

Next ==
  \/ \E o \in Objects : OfObject(o)
  \/ \E from, to \in Objects : Move(from, to)

Spec == Init /\ [][Next]_vars

-----------------------------------------------------------------------------
(* Properties                                                              *)

SectionOK(s) ==
  /\ s.name \in Strings /\ s.nameoff \in Nat /\ s.type \in Types
  /\ s.text \in Seq(Strings) /\ s.stream \in {0} \cup DOMAIN streams
  /\ s.held => Len(s.text) = s.size

(* The index of a section or segment is its position, and segments refer   *)
(* to sections there are, whatever was loaded, created, added or moved.    *)
IndexesArePositions ==
  \A o \in Objects :
    /\ \A k \in DOMAIN object[o].sections : object[o].sections[k].index = k - 1
    /\ \A g \in DOMAIN object[o].segments :
         /\ object[o].segments[g].index = g - 1
         /\ object[o].segments[g].members \subseteq 0..Len(object[o].sections) - 1

(* Objects, sections and streams hold what they should; in particular a    *)
(* section that holds its bytes holds as many as its header says, and what *)
(* sections and segments say of their places is true.                      *)
FileTypeOK ==
  /\ \A o \in Objects :
       /\ object[o].header \in Nat \cup {None}
       /\ \A k \in DOMAIN object[o].sections : SectionOK(object[o].sections[k])
       /\ object[o].own \in {0} \cup DOMAIN streams
       /\ object[o].sound \in BOOLEAN
  /\ fault \in Objects \cup {None}
  /\ IndexesArePositions

(* A sound object never gets into undefined behaviour, however calls on it *)
(* and on the others follow each other.  The ways out of soundness are all *)
(* of: a failed load or a damaged file; being moved from, or moved to, or  *)
(* failing to open another file, while data waits to be read; a save that  *)
(* makes an empty eagerly loaded segment grow.                             *)
SoundObjectsWork == fault # None => ~object[fault].sound

(* Loading what save() wrote yields the same sections with the same names  *)
(* and types: every name is where its offset says in the string table.     *)
NamesSurviveSave ==
  \A o \in Objects : object[o].sound =>
    LET r == Named(LoadedSections(Image(o), 0, FALSE), Image(o))
        secs == object[o].sections
    IN /\ DOMAIN r.sections = DOMAIN secs
       /\ \A k \in DOMAIN secs : /\ r.sections[k].name = secs[k].name
                                 /\ r.sections[k].type = secs[k].type

(* Every entry of both header tables lies in the file.                     *)
TablesInside(f) ==
  /\ \A k \in DOMAIN f.secs : f.secs[k].table
  /\ \A g \in DOMAIN f.segs : f.segs[g].table

(* "This allows retrieval of information from corrupted sections": what   *)
(* the file says of a section can be read, header and bytes, whatever      *)
(* corrupt ones were read before from the same stream, if both header      *)
(* tables are in the file: an entry that is not there, of a segment too,   *)
(* leaves the failbit behind, and no later read succeeds.                  *)
ReadsIndependent ==
  \A o \in Objects : \A k \in DOMAIN object[o].sections :
    LET s == object[o].sections[k]
    IN s.stream # 0 /\ ~s.moved /\ TablesInside(streams[s.stream].file)
         => /\ s.type = Entry(s).type
            /\ s.loadable \/ ~Entry(s).inside
=============================================================================
