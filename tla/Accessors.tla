----------------------------- MODULE Accessors -----------------------------
(***************************************************************************)
(* The accessors that read a section's bytes as a list: notes              *)
(* (elfio/elfio_note.hpp), attributes of a kernel module                   *)
(* (elfio_modinfo.hpp), the dynamic section (elfio_dynamic.hpp) and the    *)
(* version sections (elfio_versym.hpp).  Each keeps a cache - positions,   *)
(* pairs of strings or a count - that it fills at different times from the *)
(* bytes, while other accessors of the same section append to them.        *)
(*                                                                         *)
(* The section of notes is a sequence of 4-byte words, the one of          *)
(* attributes a sequence of strings each ended by a zero byte.  Files have *)
(* the byte order of the host and sections are shorter than 2^31 bytes, so *)
(* that no word of a note's header wraps.                                  *)
(***************************************************************************)
EXTENDS Integers, Sequences, FiniteSetsExt

CONSTANTS
  Accessors,    \* the accessor objects
  Files,        \* the sections at first; see AccessorsAssumption
  NotesToAdd,   \* arguments of add_note()
  Characters,   \* what attributes are made of, "=" among them
  Fields, Values,  \* arguments of add_attribute(), sequences of characters
  Tags, Numbers,   \* arguments of add_entry() of a dynamic section
  MaxAdds       \* bound on the number of additions

VARIABLES
  bytes,        \* the contents of the sections
  entsize,      \* sh_entsize of the dynamic section: TRUE when it is set
  acc,          \* the accessors: what they are for and what they cached
  noteLog,      \* ghost: the notes that the section is meant to hold
  attrLog,      \* ghost: the attributes that it is meant to hold
  faults,       \* ghost: sections to which something was added that could
                \* not be written, or not be written as it was asked for;
                \* "cut" when the notes of the file were cut short
  outside,      \* what a call left: "index" for the list of notes, or the
                \* section; C++ leaves the rest of that behaviour undefined
  adds          \* the number of additions

logs == <<noteLog, attrLog, faults, adds>>
vars == <<bytes, entsize, acc, outside, logs>>

Sections == {"note", "modinfo", "dynamic", "versym"}
Chains == {"verneed", "verdef"}

(* Strings without the zero byte                                           *)
Strings == Seq(Characters)

(* A text in a note: its size in bytes, and the words that hold it         *)
NoteText ==
  {t \in [size : Nat, words : Seq(Nat)] :
     4 * Len(t.words) \in t.size .. t.size + 3}
NoteRecord == [type : Nat, name : NoteText, desc : NoteText]

(* Entries of a dynamic section, as they are read: without the value that  *)
(* is stored with a tag that has none                                      *)
NoValue == {"NULL", "TEXTREL"}
DynamicEntries ==
  {e \in [tag : {"NULL", "VERNEEDNUM", "VERDEFNUM", "FLAGS", "TEXTREL"},
          value : Nat] : e.tag \in NoValue => e.value = 0}

(* A chain in the layout of the GNU tools, with one auxiliary record for   *)
(* each record, directly behind it                                         *)
IsChain(c) ==
  LET last == Len(c) \div 2 IN
  /\ c \in Seq([text : STRING, aux : Nat, next : Nat])
  /\ last >= 1 /\ Len(c) = 2 * last
  /\ \A i \in 1 .. last : /\ c[2 * i - 1].aux = 1
                          /\ c[2 * i - 1].next = IF i < last THEN 2 ELSE 0

IsFile(f) ==
  /\ DOMAIN f = Sections \cup Chains \cup {"present", "entsize"}
  /\ f.present \in BOOLEAN /\ f.entsize \in BOOLEAN
  /\ f.note \in Seq(Nat) /\ f.modinfo \in Seq(Strings)
  /\ f.dynamic \in Seq(DynamicEntries) /\ f.versym \in Seq(Nat)
  /\ IsChain(f.verneed) /\ IsChain(f.verdef)

ASSUME AccessorsAssumption ==
  /\ MaxAdds \in Nat /\ Numbers \subseteq Nat
  /\ Tags \subseteq {"NULL", "VERNEEDNUM", "VERDEFNUM", "FLAGS", "TEXTREL"}
  /\ "=" \in Characters /\ Fields \subseteq Strings /\ Values \subseteq Strings
  /\ NotesToAdd \subseteq NoteRecord
  /\ \A f \in Files : IsFile(f)

Range0(s) == {s[i] : i \in DOMAIN s}
-----------------------------------------------------------------------------
(* Notes.  A position counts words from 0.                                 *)

Word(s, p) == s[p + 1]
Size(s) == 4 * Len(s)

(* the words that n bytes take                                             *)
WordsOf_Unpadded(n) == n \div 4
WordsOf(n) == (n + 3) \div 4

Advance(s, p) == 3 + WordsOf(Word(s, p)) + WordsOf(Word(s, p + 1))

(* process_section() accepts the header at p                               *)
NoteFits_NoEnd(s, p) == Word(s, p) < Size(s) /\ Word(s, p + 1) < Size(s)

NoteFits(s, p) ==
  /\ Word(s, p) < Size(s) /\ Word(s, p + 1) < Size(s)
  /\ p + Advance(s, p) <= Len(s)

NotePositions(s) ==
  LET From[p \in Nat] ==
        IF p + 3 <= Len(s) /\ NoteFits(s, p)
        THEN <<p>> \o From[p + Advance(s, p)] ELSE <<>>
  IN  From[0]

(* get_note() returns true                                                 *)
NoteGiven(s, p) ==
  LET namesz == Word(s, p) IN
  /\ namesz >= 1 /\ namesz <= Size(s) - 4 * p
  /\ namesz + Word(s, p + 1) <= Size(s) - 4 * p

(* and the positions of the words it gives access to                       *)
NoteName(s, p) == p + 3 .. p + 2 + WordsOf(Word(s, p))
NoteDesc(s, p) ==
  LET start == p + 3 + WordsOf(Word(s, p)) IN
  start .. start + WordsOf(Word(s, p + 1)) - 1

TextAt(s, at, size) ==
  [size |-> size,
   words |-> SubSeq(s, at + 1, Min({at + WordsOf(size), Len(s)}))]

NoteAt(s, p) ==
  LET namesz == Word(s, p) IN
  [type |-> Word(s, p + 2), name |-> TextAt(s, p + 3, namesz),
   desc |-> TextAt(s, p + 3 + WordsOf(namesz), Word(s, p + 1))]

Notes(s) == LET at == NotePositions(s) IN [i \in DOMAIN at |-> NoteAt(s, at[i])]

(* There is nothing but notes in the section.                              *)
OnlyNotes(s) ==
  LET at == NotePositions(s)
      last == at[Len(at)]
  IN  Len(s) = IF at = <<>> THEN 0 ELSE last + Advance(s, last)

(* What add_note() appends.  A null pointer for the description leaves its *)
(* bytes out, and not its size.                                            *)
EncodedNote(n, isNull) ==
  LET Padded(text) == SubSeq(text.words, 1, WordsOf(text.size)) IN
  <<n.name.size, n.desc.size, n.type>> \o Padded(n.name)
    \o (IF isNull THEN <<>> ELSE Padded(n.desc))
-----------------------------------------------------------------------------
(* Attributes of a kernel module                                           *)

(* Where the string is split; a string without "=" is both field and value *)
SplitAt(info) ==
  LET equals == {i \in DOMAIN info : info[i] = "="} IN
  IF equals = {} THEN 0 ELSE Min(equals)

Attribute(info) ==
  LET loc == SplitAt(info) IN
  IF loc = 0 THEN <<info, info>>
  ELSE <<SubSeq(info, 1, loc - 1), SubSeq(info, loc + 1, Len(info))>>

(* process_section() skips empty strings                                   *)
Attributes(s) ==
  LET UpTo[i \in 0 .. Len(s)] ==
        IF i = 0 THEN <<>>
        ELSE IF s[i] = <<>> THEN UpTo[i - 1]
        ELSE Append(UpTo[i - 1], Attribute(s[i]))
  IN  UpTo[Len(s)]
-----------------------------------------------------------------------------
(* The dynamic section                                                     *)

(* generic_get_entry_dyn(): without data every entry is a DT_NULL          *)
DynamicEntry(i) ==
  IF ~bytes.present THEN [tag |-> "NULL", value |-> 0]
  ELSE bytes.dynamic[i + 1]

(* get_entries_num() without a cached value: up to the first DT_NULL       *)
DynamicCount ==
  LET n == Len(bytes.dynamic)
      nulls == {i \in 0 .. n - 1 : DynamicEntry(i).tag = "NULL"}
  IN  IF ~entsize THEN 0 ELSE IF nulls = {} THEN n ELSE Min(nulls) + 1

(* generic_add_entry_dyn()                                                 *)
StoredValue(tag, value) == IF tag \in NoValue THEN 0 ELSE value

(* The constructors of both accessors of version chains: the value of the  *)
(* first entry with the tag                                                *)
ChainTag(chain) == IF chain = "verneed" THEN "VERNEEDNUM" ELSE "VERDEFNUM"

ChainCount(chain) ==
  LET hits == {i \in 0 .. DynamicCount - 1 :
                 DynamicEntry(i).tag = ChainTag(chain)} IN
  IF hits = {} THEN 0 ELSE DynamicEntry(Min(hits)).value
-----------------------------------------------------------------------------
(* Version chains.  A section is a sequence of records, each with the      *)
(* distance to the next one of its kind and to its auxiliary record.       *)

Position(chain, no) ==
  LET At[i \in 0 .. no] == IF i = 0 THEN 0
                           ELSE At[i - 1] + bytes[chain][At[i - 1] + 1].next
  IN  At[no]

AuxPosition_First(chain, no) == bytes[chain][1].aux
AuxPosition(chain, no) ==
  Position(chain, no) + bytes[chain][Position(chain, no) + 1].aux

(* get_entry(): the text stands for the fields of the record, the file's   *)
(* name and the dependency's among them                                    *)
VerneedEntry(no) ==
  <<bytes["verneed"][Position("verneed", no) + 1].text,
    bytes["verneed"][AuxPosition("verneed", no) + 1].text>>
VerdefEntry(no) ==
  <<bytes["verdef"][Position("verdef", no) + 1].text,
    bytes["verdef"][AuxPosition("verdef", no) + 1].text>>
ChainEntry(chain, no) ==
  IF chain = "verneed" THEN VerneedEntry(no) ELSE VerdefEntry(no)
-----------------------------------------------------------------------------
Accessor(on, list, num) == [on |-> on, list |-> list, num |-> num]

Init ==
  \E f \in Files :
    /\ bytes = [x \in DOMAIN f \ {"entsize"} |-> f[x]]
    /\ entsize = f.entsize
    /\ acc = [a \in Accessors |-> Accessor("none", <<>>, 0)]
    /\ noteLog = Notes(f.note) /\ attrLog = Attributes(f.modinfo)
    /\ faults = IF OnlyNotes(f.note) THEN {} ELSE {"cut"}
    /\ outside = {} /\ adds = 0

(* The bytes after append_data() to a section: an allocation may fail, and *)
(* a section without data (SHT_NOBITS) takes none.                         *)
Append1(section, content, ok) ==
  /\ outside = {} /\ UNCHANGED outside
  /\ ok => bytes.present
  /\ adds < MaxAdds /\ adds' = adds + 1
  /\ bytes' = IF ok THEN [bytes EXCEPT ![section] = @ \o content] ELSE bytes

Fault(section, condition) ==
  faults' = IF condition THEN faults \cup {section} ELSE faults

Construct(a, accessor) ==
  /\ outside = {}
  /\ acc' = [acc EXCEPT ![a] = accessor]
  /\ UNCHANGED <<bytes, entsize, outside, logs>>

(* A call that reaches into `place`                                        *)
Reach(place, inside) ==
  /\ outside = {}
  /\ outside' = IF inside THEN {} ELSE {place}

(* note_section_accessor: process_section() without data finds nothing     *)
ConstructNote(a) ==
  Construct(a, Accessor("note",
    IF bytes.present THEN NotePositions(bytes.note) ELSE <<>>, 0))

(* The position is the size before the bytes are appended.                 *)
NewPosition_After(ok, content) ==
  Len(bytes.note) + (IF ok THEN Len(content) ELSE 0)
NewPosition(ok, content) == Len(bytes.note)

AddNote(a, n, isNull, ok) ==
  LET content == EncodedNote(n, isNull) IN
  /\ acc[a].on = "note"
  /\ Append1("note", content, ok)
  /\ acc' = [acc EXCEPT ![a].list = Append(@, NewPosition(ok, content))]
  /\ noteLog' = Append(noteLog, n)
  /\ Fault("note", ~ok \/ (isNull /\ n.desc.size # 0))
  /\ UNCHANGED <<entsize, attrLog>>

(* get_note() gives access to these words of the note at p.                *)
NoteInside(p) ==
  /\ bytes.present /\ p + 3 <= Len(bytes.note)
  /\ NoteGiven(bytes.note, p) =>
       NoteName(bytes.note, p) \cup NoteDesc(bytes.note, p)
         \subseteq 0 .. Len(bytes.note) - 1

(* It compares the index with the size of the section in bytes, which says *)
(* nothing of the list it then looks into. (In Next the number of notes    *)
(* stands for all the indexes that are not below it.)                      *)
GetNote(a, index) ==
  LET at == acc[a].list IN
  /\ acc[a].on = "note" /\ index < Size(bytes.note)
  /\ IF index < Len(at) THEN Reach("note", NoteInside(at[index + 1]))
                        ELSE Reach("index", FALSE)
  /\ UNCHANGED <<bytes, entsize, acc, logs>>

ConstructModinfo(a) ==
  Construct(a, Accessor("modinfo",
    IF bytes.present THEN Attributes(bytes.modinfo) ELSE <<>>, 0))

(* A field with a "=" is not read back as it was given.                    *)
AddAttribute(a, field, value, ok) ==
  /\ acc[a].on = "modinfo"
  /\ Append1("modinfo", <<field \o <<"=">> \o value>>, ok)
  /\ acc' = [acc EXCEPT ![a].list = Append(@, <<field, value>>)]
  /\ attrLog' = Append(attrLog, <<field, value>>)
  /\ Fault("modinfo", ~ok \/ "=" \in Range0(field))
  /\ UNCHANGED <<entsize, noteLog>>

(* dynamic_section_accessor: counts when first asked                       *)
ConstructDynamic(a) == Construct(a, Accessor("dynamic", <<>>, 0))

GetEntriesNum(a) ==
  /\ outside = {}
  /\ acc[a].on = "dynamic" /\ acc[a].num = 0
  /\ acc' = [acc EXCEPT ![a].num = DynamicCount]
  /\ UNCHANGED <<bytes, entsize, outside, logs>>

AddDynamic(a, tag, value, ok) ==
  /\ acc[a].on = "dynamic"
  /\ Append1("dynamic", <<[tag |-> tag, value |-> StoredValue(tag, value)]>>, ok)
  /\ Fault("dynamic", ~ok)
  /\ UNCHANGED <<entsize, acc, noteLog, attrLog>>

(* A client gives a new dynamic section the size of its entries.           *)
SetEntrySize ==
  /\ outside = {}
  /\ ~entsize /\ entsize' = TRUE
  /\ UNCHANGED <<bytes, acc, outside, logs>>

(* versym_section_accessor: the size decides, whether there is data or not *)
ConstructVersym(a) ==
  Construct(a, Accessor("versym", <<>>, Len(bytes.versym)))

(* get_entry() and modify_entry() trust the number of entries, whether the *)
(* section has as many bytes or none at all.                               *)
VersymInside(no) == bytes.present /\ no < Len(bytes.versym)

GetVersym(a, no) ==
  /\ acc[a].on = "versym" /\ no < acc[a].num
  /\ Reach("versym", VersymInside(no))
  /\ UNCHANGED <<bytes, entsize, acc, logs>>

ModifyVersym(a, no, value) ==
  /\ acc[a].on = "versym" /\ no < acc[a].num
  /\ Reach("versym", VersymInside(no))
  /\ bytes' = IF VersymInside(no) THEN [bytes EXCEPT !.versym[no + 1] = value]
              ELSE bytes
  /\ UNCHANGED <<entsize, acc, logs>>

AddVersym(a, value, ok) ==
  /\ acc[a].on = "versym"
  /\ Append1("versym", <<value>>, ok)
  /\ acc' = [acc EXCEPT ![a].num = @ + 1]
  /\ Fault("versym", ~ok)
  /\ UNCHANGED <<entsize, noteLog, attrLog>>

(* versym_r_section_accessor and versym_d_section_accessor                 *)
ConstructVerneed(a) ==
  Construct(a, Accessor("verneed", <<>>, ChainCount("verneed")))
ConstructVerdef(a) ==
  Construct(a, Accessor("verdef", <<>>, ChainCount("verdef")))

(* get_entry() of both walks from a data pointer that may be null.         *)
GetVersion(a, no) ==
  LET chain == acc[a].on IN
  /\ chain \in Chains /\ no < acc[a].num
  /\ Reach(chain,
           /\ bytes.present
           /\ {Position(chain, no), AuxPosition(chain, no)}
                \subseteq 0 .. Len(bytes[chain]) - 1)
  /\ UNCHANGED <<bytes, entsize, acc, logs>>

Next ==
  \/ SetEntrySize
  \/ \E a \in Accessors :
       \/ ConstructNote(a) \/ ConstructModinfo(a) \/ ConstructDynamic(a)
       \/ ConstructVersym(a) \/ ConstructVerneed(a) \/ ConstructVerdef(a)
       \/ GetEntriesNum(a)
       \/ \E ok \in BOOLEAN :
            \/ \E n \in NotesToAdd, isNull \in BOOLEAN : AddNote(a, n, isNull, ok)
            \/ \E f \in Fields, v \in Values : AddAttribute(a, f, v, ok)
            \/ \E t \in Tags, v \in Numbers : AddDynamic(a, t, v, ok)
            \/ \E v \in Numbers : AddVersym(a, v, ok)
       \/ \E index \in 0 .. Len(acc[a].list) : GetNote(a, index)
       \/ \E no \in 0 .. acc[a].num - 1 :
            \/ GetVersym(a, no) \/ GetVersion(a, no)
            \/ \E v \in Numbers : ModifyVersym(a, no, v)

Spec == Init /\ [][Next]_vars
-----------------------------------------------------------------------------
(* Properties                                                              *)

WholeNotes == faults \cap {"note", "cut"} = {}

(* An accessor's cache may be behind the bytes and is never ahead of them: *)
(* what it counts or remembers, a new accessor finds as well.              *)
CachesTrail ==
  bytes.present => \A a \in Accessors :
    CASE acc[a].on = "note" ->
           WholeNotes =>
             Range0(acc[a].list) \subseteq Range0(NotePositions(bytes.note))
      [] acc[a].on = "modinfo" ->
           "modinfo" \notin faults =>
             Range0(acc[a].list) \subseteq Range0(Attributes(bytes.modinfo))
      [] acc[a].on = "dynamic" -> acc[a].num <= DynamicCount
      [] acc[a].on = "versym" ->
           "versym" \notin faults => acc[a].num <= Len(bytes.versym)
      [] acc[a].on \in Chains ->
           acc[a].num # 0 => acc[a].num = ChainCount(acc[a].on)
      [] OTHER -> TRUE

(* Sections hold what their accessors write, an entry whose tag has no     *)
(* value holds 0, an accessor keeps a list or a count, not both, and what  *)
(* it keeps is never ahead of the bytes.                                   *)
AccessorsTypeOK ==
  /\ Range0(bytes.note) \subseteq Nat
  /\ \A e \in Range0(bytes.dynamic) :
       e.value \in Nat /\ (e.tag \in NoValue => e.value = 0)
  /\ Range0(bytes.versym) \subseteq Nat
  /\ entsize \in BOOLEAN /\ adds \in 0..MaxAdds
  /\ faults \subseteq Sections \cup {"cut"}
  /\ outside \subseteq {"index", "note", "versym"} \cup Chains
  /\ \A a \in Accessors :
       /\ acc[a].on \in {"none"} \cup Sections \cup Chains
       /\ acc[a].num \in Nat
       /\ acc[a].num = 0 \/ acc[a].list = <<>>
  /\ CachesTrail

(* A section is read back as it was written: an accessor that is made now  *)
(* finds the notes and the attributes that were there at first, then those *)
(* added by whichever accessors, in that order.                            *)
AddedIsReparsed ==
  /\ "modinfo" \notin faults => Attributes(bytes.modinfo) = attrLog
  /\ WholeNotes => Notes(bytes.note) = noteLog

(* No call leaves a section, in files cut short too and with a number of   *)
(* versions that is too large, except for two reasons.  An addition was    *)
(* not written as it was asked for: then the notes or the versions that an *)
(* accessor believes in are not there.  Or the section has no data: the    *)
(* accessors of versions go by its size or the dynamic section alone and   *)
(* follow a null pointer; that of notes finds none and is safe.  An index  *)
(* that get_notes_num() does not allow, which get_note() lets pass, is the *)
(* client's: it leaves the list, not the section.                          *)
ReadsInside ==
  /\ "note" \in outside => "note" \in faults
  /\ "versym" \in outside => "versym" \in faults \/ ~bytes.present
  /\ outside \cap Chains # {} => ~bytes.present

(* The records that a chain was written for, in the layout of the GNU      *)
(* tools: each record directly before its auxiliary one                    *)
Written(chain) ==
  [i \in 1 .. Len(bytes[chain]) \div 2 |->
     <<bytes[chain][2 * i - 1].text, bytes[chain][2 * i].text>>]

(* Entry no of a version accessor is the no-th record with its own         *)
(* auxiliary record; numbers past the end of the chain give the last one.  *)
VersionsFollow ==
  bytes.present => \A a \in Accessors : acc[a].on \in Chains =>
    LET chain == acc[a].on
        last == Len(Written(chain))
    IN  \A no \in 0 .. acc[a].num - 1 :
          ChainEntry(chain, no)
            = Written(chain)[IF no < last THEN no + 1 ELSE last]
============================================================================
