---------------------------- MODULE SectionData ----------------------------
(***************************************************************************)
(* The byte buffer of one section: class section_impl of                   *)
(* elfio/elfio_section.hpp.  A section is created empty or loaded from a   *)
(* stream, eagerly or lazily.  Three sizes describe its bytes and only the *)
(* code keeps them consistent:                                             *)
(*   sh_size      the size in the header, the one clients see and may set, *)
(*                32 bits wide in a file of class ELFCLASS32               *)
(*   data_size    the capacity the code believes the buffer has            *)
(*   Len(data)    the number of bytes really allocated                     *)
(* `fault` stands for what C++ leaves undefined: an access outside the     *)
(* allocated bytes, or through a stream that is gone.                      *)
(***************************************************************************)
EXTENDS Integers, Sequences, FiniteSets

CONSTANTS
  Byte,        \* the values of a byte
  Junk,        \* a byte nobody initialised
  File,        \* the bytes of the input stream
  Payload,     \* the byte strings clients pass to set_data and insert_data
  Offsets,     \* the file offsets a save may give the section
  Sizes,       \* the sizes clients pass to set_size
  XMax,        \* the largest Elf_Xword
  SizeLimits   \* the largest sh_size of each class of file

ASSUME SectionDataAssumption ==
  /\ Junk \notin Byte
  /\ File \in Seq(Byte)
  /\ Payload \subseteq Seq(Byte)
  /\ \A p \in Payload : Len(p) <= XMax
  /\ Offsets \subseteq Nat
  /\ XMax \in Nat /\ Len(File) < XMax
  /\ Sizes \subseteq 0..XMax /\ SizeLimits \subseteq 0..XMax

VARIABLES
  origin,          \* "new" (no object yet), "created" or "loaded"
  type,            \* sh_type: "NULL", "NOBITS", or "PROGBITS" for the others
  size_max,        \* the largest value the header's sh_size takes
  sh_offset, sh_size,
  allocated, data, \* `data` is not the null pointer, and the bytes it owns
  data_size,
  stream_size,
  is_lazy, is_loaded, can_be_loaded,
  compressed,      \* is_compressed(): the flags say so and a codec is set
  stream_live,     \* the stream pstream points at still exists
  image,           \* the bytes this step wrote to an output stream
  fault,           \* an access C++ leaves undefined has happened
  intact,          \* ghost: the load, if any, found the section's bytes
  touched,         \* ghost: an edit or a save since the load
  misstated        \* ghost: sh_size may not be the number of bytes stored

bufferVars == <<allocated, data, data_size>>
loadVars   == <<is_loaded, can_be_loaded>>
fixedVars  == <<origin, size_max, is_lazy, compressed, intact>>
vars == <<bufferVars, loadVars, fixedVars, type, sh_offset, sh_size,
          stream_size, stream_live, image, fault, touched, misstated>>

-----------------------------------------------------------------------------
(* Buffers                                                                 *)

Cell == Byte \cup {Junk}

Types == {"NULL", "NOBITS", "PROGBITS"}

(* The types load_data() and save() leave alone. set_data() and            *)
(* insert_data() ask for NOBITS only; a new section is of type NULL.       *)
Bare == {"NULL", "NOBITS"}

(* set_size(): what the header's field keeps of a size                     *)
Narrow(n) == n % (size_max + 1)

(* The bytes 1..n of the buffer can be read.                               *)
Reaches(n) == n = 0 \/ (allocated /\ n <= Len(data))

(* n bytes at offset off of the input stream                               *)
FileSlice_NoSeek(off, n) == SubSeq(File, 1, n)

FileSlice(off, n) == SubSeq(File, off + 1, off + n)

SplicedAtFront(pos, p, n) ==
  [i \in 1..n |->
     IF i <= Len(p) THEN p[i]
     ELSE IF i <= sh_size + Len(p) THEN data[i - Len(p)]
     ELSE IF n = Len(data) THEN data[i] ELSE Junk]

(* p moved into place at pos of a buffer of n bytes; the cells behind the  *)
(* content are kept when the buffer is, and junk when it is a new one.     *)
Spliced(pos, p, n) ==
  [i \in 1..n |->
     IF i <= pos THEN data[i]
     ELSE IF i <= pos + Len(p) THEN p[i - pos]
     ELSE IF i <= sh_size + Len(p) THEN data[i - Len(p)]
     ELSE IF n = Len(data) THEN data[i] ELSE Junk]

-----------------------------------------------------------------------------
(* load_data(), for a header that gives type t, offset off and size n and  *)
(* a stream of `limit` bytes: what it returns and what it leaves behind.   *)

Outcome(ok, al, d, ds, ld, flt) ==
  [ok |-> ok, allocated |-> al, data |-> d, data_size |-> ds,
   is_loaded |-> ld, fault |-> flt]

ReadStream(off, n, live) ==
  IF ~live THEN Outcome(FALSE, allocated, data, data_size, is_loaded, TRUE)
  ELSE IF off + n <= Len(File)
    THEN Outcome(TRUE, TRUE, Append(FileSlice(off, n), Junk), n, TRUE, FALSE)
    ELSE Outcome(FALSE, FALSE, <<>>, 0, is_loaded, FALSE)

LoadData(t, off, n, limit, live) ==
  IF off > limit \/ n > limit - off
    THEN {Outcome(FALSE, allocated, data, data_size, is_loaded, FALSE)}
  ELSE IF ~allocated /\ t \notin Bare
    THEN IF n = 0
      THEN {Outcome(TRUE, TRUE, <<Junk>>, 0, TRUE, FALSE),
            Outcome(TRUE, FALSE, <<>>, 0, TRUE, FALSE)}
      ELSE {ReadStream(off, n, live),
            Outcome(FALSE, FALSE, <<>>, 0, is_loaded, FALSE)}
  ELSE {Outcome(allocated \/ t \in Bare, allocated, data, data_size,
                allocated \/ t \in Bare, FALSE)}

(* get_data(): load_data() unless done or known to fail.                   *)
Fetch(t, off, n, limit, live) ==
  IF ~is_loaded /\ can_be_loaded
    THEN LoadData(t, off, n, limit, live)
    ELSE {Outcome(TRUE, allocated, data, data_size, is_loaded, FALSE)}

Apply(r) ==
  /\ allocated' = r.allocated
  /\ data' = r.data
  /\ data_size' = r.data_size
  /\ is_loaded' = r.is_loaded
  /\ can_be_loaded' = (can_be_loaded /\ r.ok)
  /\ fault' = r.fault

-----------------------------------------------------------------------------
Init ==
  /\ origin = "new" /\ type = "NULL" /\ size_max \in SizeLimits
  /\ sh_offset = 0 /\ sh_size = 0
  /\ allocated = FALSE /\ data = <<>> /\ data_size = 0
  /\ stream_size = 0
  /\ is_lazy = FALSE /\ is_loaded = FALSE /\ can_be_loaded = TRUE
  /\ compressed = FALSE
  /\ stream_live = FALSE
  /\ image = <<>>
  /\ fault = FALSE
  /\ intact = TRUE /\ touched = FALSE /\ misstated = FALSE

Alive == origin # "new" /\ ~fault

(* sections.add(): a section of a file being created, of type NULL until   *)
(* set_type().                                                             *)
Create(c) ==
  /\ origin = "new"
  /\ origin' = "created" /\ compressed' = c
  /\ image' = <<>>
  /\ UNCHANGED <<bufferVars, loadVars, size_max, is_lazy, intact, type,
                 sh_offset, sh_size, stream_size, stream_live, fault,
                 touched, misstated>>

(* What load() does after get_data(): a section that is compressed goes    *)
(* through the codec (external), which fails and leaves it alone or yields *)
(* the bytes p; data_size stays what it was.                               *)
Inflate(r, n) ==
  \/ sh_size' = n /\ Apply(r)
  \/ /\ compressed' /\ r.allocated
     /\ \E p \in Payload :
          sh_size' = Narrow(Len(p)) /\ Apply([r EXCEPT !.data = p])

(* load(): the header gives type, offset and size; unless the load is lazy *)
(* the bytes are fetched now.                                              *)
Load(t, off, n, lazy, c) ==
  /\ origin = "new" /\ n <= size_max
  /\ origin' = "loaded" /\ type' = t /\ compressed' = c
  /\ is_lazy' = lazy
  /\ sh_offset' = off
  /\ stream_size' = Len(File)
  /\ stream_live' = TRUE
  /\ misstated' = (t \in Bare /\ n # 0)
  /\ IF lazy
       THEN /\ sh_size' = n
            /\ intact' = (t \in Bare \/ off + n <= Len(File))
            /\ UNCHANGED <<bufferVars, loadVars, fault>>
       ELSE \E r \in LoadData(t, off, n, Len(File), TRUE) :
            /\ intact' = (t \in Bare \/ r.ok)
            /\ Inflate(r, n)
  /\ image' = <<>>
  /\ UNCHANGED <<size_max, touched>>

(* elfio::load() releases the stream after an eager load, and a client may *)
(* close the one it passed.                                                *)
DropStream ==
  /\ origin = "loaded" /\ ~is_lazy /\ stream_live
  /\ stream_live' = FALSE
  /\ image' = <<>>
  /\ UNCHANGED <<bufferVars, loadVars, fixedVars, type, sh_offset, sh_size,
                 stream_size, fault, touched, misstated>>

GetData ==
  /\ Alive
  /\ \E r \in Fetch(type, sh_offset, sh_size, stream_size, stream_live) :
        Apply(r)
  /\ image' = <<>>
  /\ UNCHANGED <<fixedVars, type, sh_offset, sh_size, stream_size,
                 stream_live, touched, misstated>>

(* free_data() does nothing to a section that was not loaded lazily.       *)
FreeData ==
  /\ Alive /\ is_lazy
  /\ allocated' = FALSE /\ data' = <<>>
  /\ is_loaded' = FALSE
  /\ image' = <<>>
  /\ UNCHANGED <<fixedVars, data_size, can_be_loaded, type, sh_offset,
                 sh_size, stream_size, stream_live, fault, touched,
                 misstated>>

-----------------------------------------------------------------------------
(* set_data(): the bytes are stored, or the allocation failed, or the      *)
(* client passed a null pointer and only the memory was allocated.         *)
SetData(p) ==
  /\ Alive /\ type # "NOBITS"
  /\ \/ allocated' = TRUE /\ data' = p /\ data_size' = Len(p)
     \/ allocated' = FALSE /\ data' = <<>> /\ data_size' = 0
     \/ /\ allocated' = TRUE /\ data_size' = 0
        /\ data' = [i \in 1..Len(p) |-> Junk]
  /\ sh_size' = Narrow(data_size')
  /\ misstated' = (data_size' > size_max)
  /\ stream_size' = data_size'
  /\ touched' = TRUE
  /\ image' = <<>>
  /\ UNCHANGED <<loadVars, fixedVars, type, sh_offset, stream_live, fault>>

(* On a NOBITS section set_data() only resets the sizes.                   *)
SetDataNobits ==
  /\ Alive /\ type = "NOBITS"
  /\ sh_size' = Narrow(data_size)
  /\ misstated' = (misstated \/ data_size > size_max)
  /\ stream_size' = data_size
  /\ touched' = TRUE
  /\ image' = <<>>
  /\ UNCHANGED <<bufferVars, loadVars, fixedVars, type, sh_offset,
                 stream_live, fault>>

Grow(p) ==
  /\ sh_size' = Narrow(sh_size + Len(p))
  /\ misstated' = (misstated \/ sh_size + Len(p) > size_max)
  /\ stream_size' = (stream_size + Len(p)) % (XMax + 1)

Crash ==
  /\ fault' = TRUE
  /\ UNCHANGED <<bufferVars, sh_size, stream_size, misstated>>

(* The bytes fit what data_size says: they are moved within the buffer.    *)
Shift(pos, p) ==
  /\ sh_size + Len(p) <= data_size
  /\ IF Reaches(sh_size + Len(p))
       THEN /\ data' = Spliced(pos, p, Len(data))
            /\ Grow(p)
            /\ UNCHANGED <<allocated, data_size, fault>>
       ELSE Crash

(* The size of the buffer a growing insertion allocates                    *)
NewCapacity_NoSlack(p) == data_size + 1

NewCapacity(p) == 2 * data_size + Len(p)

Reallocate_NoOverflowCheck(pos, p) ==
  /\ sh_size + Len(p) > data_size
  /\ IF Reaches(sh_size) /\ sh_size + Len(p) <= NewCapacity(p)
       THEN /\ data' = Spliced(pos, p, NewCapacity(p))
            /\ allocated' = TRUE
            /\ data_size' = NewCapacity(p)
            /\ Grow(p)
            /\ UNCHANGED fault
       ELSE Crash

(* They do not: a new buffer is allocated and the content copied over.     *)
Reallocate(pos, p) ==
  /\ sh_size + Len(p) > data_size
  /\ data_size <= XMax \div 2 /\ Len(p) <= XMax - 2 * data_size
  /\ IF Reaches(sh_size) /\ sh_size + Len(p) <= NewCapacity(p)
       THEN /\ data' = Spliced(pos, p, NewCapacity(p))
            /\ allocated' = TRUE
            /\ data_size' = NewCapacity(p)
            /\ Grow(p)
            /\ UNCHANGED fault
       ELSE Crash

(* insert_data() and, at the end, append_data().  Its early returns (a     *)
(* position beyond the content, a size that would overflow, an allocation  *)
(* that fails) change nothing and are stuttering steps here.               *)
InsertData(pos, p) ==
  /\ Alive /\ type # "NOBITS"
  /\ pos <= sh_size
  /\ Len(p) <= XMax - sh_size
  /\ Shift(pos, p) \/ Reallocate(pos, p)
  /\ touched' = TRUE
  /\ image' = <<>>
  /\ UNCHANGED <<loadVars, fixedVars, type, sh_offset, stream_live>>

(* set_size() stores what a client says, whatever the bytes are.           *)
SetSize(n) ==
  /\ Alive
  /\ sh_size' = Narrow(n)
  /\ misstated' = (misstated \/ n > data_size \/ n > size_max)
  /\ touched' = TRUE
  /\ image' = <<>>
  /\ UNCHANGED <<bufferVars, loadVars, fixedVars, type, sh_offset,
                 stream_size, stream_live, fault>>

(* set_type() leaves the bytes alone.                                      *)
SetType(t) ==
  /\ Alive
  /\ type' = t
  /\ image' = <<>>
  /\ UNCHANGED <<bufferVars, loadVars, fixedVars, sh_offset, sh_size,
                 stream_size, stream_live, fault, touched, misstated>>

-----------------------------------------------------------------------------
(* save() at file offset off: the header takes the new offset, and the     *)
(* bytes are written if there are any in memory and the type has some in a *)
(* file (what a compressed section writes is up to the codec).             *)
Writes == type \notin Bare /\ sh_size # 0 /\ allocated

SavePlain(off) ==
  /\ ~compressed
  /\ IF Writes
       THEN \E r \in Fetch(type, off, sh_size, stream_size, stream_live) :
              /\ Apply([r EXCEPT !.fault = r.fault \/ sh_size > Len(r.data)])
              /\ image' = IF sh_size <= Len(r.data)
                            THEN SubSeq(r.data, 1, sh_size) ELSE <<>>
       ELSE image' = <<>> /\ UNCHANGED <<bufferVars, loadVars, fault>>

SaveCompressed ==
  /\ compressed
  /\ IF Writes
       THEN image' \in Payload
       ELSE image' = <<>>
  /\ UNCHANGED <<bufferVars, loadVars, fault>>

Save(off) ==
  /\ Alive
  /\ sh_offset' = off
  /\ SavePlain(off) \/ SaveCompressed
  /\ touched' = TRUE
  /\ UNCHANGED <<fixedVars, type, sh_size, stream_size, stream_live,
                 misstated>>

-----------------------------------------------------------------------------
Next ==
  \/ \E c \in BOOLEAN : Create(c)
  \/ \E t \in Types, off, n \in 0..Len(File) + 1, lazy, c \in BOOLEAN :
        Load(t, off, n, lazy, c)
  \/ DropStream
  \/ GetData
  \/ FreeData
  \/ \E p \in Payload : SetData(p)
  \/ SetDataNobits
  \/ \E pos \in 0..XMax, p \in Payload : InsertData(pos, p)
  \/ \E n \in Sizes : SetSize(n)
  \/ \E t \in Types : SetType(t)
  \/ \E off \in Offsets : Save(off)

Spec == Init /\ [][Next]_vars

-----------------------------------------------------------------------------
(* Properties                                                              *)

(* Every variable keeps its type; in particular sh_size stays within the   *)
(* header's field and data_size an Elf_Xword (the overflow checks of       *)
(* insert_data()).                                                         *)
TypeOK ==
  /\ origin \in {"new", "created", "loaded"} /\ type \in Types
  /\ size_max \in SizeLimits
  /\ sh_offset \in Nat /\ sh_size \in 0..size_max
  /\ allocated \in BOOLEAN /\ data \in Seq(Cell) /\ data_size \in 0..XMax
  /\ stream_size \in 0..XMax
  /\ is_lazy \in BOOLEAN /\ is_loaded \in BOOLEAN /\ can_be_loaded \in BOOLEAN
  /\ compressed \in BOOLEAN /\ stream_live \in BOOLEAN
  /\ image \in Seq(Cell)
  /\ fault \in BOOLEAN /\ intact \in BOOLEAN /\ touched \in BOOLEAN
  /\ misstated \in BOOLEAN

(* The bytes a client reads now                                            *)
Content == IF allocated THEN SubSeq(data, 1, sh_size) ELSE <<>>

(* The bytes the next successful get_data() returns                        *)
Obtainable ==
  IF ~allocated /\ ~is_loaded /\ can_be_loaded
     /\ sh_offset + sh_size <= stream_size
     /\ sh_offset + sh_size <= Len(File)
    THEN FileSlice(sh_offset, sh_size)
    ELSE Content

(* A section created in memory, or loaded eagerly from an undamaged file,  *)
(* with no codec, whose size is that of its bytes: since these were last   *)
(* set nobody called set_size() with more than there are (load() does so   *)
(* for a NULL or NOBITS section of some size) and the header's field held  *)
(* every size.                                                             *)
Plain == intact /\ ~is_lazy /\ ~compressed /\ ~misstated

(* Such a section never reaches outside its buffer nor for a stream that   *)
(* may be gone, whatever sequence of edits, reads, saves and changes of    *)
(* type and size it sees, with any allocation failing: the three sizes     *)
(* stay in order.  In other modes the code loses its footing only where    *)
(* the bytes are absent (a lazy section not fetched yet or released, a     *)
(* load that failed), behind a codec, which leaves data_size at the        *)
(* compressed size, or once the size was misstated.                        *)
BuffersFit ==
  /\ fault => ~Plain /\ (~allocated \/ compressed \/ misstated)
  /\ Plain => IF allocated THEN sh_size <= data_size /\ data_size <= Len(data)
                           ELSE sh_size = 0

Promise == INSTANCE ByteStore WITH
  val <- IF Plain THEN Content ELSE <<>>,
  kind <- type

(* What each operation owes its caller: the one named, with the arguments  *)
(* given, of a byte string.                                                *)
AsAsked ==
  /\ \A t \in Types, off, n \in 0..Len(File) + 1, lazy, c \in BOOLEAN :
        Load(t, off, n, lazy, c)
          => Promise!Open(t, SubSeq(File, off + 1, off + n))
  /\ GetData => Promise!Read(Content')
  /\ \A p \in Payload : SetData(p) => Promise!Assign(p)
  /\ SetDataNobits => Promise!Restore
  /\ \A pos \in 0..XMax, p \in Payload :
        InsertData(pos, p) => Promise!Splice(pos, p)
  /\ \A n \in Sizes : SetSize(n) => Promise!Resize(n)
  /\ \A t \in Types : SetType(t) => Promise!Retype(t)
  /\ \A off \in Offsets : Save(off) => Promise!Emit(image')
  /\ DropStream \/ (\E c \in BOOLEAN : Create(c)) => UNCHANGED Promise!vars

(* To its clients a plain section is a byte string: an insertion lands at  *)
(* the position asked for, set_data() stores the bytes passed, reading     *)
(* returns the content and changes nothing, a save writes all of it, or    *)
(* none for a section of type NULL or NOBITS, and nothing but these calls  *)
(* changes it.  Where a section stops being plain the string is given up.  *)
EagerIsByteStore == Promise!Spec /\ [][Plain' => AsAsked]_vars

(* Until somebody edits or saves it, a loaded section, lazy or not, fetched*)
(* and released any number of times, its type changed or not, shows the    *)
(* bytes its header names.                                                 *)
UntouchedShowsFile ==
  origin = "loaded" /\ ~touched /\ ~compressed /\ allocated
    => Content = SubSeq(File, sh_offset + 1, sh_offset + sh_size)

(* elfio_section.hpp:528: "Save the section to a stream".  Of a lazy       *)
(* section nobody has read only the header is written, not the content.    *)
SaveWritesContent ==
  [][\A off \in Offsets :
       Save(off) /\ type = "PROGBITS" /\ intact /\ ~compressed /\ ~misstated
         => image' = Obtainable]_vars
=============================================================================
