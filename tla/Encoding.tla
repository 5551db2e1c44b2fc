------------------------------ MODULE Encoding ------------------------------
(***************************************************************************)
(* From numbers to the bytes of a file and back: the byte order of the     *)
(* file and of the host (endianness_convertor), the widths of the fields   *)
(* in each file class (elf_types.hpp), the header, and the entries that    *)
(* accessors write into sections and read from them.  A file may also be   *)
(* read from a dump in which its pieces lie elsewhere (address_translator). *)
(*                                                                         *)
(* A number is the sequence of its bytes, the least significant first.     *)
(* The objects have one section; offsets are as Layout would compute them  *)
(* without alignment.                                                      *)
(***************************************************************************)
EXTENDS Integers, Sequences, SequencesExt

CONSTANTS
  Formats,       \* the file classes, each with an encoding, of new files
  EntriesOf(_),  \* the entries that a client adds to a section of each kind
  HeaderValues,  \* the header fields that it sets, each with its number
  Dumps(_, _),   \* the ways to dump a file of a class, by the file's size:
                 \* sets of ranges [start, size, mapped]
  MaxCalls       \* bound on the calls that change the object

VARIABLES
  host,             \* ELFDATA2LSB or ELFDATA2MSB
  need_conversion,
  header,           \* the bytes of each field, as they are in memory
  kind,             \* what the section holds, or "none" without section
  shdr,             \* the bytes of its header
  data,             \* its contents
  translations,
  stream,           \* the last file or dump: its bytes, and its ranges
  calls,
  log,              \* ghost: the entries that were added
  unlogged,         \* ghost: `log` is not what the section holds
  saved,            \* ghost: what the object was when the file was saved
  loaded            \* ghost: the object is what was loaded from the stream

object == <<need_conversion, header, kind, shdr, data, log, unlogged>>
vars == <<host, object, translations, stream, calls, saved, loaded>>

LSB == 1
MSB == 2
Class32 == 1
Class64 == 2

-----------------------------------------------------------------------------
(* Numbers                                                                 *)

Zero(n) == [b \in 1..n |-> 0]
Number(n) == <<n % 256, n \div 256>> \o Zero(6)
Value(v) == v[1] + 256 * v[2]

Narrow(v, width) == SubSeq(v, 1, width)
Widened(v) == v \o Zero(8 - Len(v))
SignExtended(v) ==
  v \o [b \in 1..8 - Len(v) |-> IF v[Len(v)] >= 128 THEN 255 ELSE 0]

(* How a number lies in the memory of the host, and back                   *)
InMemory(v) == IF host = LSB THEN v ELSE Reverse(v)

(* endianness_convertor                                                    *)
HostEncoding == IF InMemory(Narrow(Number(1), 4))[1] = 1 THEN LSB ELSE MSB
NeedConversion_LittleHost(encoding) == encoding # LSB

NeedConversion(encoding) == encoding # HostEncoding
Convert(need, v) == IF need THEN Reverse(v) ELSE v

(* A setter narrows the number to the field before it converts it.         *)
Stored_ConvertFirst(need, v, width) ==
  InMemory(Narrow(Convert(need, v), width))

Stored(need, v, width) == InMemory(Convert(need, Narrow(v, width)))

Fetched(bytes) == Convert(need_conversion, InMemory(bytes))

-----------------------------------------------------------------------------
(* Structures: names and widths of the fields, in the order of the file    *)

Classes == {Class32, Class64}
Native(c) == IF c = Class32 THEN 4 ELSE 8

Ehdr(c) ==
  << <<"ei_mag", 4>>, <<"ei_class", 1>>, <<"ei_data", 1>>,
     <<"ei_version", 1>>, <<"ei_osabi", 1>>, <<"ei_abiversion", 1>>,
     <<"ei_pad", 7>>, <<"e_type", 2>>, <<"e_machine", 2>>,
     <<"e_version", 4>>, <<"e_entry", Native(c)>>, <<"e_phoff", Native(c)>>,
     <<"e_shoff", Native(c)>>, <<"e_flags", 4>>, <<"e_ehsize", 2>>,
     <<"e_phentsize", 2>>, <<"e_phnum", 2>>, <<"e_shentsize", 2>>,
     <<"e_shnum", 2>>, <<"e_shstrndx", 2>> >>

Shdr(c) ==
  << <<"sh_name", 4>>, <<"sh_type", 4>>, <<"sh_flags", Native(c)>>,
     <<"sh_addr", Native(c)>>, <<"sh_offset", Native(c)>>,
     <<"sh_size", Native(c)>>, <<"sh_link", 4>>, <<"sh_info", 4>>,
     <<"sh_addralign", Native(c)>>, <<"sh_entsize", Native(c)>> >>

Phdr(c) ==
  IF c = Class32
    THEN << <<"p_type", 4>>, <<"p_offset", 4>>, <<"p_vaddr", 4>>,
            <<"p_paddr", 4>>, <<"p_filesz", 4>>, <<"p_memsz", 4>>,
            <<"p_flags", 4>>, <<"p_align", 4>> >>
    ELSE << <<"p_type", 4>>, <<"p_flags", 4>>, <<"p_offset", 8>>,
            <<"p_vaddr", 8>>, <<"p_paddr", 8>>, <<"p_filesz", 8>>,
            <<"p_memsz", 8>>, <<"p_align", 8>> >>

Sym(c) ==
  IF c = Class32
    THEN << <<"st_name", 4>>, <<"st_value", 4>>, <<"st_size", 4>>,
            <<"st_info", 1>>, <<"st_other", 1>>, <<"st_shndx", 2>> >>
    ELSE << <<"st_name", 4>>, <<"st_info", 1>>, <<"st_other", 1>>,
            <<"st_shndx", 2>>, <<"st_value", 8>>, <<"st_size", 8>> >>

Rel(c) == << <<"r_offset", Native(c)>>, <<"r_info", Native(c)>> >>
Rela(c) ==
  << <<"r_offset", Native(c)>>, <<"r_info", Native(c)>>,
     <<"r_addend", Native(c)>> >>
Dyn(c) == << <<"d_tag", Native(c)>>, <<"d_un", Native(c)>> >>

(* A client takes T as wide as an address of the file.                     *)
Element(c) == << <<"element", Native(c)>> >>

Kinds == {"REL", "RELA", "SYMTAB", "DYNAMIC", "INIT_ARRAY"}
Structures == Kinds \cup {"Ehdr", "Shdr", "Phdr"}

FieldsOf(what, c) ==
  CASE what = "Ehdr" -> Ehdr(c)     [] what = "Shdr" -> Shdr(c)
    [] what = "Phdr" -> Phdr(c)     [] what = "SYMTAB" -> Sym(c)
    [] what = "REL" -> Rel(c)       [] what = "RELA" -> Rela(c)
    [] what = "DYNAMIC" -> Dyn(c)   [] what = "INIT_ARRAY" -> Element(c)

Fields == [what \in Structures |-> [c \in Classes |-> FieldsOf(what, c)]]

(* Where the n-th field begins; the size when n is one too many            *)
Begin(fields, n) ==
  LET sum[m \in 1..n] == IF m = 1 THEN 0 ELSE sum[m - 1] + fields[m - 1][2]
  IN sum[n]

Size == [what \in Structures |-> [c \in Classes |->
  Begin(FieldsOf(what, c), Len(FieldsOf(what, c)) + 1)]]

(* First byte and width of each field                                      *)
Place == [what \in Structures |-> [c \in Classes |->
  LET fields == FieldsOf(what, c) IN
  [f \in {fields[n][1] : n \in DOMAIN fields} |->
     LET n == CHOOSE m \in DOMAIN fields : fields[m][1] = f
     IN <<Begin(fields, n) + 1, fields[n][2]>>]]]

Field(struct, what, c, f) ==
  LET p == Place[what][c][f] IN SubSeq(struct, p[1], p[1] + p[2] - 1)

WithField(struct, what, c, f, v, need) ==
  LET p == Place[what][c][f]
  IN SubSeq(struct, 1, p[1] - 1) \o Stored(need, v, p[2])
       \o SubSeq(struct, p[1] + p[2], Len(struct))

Blank(what, c) == Zero(Size[what][c])

-----------------------------------------------------------------------------
(* What the constants are: the formats of the library; entries as wide as  *)
(* the arguments of add_entry(); header fields that have a setter          *)

Byte == 0..255
Bytes(n) == [1..n -> Byte]

IsEntry(what, e) ==
  CASE what = "REL" ->
         e \in [offset : Bytes(8), symbol : Bytes(4), type : Bytes(4)]
    [] what = "RELA" ->
         e \in [offset : Bytes(8), symbol : Bytes(4), type : Bytes(4),
               addend : Bytes(8)]
    [] what = "SYMTAB" ->
         e \in [name : Bytes(4), value : Bytes(8), size : Bytes(8), bind : Byte,
               type : Byte, other : Bytes(1), shndx : Bytes(2)]
    [] what = "DYNAMIC" -> e \in [tag : Bytes(8), value : Bytes(8)]
    [] what = "INIT_ARRAY" -> e \in [address : Bytes(8)]

Settable ==
  {"ei_osabi", "ei_abiversion", "e_type", "e_machine", "e_entry", "e_phoff",
   "e_shoff", "e_flags", "e_shstrndx"}

ASSUME ClientAssumption ==
  /\ Formats \subseteq Classes \X {LSB, MSB}
  /\ HeaderValues \subseteq Settable \X Bytes(8)
  /\ \A what \in Kinds : \A e \in EntriesOf(what) : IsEntry(what, e)

(* Offsets and sizes are numbers of two bytes here: a call adds an entry   *)
(* and at most the first symbol, neither longer than 48 bytes.             *)
MaxData == 96 * MaxCalls

ASSUME CallsAssumption == MaxCalls \in Nat /\ MaxCalls <= 600

(* The pieces of a dump are those of the file, in their order and with     *)
(* gaps between them.  Neither header table is cut.                        *)
IsDump(ranges, c, size) ==
  LET top == Size["Ehdr"][c]
      table == size - Size["Shdr"][c]
  IN /\ \A t \in ranges : /\ {t.start, t.size, t.mapped} \subseteq Nat
                          /\ t.size > 0 /\ t.start + t.size <= size
     /\ \A t, u \in ranges : t # u =>
          \/ /\ t.start + t.size <= u.start
             /\ t.mapped + (u.start - t.start) <= u.mapped
          \/ /\ u.start + u.size <= t.start
             /\ u.mapped + (t.start - u.start) <= t.mapped
     /\ \A v \in 0..size - 1 : \E t \in ranges :
          t.start <= v /\ v - t.start < t.size
     /\ \E t \in ranges : t.start = 0 /\ top <= t.size
     /\ size > top =>
          \E t \in ranges : t.start <= table /\ size <= t.start + t.size

ASSUME DumpsAssumption ==
  \A c \in Classes, length \in 0..MaxData :
    LET top == Size["Ehdr"][c] IN
    /\ \A ranges \in Dumps(c, top) : IsDump(ranges, c, top)
    /\ LET size == top + length + Size["Shdr"][c]
       IN \A ranges \in Dumps(c, size) : IsDump(ranges, c, size)

-----------------------------------------------------------------------------
(* The header                                                              *)

Magic == <<127, 69, 76, 70>>

(* create_header() and elf_header_impl()                                   *)
NewHeader(c, encoding, need) ==
  LET with(struct, f, n) == WithField(struct, "Ehdr", c, f, Number(n), need)
      ident == Magic \o <<c, encoding, 1>>
      blank == ident \o Zero(Size["Ehdr"][c] - Len(ident))
      sized == with(with(blank, "e_version", 1), "e_ehsize", Size["Ehdr"][c])
  IN with(with(with(sized, "e_shstrndx", 1),
               "e_phentsize", Size["Phdr"][c]), "e_shentsize", Size["Shdr"][c])

Class == header[5]

Getters ==
  [f \in DOMAIN Place["Ehdr"][Class] \ {"ei_mag", "ei_pad"} |->
     Fetched(Field(header, "Ehdr", Class, f))]

SectionField(f) == Value(Fetched(Field(shdr, "Shdr", Class, f)))

WithSectionField(struct, f, n) ==
  WithField(struct, "Shdr", Class, f, Number(n), need_conversion)

-----------------------------------------------------------------------------
(* Entries of the accessors, as a client sees them:                        *)
(*   REL          [offset, symbol, type], RELA also addend                 *)
(*   SYMTAB       [name, value, size, bind, type, other, shndx]            *)
(*   DYNAMIC      [tag, value], INIT_ARRAY [address]                       *)

(* ELF32_R_INFO and ELF64_R_INFO                                           *)
Info_Or32(c, s, t) == t \o s

Info(c, s, t) ==
  IF c = Class32 THEN <<t[1], s[1], s[2], s[3], s[4], 0, 0, 0>> ELSE t \o s

(* get_sym_and_type                                                        *)
RSym(c, info) ==
  IF c = Class32 THEN <<info[2], info[3], info[4], 0>> ELSE SubSeq(info, 5, 8)
RType(c, info) ==
  IF c = Class32 THEN <<info[1], 0, 0, 0>> ELSE SubSeq(info, 1, 4)

(* DT_NULL, and with DT_SYMBOLIC, DT_TEXTREL and DT_BIND_NOW the tags that *)
(* have no value                                                           *)
Null == Zero(8)
NoValue == {Null, Number(16), Number(22), Number(24)}

(* The fields that the generic_add_entry() family fills, as numbers        *)
RelFields(c, e) == [r_offset |-> e.offset, r_info |-> Info(c, e.symbol, e.type)]

RelaFields(c, e) ==
  [r_offset |-> e.offset, r_info |-> Info(c, e.symbol, e.type),
   r_addend |-> e.addend]

SymFields(e) ==
  [st_name |-> e.name, st_value |-> e.value, st_size |-> e.size,
   st_info |-> <<((e.bind * 16) % 256) + (e.type % 16)>>,
   st_other |-> e.other, st_shndx |-> e.shndx]

DynFields(e) ==
  [d_tag |-> e.tag, d_un |-> IF e.tag \in NoValue THEN Zero(8) ELSE e.value]

Packed(what, c, e) ==
  CASE what = "REL" -> RelFields(c, e)  [] what = "RELA" -> RelaFields(c, e)
    [] what = "SYMTAB" -> SymFields(e)  [] what = "DYNAMIC" -> DynFields(e)
    [] what = "INIT_ARRAY" -> [element |-> e.address]

Record(what, c, e) ==
  LET fields == Fields[what][c]
      numbers == Packed(what, c, e)
  IN FlattenSeq([n \in DOMAIN fields |->
       Stored(need_conversion, numbers[fields[n][1]], fields[n][2])])

(* The generic_get_entry() family, on the numbers v in the fields          *)
RelEntry(c, v) ==
  [offset |-> Widened(v.r_offset), symbol |-> RSym(c, v.r_info),
   type |-> RType(c, v.r_info)]

RelaEntry(c, v) ==
  [offset |-> Widened(v.r_offset), symbol |-> RSym(c, v.r_info),
   type |-> RType(c, v.r_info), addend |-> SignExtended(v.r_addend)]

SymEntry(v) ==
  [name |-> v.st_name, value |-> Widened(v.st_value),
   size |-> Widened(v.st_size), bind |-> v.st_info[1] \div 16,
   type |-> v.st_info[1] % 16, other |-> v.st_other, shndx |-> v.st_shndx]

DynEntry(v) ==
  LET tag == SignExtended(v.d_tag)
  IN [tag |-> tag,
      value |-> IF tag \in NoValue THEN Zero(8) ELSE Widened(v.d_un)]

Unpacked(what, c, v) ==
  CASE what = "REL" -> RelEntry(c, v)  [] what = "RELA" -> RelaEntry(c, v)
    [] what = "SYMTAB" -> SymEntry(v)  [] what = "DYNAMIC" -> DynEntry(v)
    [] what = "INIT_ARRAY" -> [address |-> Widened(v.element)]

(* get_default_entry_size(); arrays have none and go by sizeof( T ).       *)
DefaultEntrySize(what, c) ==
  IF what = "INIT_ARRAY" THEN 0 ELSE Size[what][c]

EntrySize ==
  IF kind = "INIT_ARRAY" THEN Size[kind][Class] ELSE SectionField("sh_entsize")

GetEntry(n) ==
  LET bytes == SubSeq(data, n * EntrySize + 1,
                      n * EntrySize + Size[kind][Class])
  IN Unpacked(kind, Class, [f \in DOMAIN Place[kind][Class] |->
                              Fetched(Field(bytes, kind, Class, f))])

(* What fits in the section's size; dynamic entries up to the first DT_NULL *)
EntriesNum ==
  LET all == SectionField("sh_size") \div EntrySize
      ends == {n \in 1..all : GetEntry(n - 1).tag = Null}
  IN IF kind = "DYNAMIC" /\ ends # {} THEN Min(ends) ELSE all

Entries == [n \in 1..EntriesNum |-> GetEntry(n - 1)]

-----------------------------------------------------------------------------
(* Address translation                                                     *)

Translate_EndIncluded(v) ==
  LET hits == {t \in translations : t.start <= v /\ v - t.start <= t.size}
      first == CHOOSE t \in hits : \A u \in hits : t.start <= u.start
  IN IF hits = {} THEN v ELSE v - first.start + first.mapped

(* The ranges are sorted and the first that has the position is taken.     *)
Translate(v) ==
  LET hits == {t \in translations : t.start <= v /\ v - t.start < t.size}
      first == CHOOSE t \in hits : \A u \in hits : t.start <= u.start
  IN IF hits = {} THEN v ELSE v - first.start + first.mapped

ReadAt(pos, n) == SubSeq(stream.bytes, pos + 1, pos + n)

(* A file with `bytes` written at a position, which may be past its end    *)
Written(file, pos, bytes) ==
  LET long == file \o Zero(Max({0, pos - Len(file)}))
  IN SubSeq(long, 1, pos) \o bytes
       \o SubSeq(long, pos + Len(bytes) + 1, Len(long))

-----------------------------------------------------------------------------
Called == calls < MaxCalls /\ calls' = calls + 1

(* create(): the null section and .shstrtab are left out.                  *)
Created(c, encoding) ==
  /\ need_conversion' = NeedConversion(encoding)
  /\ header' = NewHeader(c, encoding, NeedConversion(encoding))
  /\ kind' = "none" /\ shdr' = Blank("Shdr", c) /\ data' = <<>>
  /\ log' = <<>> /\ unlogged' = FALSE

(* elfio::elfio(), which calls create( ELFCLASS32, ELFDATA2LSB ), and, for *)
(* the other files, a create() of the client                               *)
Init ==
  /\ host \in {LSB, MSB}
  /\ \E f \in Formats :
       /\ need_conversion = NeedConversion(f[2])
       /\ header = NewHeader(f[1], f[2], NeedConversion(f[2]))
       /\ shdr = Blank("Shdr", f[1])
  /\ kind = "none" /\ data = <<>> /\ log = <<>> /\ unlogged = FALSE
  /\ translations = {}
  /\ stream = [bytes |-> <<>>, ranges |-> {}]
  /\ calls = 0 /\ saved = <<>> /\ loaded = FALSE

Create(c, encoding) ==
  /\ Called
  /\ Created(c, encoding)
  /\ loaded' = FALSE
  /\ UNCHANGED <<host, translations, stream, saved>>

(* ELFIO_GET_SET_ACCESS                                                    *)
SetHeader(f, v) ==
  /\ Called
  /\ header' = WithField(header, "Ehdr", Class, f, v, need_conversion)
  /\ loaded' = FALSE
  /\ UNCHANGED <<host, need_conversion, kind, shdr, data, log, unlogged,
                 translations, stream, saved>>

TypeNumber(what) ==
  CASE what = "none" -> 0     [] what = "SYMTAB" -> 2 [] what = "RELA" -> 4
    [] what = "DYNAMIC" -> 6  [] what = "REL" -> 9
    [] what = "INIT_ARRAY" -> 14

(* sections.add(), set_type() and set_entry_size() with the default        *)
AddSection(what) ==
  /\ Called
  /\ kind = "none" /\ kind' = what
  /\ LET typed == WithSectionField(shdr, "sh_type", TypeNumber(what))
     IN shdr' = WithSectionField(typed, "sh_entsize",
                                 DefaultEntrySize(what, Class))
  /\ loaded' = FALSE
  /\ UNCHANGED <<host, need_conversion, header, data, log, unlogged,
                 translations, stream, saved>>

(* append_data()                                                           *)
Appended(bytes) ==
  /\ data' = data \o bytes
  /\ shdr' = WithSectionField(shdr, "sh_size", Len(data) + Len(bytes))

(* The symbol at index 0 of a table that is still empty                    *)
NoSymbol ==
  IF kind = "SYMTAB" /\ data = <<>> THEN Blank("SYMTAB", Class) ELSE <<>>

(* The overload of add_entry() decides the format, with an addend or not,  *)
(* and the type of the section how entries are read.                       *)
EntryFormats == IF kind \in {"REL", "RELA"} THEN {"REL", "RELA"} ELSE {kind}

AddEntry(what, e) ==
  /\ Called
  /\ kind # "none" /\ what \in EntryFormats
  /\ Appended(NoSymbol \o Record(what, Class, e))
  /\ log' = Append(log, e)
  /\ unlogged' = (unlogged \/ what # kind)
  /\ loaded' = FALSE
  /\ UNCHANGED <<host, need_conversion, header, kind, translations, stream,
                 saved>>

(* set_entry()                                                             *)
SetEntry(n, e) ==
  /\ Called
  /\ kind \in {"REL", "RELA"} /\ n < EntriesNum
  /\ data' = Written(data, n * EntrySize, Record(kind, Class, e))
  /\ log' = IF n < Len(log) THEN [log EXCEPT ![n + 1] = e] ELSE log
  /\ loaded' = FALSE
  /\ UNCHANGED <<host, need_conversion, header, kind, shdr, unlogged,
                 translations, stream, saved>>

SetAddressTranslation(t) ==
  /\ t # translations /\ translations' = t
  /\ UNCHANGED <<host, object, stream, calls, saved, loaded>>

-----------------------------------------------------------------------------
(* save(): the header goes to where position 0 is translated to, all else  *)
(* to its own position.                                                    *)
Laid(struct) ==
  LET with(st, f, n) ==
        WithField(st, "Ehdr", Class, f, Number(n), need_conversion)
      counted == with(with(struct, "e_phnum", 0), "e_phoff", 0)
  IN with(with(counted, "e_shnum", IF kind = "none" THEN 0 ELSE 1),
          "e_shoff", Size["Ehdr"][Class] + Len(data))

(* The structures of the file: where each begins, and its length           *)
Pieces ==
  LET top == Size["Ehdr"][Class] IN
  {<<0, top>>} \cup
  (IF kind = "none" THEN {}
   ELSE {<<top, Len(data)>>, <<top + Len(data), Size["Shdr"][Class]>>})

Save ==
  /\ UNCHANGED <<host, need_conversion, kind, data, log, unlogged, translations,
                 calls>>
  /\ header' = Laid(header)
  /\ shdr' = IF kind = "none" THEN shdr
             ELSE WithSectionField(shdr, "sh_offset", Size["Ehdr"][Class])
  /\ LET top == Written(<<>>, Translate(0), header')
         table == Written(top, Size["Ehdr"][Class] + Len(data), shdr')
     IN stream' = [bytes |-> IF kind = "none" THEN top
                             ELSE Written(table, Size["Ehdr"][Class], data),
                   ranges |-> {}]
  /\ saved' = IF Translate(0) = 0
                THEN [getters |-> Getters', kind |-> kind, log |-> log,
                      unlogged |-> unlogged,
                      entries |-> IF kind = "none" THEN <<>> ELSE Entries,
                      pieces |-> Pieces]
                ELSE <<>>
  /\ loaded' = FALSE

(* The ranges of a dump cut none of the structures.                        *)
AllWhole ==
  stream.ranges # {} =>
    \A piece \in saved.pieces : \E t \in stream.ranges :
      t.start <= piece[1] /\ piece[1] + piece[2] <= t.start + t.size

(* The file in pieces, each at the place to which it is mapped             *)
Dumped(file, ranges) ==
  [p \in 1..Max({t.mapped + t.size : t \in ranges}) |->
     LET here == {t \in ranges : t.mapped < p /\ p <= t.mapped + t.size}
         t == CHOOSE u \in here : TRUE
     IN IF here = {} THEN 0 ELSE file[p - t.mapped + t.start]]

(* Another program copies the pieces of the file to where they are mapped. *)
Dump(ranges) ==
  /\ stream.ranges = {} /\ ranges # {}
  /\ stream' = [bytes |-> Dumped(stream.bytes, ranges), ranges |-> ranges]
  /\ loaded' = FALSE
  /\ UNCHANGED <<host, object, translations, calls, saved>>

(* load(), by the translations that describe the stream                    *)
NoMagic == ReadAt(Translate(0), 4) # Magic

LoadFails ==
  /\ stream.bytes # <<>> /\ translations = stream.ranges /\ NoMagic
  /\ kind' = "none" /\ shdr' = Blank("Shdr", Class) /\ data' = <<>>
  /\ log' = <<>> /\ unlogged' = FALSE /\ loaded' = FALSE
  /\ UNCHANGED <<host, need_conversion, header, translations, stream, calls,
                 saved>>

(* load_sections(), for a file whose header is `top`: the section's header *)
LoadedHeader(top, c, need) ==
  LET number(f) == Value(Convert(need, InMemory(Field(top, "Ehdr", c, f)))) IN
  IF number("e_shnum") = 0 THEN Blank("Shdr", c)
  ELSE ReadAt(Translate(number("e_shoff")), Size["Shdr"][c])

(* section_impl::load_data(): nothing of what is not all in the stream     *)
LoadedData(at, size) ==
  IF at + size > Len(stream.bytes) THEN <<>> ELSE ReadAt(at, size)

Load ==
  /\ stream.bytes # <<>> /\ translations = stream.ranges /\ ~NoMagic
  /\ LET ident == ReadAt(Translate(0), 16)
         c == ident[5]
         need == NeedConversion(ident[6])
         top == ReadAt(Translate(0), Size["Ehdr"][c])
         table == LoadedHeader(top, c, need)
         number(f) == Value(Convert(need, InMemory(Field(table, "Shdr", c, f))))
     IN /\ need_conversion' = need
        /\ header' = top
        /\ shdr' = table
        /\ kind' = CHOOSE what \in Kinds \cup {"none"} :
                     TypeNumber(what) = number("sh_type")
        /\ data' = IF kind' = "none" THEN <<>>
                   ELSE LoadedData(Translate(number("sh_offset")),
                                   number("sh_size"))
  /\ log' = saved.log /\ unlogged' = (saved.unlogged \/ ~AllWhole)
  /\ loaded' = TRUE
  /\ UNCHANGED <<host, translations, stream, calls, saved>>

DumpsNow ==
  IF saved = <<>> THEN {}
  ELSE Dumps(saved.getters.ei_class[1], Len(stream.bytes))

Next ==
  \/ \E f \in Formats : Create(f[1], f[2])
  \/ \E h \in HeaderValues : SetHeader(h[1], h[2])
  \/ \E what \in Kinds : AddSection(what)
  \/ \E what \in Kinds : \E e \in EntriesOf(what) : AddEntry(what, e)
  \/ \E n \in 0..MaxCalls : \E e \in EntriesOf(kind) : SetEntry(n, e)
  \/ Save \/ Load \/ LoadFails
  \/ \E ranges \in DumpsNow : Dump(ranges)
  \/ \E t \in {{}, stream.ranges} : SetAddressTranslation(t)

Spec == Init /\ [][Next]_vars

-----------------------------------------------------------------------------
(* Every field has the width that its file class gives it, conversion      *)
(* follows the encoding of the header that is in use (also after a load    *)
(* that failed), and the section's size, however it is stored, is that of  *)
(* its bytes, as get_entries_num() relies on.                              *)
EncodingTypeOK ==
  /\ Class \in Classes
  /\ header \in Seq(0..255) /\ Len(header) = Size["Ehdr"][Class]
  /\ shdr \in Seq(0..255) /\ Len(shdr) = Size["Shdr"][Class]
  /\ need_conversion = (header[6] # host)
  /\ kind \in Kinds \cup {"none"}
  /\ kind # "none" => SectionField("sh_size") = Len(data)

(* A saved file means the same to everyone: decoded by nothing but the     *)
(* class and the encoding that it states, whatever the host was that wrote *)
(* it, its header and its entries are what the getters returned, and the   *)
(* sizes of structures are those of its class.  (What stands behind a      *)
(* DT_NULL is in the file and no getter returns it.)                       *)
FileDecodes ==
  (saved # <<>> /\ stream.ranges = {}) =>
    LET c == stream.bytes[5]
        Decoded(bytes) ==
          IF stream.bytes[6] = LSB THEN bytes ELSE Reverse(bytes)
        top(f) == Decoded(Field(stream.bytes, "Ehdr", c, f))
        shdr_bytes == ReadAt(Value(top("e_shoff")), Size["Shdr"][c])
        table(f) == Value(Decoded(Field(shdr_bytes, "Shdr", c, f)))
        at(n) == table("sh_offset") + (n - 1) * table("sh_entsize")
    IN /\ Value(top("e_ehsize")) = Size["Ehdr"][c]
       /\ Value(top("e_shentsize")) = Size["Shdr"][c]
       /\ \A f \in DOMAIN saved.getters : top(f) = saved.getters[f]
       /\ saved.kind \notin {"none", "INIT_ARRAY"} =>
            /\ table("sh_type") = TypeNumber(saved.kind)
            /\ table("sh_entsize") = Size[saved.kind][c]
            /\ LET all == table("sh_size") \div table("sh_entsize")
                   seen == Len(saved.entries)
               IN /\ seen <= all
                  /\ seen < all => /\ saved.kind = "DYNAMIC" /\ seen > 0
                                   /\ saved.entries[seen].tag = Null
            /\ \A n \in DOMAIN saved.entries :
                 LET bytes == ReadAt(at(n), table("sh_entsize"))
                 IN saved.entries[n] =
                      Unpacked(saved.kind, c,
                        [f \in DOMAIN Place[saved.kind][c] |->
                           Decoded(Field(bytes, saved.kind, c, f))])

(* What the fields of the class can hold of an entry: 32 bits of unsigned  *)
(* and of signed numbers, 24 of a relocation's symbol and 8 of its type.   *)
Unsigned32(v) == SubSeq(v, 5, 8) = Zero(4)
Signed32(v) == SignExtended(Narrow(v, 4)) = v

Fits(what, c, e) ==
  /\ what = "SYMTAB" => e.bind < 16 /\ e.type < 16
  /\ (what = "DYNAMIC" /\ e.tag \in NoValue) => e.value = Zero(8)
  /\ c = Class32 =>
       CASE what \in {"REL", "RELA"} ->
              /\ Unsigned32(e.offset) /\ e.symbol[4] = 0
              /\ SubSeq(e.type, 2, 4) = Zero(3)
              /\ what = "RELA" => Signed32(e.addend)
         [] what = "SYMTAB" -> Unsigned32(e.value) /\ Unsigned32(e.size)
         [] what = "DYNAMIC" -> Signed32(e.tag) /\ Unsigned32(e.value)
         [] what = "INIT_ARRAY" -> Unsigned32(e.address)

(* How many of the entries are counted: of dynamic ones, those up to the   *)
(* first that is DT_NULL in the width of the class                         *)
Counted(what, c, entries) ==
  LET width == Native(c)
      ends == {n \in DOMAIN entries : Narrow(entries[n].tag, width) = Zero(width)}
  IN IF what = "DYNAMIC" /\ ends # {} THEN Min(ends) ELSE Len(entries)

(* Entries are read as they were added or last set, in either class and    *)
(* encoding and through any saves and loads, if they fit the fields of the *)
(* class (no accessor checks that: a value given with a tag that has none  *)
(* is dropped) and were added in the section's format.  Of dynamic entries *)
(* those behind a DT_NULL are not there any more.                          *)
EntriesReadBack ==
  (kind # "none" /\ ~unlogged) =>
    LET first == IF kind = "SYMTAB" /\ log # <<>> THEN 1 ELSE 0
        counted == Counted(kind, Class, log)
    IN
    /\ EntriesNum = counted + first
    /\ \A n \in 1..counted :
         Fits(kind, Class, log[n]) => Entries[n + first] = log[n]

(* An object loaded from a dump, through the translations that describe    *)
(* the dump, is the object that was saved, unless a structure of the file  *)
(* is cut in two: only the beginning of each one is translated.            *)
LoadsAlike ==
  (loaded /\ AllWhole) =>
    /\ Getters = saved.getters /\ kind = saved.kind
    /\ kind # "none" => Entries = saved.entries
=============================================================================
