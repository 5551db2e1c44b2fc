# A TLA+ verification of ELFIO

ELFIO is a header-only C++ library that reads, edits and writes ELF files
(`elfio/`), with a companion for `ar(1)` archives (`ario/`). It has no threads
and no network. What makes it hard to get right is state: bytes that are read
lazily from a stream somebody else may close, three sizes that describe one
buffer, caches and indexes that refer into tables while the tables change,
allocations that fail half way through an operation, layouts that are computed
over what the previous layout left behind, and counters as wide as the file
format and no wider.

All source references are relative to the repository (`elfio.hpp:762` is
`src/elfio/elfio.hpp`, line 762).

## 1. Inventory

| component | state it keeps | operations | what must be true of it |
|---|---|---|---|
| section data, `elfio_section.hpp` (`section_impl`) | buffer, its capacity, `sh_size`, `sh_offset`, stream, `is_lazy` / `is_loaded` / `can_be_loaded` | load (eager, lazy), `get_data`, `free_data`, `set_data`, `insert_data`, `append_data`, `save` | the sizes agree with the bytes owned; edits land where asked; a failed allocation changes nothing; lazy and eager show the same bytes |
| segment ordering, `elfio.hpp:769-839` | work list, counters by number of sections | one function, two loops | a permutation; ends; no segment before one that contains it |
| layout, `elfio.hpp:247-282, 841-1064` | file position, set of placed sections, offsets, sizes and addresses of all headers | `save()` up to the writing | sections do not overlap; segments cover their sections; offsets and addresses agree; never backwards |
| reload and validation, `elfio.hpp:355-450, 605-702` | section lists of segments | `load()` of segments, `validate()` | a loaded file has the sections in the segments it had; what was saved is valid; saving it again changes nothing |
| file lifecycle, `elfio.hpp:69-282, 482-594, 1124-1136` | header, sections, segments, the owned stream | `create`, `load` (path), `save`, add section or segment, move construction and assignment | indexes are positions; names survive a save; no read through a stream that is gone; damaged files do not spoil sound parts |
| segment data, `elfio_segment.hpp` | section indexes, lazily loaded bytes | load, `get_data`, `add_section_index` | as for sections |
| symbol table, `elfio_symbols.hpp` | the bytes of `.symtab`, `sh_info`; reads a hash section | `add_symbol`, `arrange_local_symbols`, lookup by name with either hash table or none | local symbols first; no symbol lost; lookup exact although the hash table is never updated |
| relocations, `elfio_relocation.hpp` | symbol indexes | `add_entry`, `set_entry`, `swap_symbols` | follow the symbols they were made for |
| string table, `elfio_strings.hpp` | bytes; positions are handed out | `add_string`, `get_string` | a position always means the same string |
| notes, `elfio_note.hpp` | cached positions | construction, `add_note`, `get_note` | what is written is read back; nothing outside the section is read |
| dynamic section, `elfio_dynamic.hpp` | cached number of entries | `get_entries_num`, `get_entry`, `add_entry` | the cache is never ahead of the bytes |
| versions, `elfio_versym.hpp` | cached numbers, from the size or from the dynamic section | construction, `get_entry`, `modify_entry`, `add_entry` | walks stay on the chain |
| module information, `elfio_modinfo.hpp` | cached list of pairs | construction, `add_attribute`, reads | as for notes |
| arrays, `elfio_array.hpp` | none | `get_entry`, `add_entry` | entries are read as written, in either byte order |
| archive, `ario/ario.hpp` | members, symbol table, directory of long names, stream | `load`, `save`, `add_member`, `add_symbols_for_member`, `data` | names, indexes and locations lead to the right member, through any sequence of loads and saves |
| header, endianness, address translation (`elfio_header.hpp`, `elfio_utils.hpp`), structures (`elf_types.hpp`) | header fields as bytes, the convertor, the translation table | setters and getters, `create`, header `load` and `save`, `set_address_translation` | a file means the same whatever the host; entries survive class, byte order, saves and loads; a translated load gives the same object |
| hash functions (`elfio_utils.hpp`) | none | - | - |
| dump, constants, examples, tests | none of interest | - | - |

How they interact. An `elfio` object owns sections, segments and the stream;
sections and segments keep a raw pointer to the stream and go on reading from it
after `load()` has returned. `save()` runs the ordering, then the layout, which
writes into the headers, then every section's own `save()`. Accessors own
nothing: each holds a pointer to a section and what it cached from its bytes, and
several accessors may work on the same section. `arrange_local_symbols()` calls
a client's callback in the middle of its loop; the intended callback is
`swap_symbols()` of the relocation sections that refer to the table.

Hard behaviours: the stream and its failbit as shared state; lazy loading
against edits, release, save and moves; failed allocations and failed loads;
repeated saves; stale caches; numbers narrowed to 16, 32 or 64 bits. They are
listed one by one, at their lines, under `hazards` in `PROJECT.json`.

## 2. Modules

    ByteStore            what a section promises: a byte string with
                         operations, each with its arguments
      ^ implemented by
    SectionData          one section's buffer          MCSectionData
                       \  SectionDataProofs

    SegmentOrder         the two ordering loops        MCSegmentOrder
      ^ extended by
    Layout               save() up to writing
      ^ extended by
    Reload               validate(), load() of a       MCLayout
                      \  layout, and saving it again
                       \  LayoutProofs (all three)

    Encoding             header, fields and entries    MCEncoding
                      \  as bytes, translations
                       \  EncodingProofs
    ElfFile              objects, files and streams    MCElfFile
                       \  ElfFileProofs
    Symbols              symbols, names, relocations   MCSymbols
                       \  SymbolsProofs
    Accessors            notes, modinfo, dynamic,      MCAccessors
                      \  versions
                       \  AccessorsProofs
    Ario                 archives                      MCArio
                       \  ArioProofs

    NumberFacts          least elements, remainders, recursion along
                         the naturals and descents, for the proofs

`Layout` composes with `SegmentOrder` by extension: `save()` calls the ordering
as its first phase, the steps of the ordering are steps of the layout, and the
ordering's inductive invariant is a part of the layout's. `Reload` extends `Layout`
the same way: what one `save()` has written is what `load()` reads, and the loaded
object goes through the same steps again. The remaining modules
meet at the operations they stand for: `ElfFile` treats the bytes of a section as
a sequence of strings and leaves sizes and buffers to `SectionData` and offsets to
`Layout`; `Symbols` and `Accessors` append to sections by the contract that
`SectionData` establishes.

Each module names, in `PROJECT.json` under `map`, the source lines each of its
definitions stands for. The general correspondence is:

* **SectionData** - `VARIABLES` are the members of `section_impl` under their own
  names, plus `Len(data)` for what is really allocated. Actions: `Create`, `Load`,
  `DropStream` (the owner destroys or replaces the stream), `GetData`,
  `FreeData`, `SetData`, `SetDataNobits`, `InsertData` (also `append_data`),
  `SetSize` and `SetType`, which look at nothing, and `Save`. The types are NULL (what
  a section is after `sections.add()`), NOBITS and PROGBITS, which stands for all
  that have bytes in a file. `sh_size` is as wide as the header's field (`size_max`:
  smaller than an `Elf_Xword` in ELFCLASS32 files), so a size can be narrowed when it
  is stored. Every allocation may fail. Undefined behaviour sets `fault` and ends the
  behaviour. The codec of compressed sections is external: it fails, or yields any
  byte string. `misstated` is a ghost: `sh_size` may not be the number of bytes,
  because `set_size()` was called with more than there are or the field was too narrow.
* **ByteStore** - a string and a type, and the operations as a client calls them:
  `Splice(pos, p)` is the insertion of `p` at `pos`, `Read(bytes)` returns `bytes`,
  `Emit(bytes)` writes them. `AsAsked` in `SectionData` says that each call is the
  operation of its own name with its own arguments.
* **SegmentOrder** - one action per pass of each loop: `FrontStep` and `FrontDone`
  of the swapping loop, `Requeue`, `Take` and `QueueDone` of the other.
* **Layout** - `pc` names the loop `save()` is in; one action per loop pass and
  branch (`VisitNull`, `Abort`, `RevisitSection`, `PlaceSection`, `SkipGenerated`,
  `PlaceRest`, ...). Arithmetic is modulo `Word`. After a save a client may resize
  a section (`Edit`) and save again.
* **Reload** - `file` is the pair of tables that the last complete save wrote.
  `LoadedSegments` gives each segment the sections that `load_segments()` finds in it
  by address (or offset) and kind, in every order that an unstable `std::sort()` may
  leave. `Overlap` and `Conflicting` are the two checks of `validate()`.
* **Encoding** - a number is the sequence of its bytes, and the header, a section
  header and a section's contents are bytes as they lie in the memory of the host,
  whose byte order is a variable. Actions: `Create`, `SetHeader`, `AddSection`,
  `AddEntry`, `SetEntry`, `Save`, `Load`, `LoadFails`, `SetAddressTranslation`, and
  `Dump`, which is another program that puts pieces of the file elsewhere. The
  values of dynamic tags that have none (`NoValue`) are stored and read as 0, and
  dynamic entries are counted up to the first DT_NULL (`EntriesNum`).
  `Fields` is the table of all structures in both classes; setters and getters
  narrow, convert and widen as the macros of `elfio_utils.hpp` do.
* **ElfFile** - files are descriptions: which table entries lie inside them, which
  bytes do, how section names are stored. `Load` models the whole of `load()`: header
  checks, sections, name lookups, segments, eager reads in the code's order and the
  failbit they leave.
* **Symbols** - the string table is a function from positions to strings with the
  size narrowed as in the code. `arrange_local_symbols()` is `BeginArranging`,
  one `Exchange` per pass (search, callback, swap) and `EndArranging`.
* **Accessors** - the section of notes is a sequence of 4-byte words, the other
  sections sequences of their elements. An accessor can be made and used
  at any time; additions come from whichever accessor; an append may fail. The calls
  that read (`GetNote`, `GetVersym`, `ModifyVersym`, `GetVersion`) have the checks of
  the code and no others; one that reaches outside, or through the null pointer of a
  section without data, leaves its mark in `outside` and ends the behaviour.
* **Ario** - an archive file is its entries, directory and symbol table with
  positions computed from sizes. `Load` covers the ways in which the members end:
  cleanly, with cut data, with a fragment of a header (which leaves the stream
  failed), with something that is no header, with a name that cannot be converted,
  without any member. A long name is what stands in the directory from its location
  to the next `/`, wherever the location leads (`LongName`). `SaveOverSource` is the
  save to the file that members still have to be read from.

## 3. Runs

Every run uses two workers and ends within five minutes.

| run | question | properties |
|---|---|---|
| `section` | any sequence of operations on one section, in every mode, allocations failing | `BuffersFit`: an uncompressed section that is not lazy and whose size was not misstated never leaves its buffer, elsewhere the code loses its footing only where the bytes are not in memory, behind a codec, or after a misstated size; `UntouchedShowsFile`; `EagerIsByteStore`: refinement of `ByteStore`, call by call with its arguments |
| `section_save` | violation: a lazy section nobody has read is saved without content | `SaveWritesContent` |
| `order` | all tables of up to three segments over nested section lists, and four in chains | `EachSegmentOnce`, `CountsExact`, `ContainersFirst`, `Ordered` |
| `order_unsorted` | violation: containment is missed for unsorted section lists | `OuterFirst` |
| `layout` | two saves, with an edit or a load of the saved file between them, over new and loaded objects | `Disjoint`, `SegmentsCover`, `ImageMatches`, `NeverBackwards`; `MembersFound`: `load()` will find in a segment the sections it had, and in no other segment that lies apart; `SavedIsValid`: `validate()` accepts what `save()` lays out; `ResaveKeeps`: a file loaded and saved again has the same image |
| `layout_threads` | violation: segments with thread-local sections change size when a file is loaded and saved | `ResaveKeepsThreadLocals` |
| `encoding` | files written in either class and byte order on either host, dumped, translated, loaded | `FileDecodes`: a reader that knows only the class and encoding stated in the file gets what the getters returned; `EntriesReadBack`: entries that fit their fields survive additions, changes, saves and loads, dynamic ones up to the first DT_NULL; `LoadsAlike`: a dump loaded through the translations that describe it is the object that was saved |
| `file` | two objects, nine files, sound and damaged (a section, a segment, an entry of either header table outside the file; wrong entry sizes; cut; foreign), loads, additions, saves and moves interleaved | `SoundObjectsWork`, `NamesSurviveSave`, `ReadsIndependent` |
| `symbols` | additions interleaved with rearrangements, up to a full string table | `RelocationsFollow`, `SymbolsKept`, `LocalsFirst`, `NamesRight`, `LookupExact`, `ArrangingEnds` |
| `accessors` | two accessors at a time on new, whole, cut and data-less sections | `AddedIsReparsed`; `ReadsInside`: no call that reads leaves its section, but for two named reasons; `VersionsFollow` |
| `ario` | two files, sound and damaged, loads, additions, saves in any order | `NamesResolve`; `IndexesInRange`: after a load that went to the end, symbols have indexes of members, if there are any; `SaveRoundTrips` |
| `ario_location` | violation: locations are 60 bytes too large without long names | `LocationsAreMembers` |

Each passing run also checks its module's type invariant, which carries one
non-obvious bound (loop indexes, buffers as long as headers say, counters within
their width, indexes of sections that are their positions, caches that are never
ahead of the bytes).

### Bounds, and why they are enough

* `section`: a file of 2 bytes, payloads of 1 and 2, the largest `Elf_Xword` 4, size
  fields that hold up to 2 and up to 4 (narrower than, and as wide as, an
  `Elf_Xword`), and `set_size()` with 1 and 3, which cuts the content, shows more of the
  buffer or exceeds it. Every overflow check is met with both outcomes, a capacity
  that is doubled exceeds what is needed and reaches the maximum, and the offset and
  size of a loaded section lie inside, at the end of and behind the file.
* `order`: a segment waits for another, two wait for the same, a chain of three
  waits; offset-0 segments stand before, between and behind others. Loaded
  segments precede added ones, as `segments_` has it.
* `layout`: three sections of four kinds, thread-local and not loaded ones among
  them, up to three segments: absent,
  disjoint, nested two deep, inner first, holding the null section, starting at
  offset 0, of a memory size that the client has set. `Word` is 512 so that only
  deliberately chosen addresses wrap;
  `MaxSaves` is 2 because a save depends on earlier ones only through the headers,
  and a load only through the tables of the file.
* `encoding`: `MaxCalls` 3 calls that change the object, with saves, loads, dumps and
  translations free: a section, two entries, or an entry that is set again, or a
  header field. One class with each encoding on both hosts, so that every pair of
  host and file order occurs with a class; entries with a different byte in every
  position, one that fits 32 bits and one that does not, negative numbers. Dynamic
  entries: a tag without value that is given one, DT_NULL in front of others, and a
  tag that is DT_NULL only in the 32 bits of its field. A dump
  has the header apart from the rest, with gaps, or cuts the file in the middle of
  its contents.
* `file`: `MaxSections` 3, `MaxSegments` 1, `MaxMembers` 1, `MaxStreams` 2. Two
  objects suffice for every effect of a move; a third stream can only be one more
  that nobody refers to. Objects are interchangeable, so symmetry is sound (no
  liveness is checked in that run).
* `symbols`: 5 symbols, 2 relocation sections with one relocation each, a string
  table that is full at 7 bytes. Two names share a hash and one differs from
  them only in the bit the GNU lookup ignores.
* `accessors`: three additions, two accessors; a third accessor relates to the
  bytes as one of the two does. Accessors are interchangeable (symmetry, again
  without liveness).
* `ario`: two members, names of 15, 16 and 21 characters (both sides of the
  16-byte field and its `/`), odd and even data, one save; archives written by other
  tools, with and without symbols, directory and members: the same name twice,
  locations in the middle of a name and at the end of a line, a long name without
  directory, the end of the file behind the symbol table, in the middle of data and in
  the middle of a header, and bytes behind the members that are no header.

`CHECK_DEADLOCK` is off where the program really stops: undefined behaviour (`section`,
`file`, `accessors`), a finished function (`order`), and the bounds on saves and
members (`layout`, `ario`).

### Fairness

`order` assumes weak fairness of the whole function (`OrderSpec`): it is sequential
code that never waits, so once started it runs on. `symbols` assumes weak fairness
of `Arranging` alone: once called, `arrange_local_symbols()` runs; nothing is
assumed about clients. No other run assumes any.

## 4. Findings

1. `elfio_section.hpp:544` - saving a lazily loaded file whose sections nobody has
   read writes headers without contents (`section_save`).
2. `elfio.hpp:762` - `std::includes` needs sorted ranges, and a segment's section list
   is in the order of insertion: an inner segment can be laid out before the
   one that contains it (`order_unsorted`).
3. `elfio.hpp:686` - `load()` leaves thread-local sections out of every segment but
   PT_TLS, so a file with `.tdata` that is loaded and saved unchanged gets LOAD and
   RELRO segments of other sizes (`layout_threads`); `tests/ELFIOTest.cpp:1234` has
   the assertion that would show it commented out.
4. `ario.hpp:674` - the directory of long names counts in symbol locations
   although an empty one is not written (`ario_location`).

Conditions in passing properties are findings in a small way, since the code does not
enforce them:

* `SoundObjectsWork` lists how an object stops being sound.
* `BuffersFit` allows a lazy section that is edited before it was read. It and
  `EagerIsByteStore` also end where a size was misstated: `set_size()`
  (`elfio_section.hpp:179`) takes any size for any section, and after one that is
  larger than the bytes, `append_data()` and `insert_data()` (359-366) and `save()`
  (581) reach outside the buffer; in an ELFCLASS32 file, `sh_size` keeps the lower 32
  bits of a size that the overflow checks (326, 331) compare with 64 bits; and a NULL
  or NOBITS section can be loaded with a size and no bytes, and retyped.
* Of a section of type NULL, which is what `sections.add()` leaves until `set_type()`,
  `save()` writes nothing (543-544) although `set_data()` and `insert_data()` have
  accepted its bytes: `Emit` says so, and it is part of what is promised rather than
  an exception.
* `IndexesInRange` excludes archives whose last load ended early (a name that cannot
  be converted, bytes behind the members: `ario.hpp:506`, `535`, `560` and `568`
  return before the locations in the symbol table are replaced by indexes), and
  archives with a symbol table and no member, which `load()` accepts: every symbol
  gets index 0 (589-597), and `find_symbol()` (371) then reads `members_[0]` of an
  empty vector.
* `SaveRoundTrips` claims the data only of members that were added, or that could be
  read: a fragment of a header at the end of the file leaves the stream failed
  (503-507; the `clear()` is at 586), so that `data()` (95-98) of every loaded member
  fails from then on, and a save writes error texts in the place of their data (796).
* `ReadsInside` names two reasons. An addition that failed, or a note added with a
  null description and a size, leaves an accessor with positions or counts that the
  bytes do not have. And the accessors of versions have a count from the section's
  size, or from the dynamic section, also if the section has no data, and then
  dereference null (`elfio_versym.hpp:65`, `80`, `181`, `275`). It is about sections,
  not about the list of positions: `get_note()` compares the index with the size of
  the section in bytes (`elfio_note.hpp:79`), so an index that is not below
  `get_notes_num()` can pass and leaves `note_start_positions` (83), for example index
  0 in a section whose first note is cut. `GetNote` allows such a call, which sets
  `"index"` in `outside`; not asking for more notes than `get_notes_num()` is left to
  the client.
* `ReadsIndependent` needs both header tables to lie inside the file (`TablesInside`):
  an entry that cannot be read leaves the failbit (`elfio.hpp:572`), and no later read
  clears it, so that in a file whose program header table is cut no lazily loaded
  section can be read, although sections were loaded first.
* In the layout, `SegmentsCover` and `MembersFound` need sections without file
  contents to come last in their segment (`NobitsLast`: the padding in front of a
  NOBITS section moves the file position but not the segment's size,
  `elfio.hpp:1035`). `SegmentsCover` also needs that each segment placed before has
  all of the segment's sections or none of them (`AllOrNone`; finding 2, and segments
  that overlap without nesting: the part they share is counted again from a wrapped
  difference, `elfio.hpp:1023`) and that a segment lists its sections as they lie in
  the file (`InOrder`; after a load, empty sections at equal offsets need not, since
  `std::sort()` is not stable).
* `Disjoint` needs that no position exceeds a word, which an address below its
  segment's brings about (`wrapped`: the guard at `elfio.hpp:1002` compares unsigned
  words); `NeverBackwards` names the two ways in which that happens (`BeyondWord`, and
  padding).
* `ImageMatches` speaks of segments that share no section with one laid out before
  (`Foremost`); it needs that alignment plus alignment does not exceed a word
  (`elfio.hpp:925` adds before it takes the remainder), and a client who sets a
  segment's offset to 0 answers for its congruence.
* `MembersFound` needs segments that can be mapped as they lie (`Loadable`: as much
  memory as file contents, which ends within a word, sections listed as they lie, none
  placed by an earlier segment), and says that no segment that shares neither memory
  nor bytes of the file (`Apart`) gets a section of another: where extents do overlap,
  `load()` gives a section to both, whatever it was saved with.
* In `SavedIsValid` overlaps are excluded for all sections, conflicting addresses for
  the segments that share no section with an earlier one (`SharesNone`): of the others
  the client chooses the address, but not the offset.
* `ResaveKeeps` does not say anything of a loaded file with two sections at one offset
  (`Untied`), nor of one with an empty section in a segment (`NoneEmpty`): an empty
  section that has an address gets no padding (`elfio.hpp:996`: it is placed by its
  address only if it has contents), so that the padding the first save put before it
  is gone after the second, and the segment's file size is smaller.
* `EntriesReadBack` excludes entries that do not fit the fields of the class, which no
  accessor checks, and relocations added by the overload of the other format. A value
  that is given with DT_NULL, DT_SYMBOLIC, DT_TEXTREL or DT_BIND_NOW does not fit,
  since `add_entry()` drops it (`elfio_dynamic.hpp:232-239`), and entries behind the
  first DT_NULL are in the file but are not counted, so that no getter returns them
  (64-69); in an ELFCLASS32 file that is the first tag whose lower 32 bits are zero.
* `LoadsAlike` excludes dumps that cut a structure in two: only its beginning is
  translated (`elfio_utils.hpp:242`).

## 5. Proofs

TLAPS checks, for every value of the constants:

| theorem | module | statement |
|---|---|---|
| `SectionInvariance` | SectionDataProofs | `Spec => []SectionInv` |
| `SectionTypeCorrect` | SectionDataProofs | `Spec => []TypeOK` |
| `BuffersAlwaysFit` | SectionDataProofs | `Spec => []BuffersFit` |
| `LoadedBytesShow` | SectionDataProofs | `Spec => []UntouchedShowsFile` |
| `SectionIsByteStore` | SectionDataProofs | `Spec => EagerIsByteStore` |
| `OrderTypeCorrect` | LayoutProofs | `OrderSpec => []OrderTypeOK` |
| `OrderIsPermutation` | LayoutProofs | `OrderSpec => []EachSegmentOnce` |
| `CountsCorrect` | LayoutProofs | `OrderSpec => []CountsExact` |
| `ContainersCorrect` | LayoutProofs | `OrderSpec => []ContainersFirst` |
| `LayoutInvariance` | LayoutProofs | `Spec => []LayoutInv` |
| `LayoutTypeCorrect` | LayoutProofs | `Spec => []LayoutTypeOK` |
| `SectionsAreDisjoint` | LayoutProofs | `Spec => []Disjoint` |
| `CoverInvariance` | LayoutProofs | `Spec => []CoverInv` |
| `SegmentsCoverSections` | LayoutProofs | `Spec => []SegmentsCover` |
| `ImageInvariance` | LayoutProofs | `Spec => []ImageInv` |
| `ImageIsMapped` | LayoutProofs | `Spec => []ImageMatches` |
| `LayoutMovesForward` | LayoutProofs | `Spec => NeverBackwards` |
| `ClearInvariance` | LayoutProofs | `Spec => []ClearInv` |
| `ReloadInvariance` | LayoutProofs | `ReloadSpec => []ReloadInv` |
| `ReloadTypeCorrect` | LayoutProofs | `ReloadSpec => []LayoutTypeOK` |
| `ReloadDisjoint` | LayoutProofs | `ReloadSpec => []Disjoint` |
| `ReloadCovers` | LayoutProofs | `ReloadSpec => []SegmentsCover` |
| `ReloadMaps` | LayoutProofs | `ReloadSpec => []ImageMatches` |
| `ReloadMovesForward` | LayoutProofs | `ReloadSpec => NeverBackwards` |
| `ReloadValid` | LayoutProofs | `ReloadSpec => []SavedIsValid` |
| `ReloadFinds` | LayoutProofs | `ReloadSpec => []MembersFound` |
| `FilesInvariance` | ElfFileProofs | `Spec => []FileInv` |
| `FileTypeCorrect` | ElfFileProofs | `Spec => []FileTypeOK` |
| `SoundObjectsStayWorking` | ElfFileProofs | `Spec => []SoundObjectsWork` |
| `CorruptSectionsReadable` | ElfFileProofs | `Spec => []ReadsIndependent` |
| `NamesSurvive` | ElfFileProofs | `Spec => []NamesSurviveSave` |
| `SymbolsInvariance` | SymbolsProofs | `Spec => []SymbolsInv` |
| `SymbolsTypeCorrect` | SymbolsProofs | `Spec => []SymbolsTypeOK` |
| `RelocationsKeepTheirSymbols` | SymbolsProofs | `Spec => []RelocationsFollow` |
| `NoSymbolIsLost` | SymbolsProofs | `Spec => []SymbolsKept` |
| `LocalSymbolsAreFirst` | SymbolsProofs | `Spec => []LocalsFirst` |
| `NamesStayRight` | SymbolsProofs | `Spec => []NamesRight` |
| `LookupsAreExact` | SymbolsProofs | `Spec => []LookupExact` |
| `Invariance` | EncodingProofs | `Spec => []EncodingInv` |
| `TypeCorrect` | EncodingProofs | `Spec => []EncodingTypeOK` |
| `EntriesAreReadBack` | EncodingProofs | `Spec => []EntriesReadBack` |
| `LoadedAlike` | EncodingProofs | `Spec => []LoadsAlike` |
| `FilesDecode` | EncodingProofs | `Spec => []FileDecodes` |
| `ArioInvariance` | ArioProofs | `Spec => []ArioInv` |
| `ArioTypeCorrect` | ArioProofs | `Spec => []ArioTypeOK` |
| `NamesAlwaysResolve` | ArioProofs | `Spec => []NamesResolve` |
| `IndexesStayInRange` | ArioProofs | `Spec => []IndexesInRange` |
| `SavedArchivesReload` | ArioProofs | `Spec => SaveRoundTrips` |
| `AccessorsInvariance` | AccessorsProofs | `Spec => []AccInv` |
| `AccessorsTypeCorrect` | AccessorsProofs | `Spec => []AccessorsTypeOK` |
| `WhatIsAddedIsReparsed` | AccessorsProofs | `Spec => []AddedIsReparsed` |
| `ReadsStayInside` | AccessorsProofs | `Spec => []ReadsInside` |
| `VersionsAreFollowed` | AccessorsProofs | `Spec => []VersionsFollow` |

**Section data.** `SectionInv` is the type invariant and `BufferInv`, which says
what the three sizes and the flags have to do with each other: a new section is
blank, one without a buffer has no size (unless it is lazy and unread), a NOBITS one
owns nothing, and otherwise `sh_size <= data_size <= Len(data)`. `BuffersFit` alone is
not inductive: whether `insert_data()` stays inside depends on `data_size`, which it
does not mention, and whether a read does depends on the bounds check having been
made against the same file (`ShowsFile`). The refinement has one lemma per action
(`InsertSplices`, `SetDataAssigns`, `SaveEmits`, ...), each of which shows that the call
is the operation of `ByteStore` of that name with the arguments of the call, so
that an insertion at another position, a read that changes the content or a save of
less than all of it would not do; `StoreStepwise` and `OperationsAsAsked` put them
together. `SectionInv` gives what the guards of `ByteStore` need, and the doubling of
the capacity is not seen. What is refined is a section while it is `Plain`; a step after
which it is not (a misstated size) is `Abandon`, which says nothing of the content.
Assumed: the file is shorter than the largest `Elf_Xword`, and payloads, sizes and the
limits of the size field are no larger than it.

**Ordering.** The inductive invariant is `RunInv`: the table is well formed, the
types, `EachSegmentOnce` and `CountsExact` (together `OrderInv`), and
`ContainersFirst`. The type part bounds the indexes of the swapping loop; that
swaps keep every segment is `MembersOfSwap`. `CountsExact` is needed for more than
itself: the code skips the containment test when the counters say that nothing
larger is left, and `TakenIsOutermost` derives from the exact counters that
skipping is justified. `CountsWithoutHead` shows how taking one segment changes
the cardinalities, and that the loop which lowers the maximum stops at the right
number. The only assumption is `SegTablesAssumption`: tables are finite
sequences with finite section lists.

**Layout.** `LayoutInv` is the type invariant, the ordering's `OrderInv`, the
disjointness of what is placed, and `Behind`: the file position is never before the
end of the headers. One lemma per action. `PlacingOne` carries the argument: a
section placed at the current position lies behind all placed before it, because
each of them ends at or before that position; `PlacingNone` covers the steps that
place nothing. `LayoutAssumption` says that section 0 is the null section, that
segments refer to existing sections and that headers are not empty and fit in
a word.
Disjointness is claimed while the file position has not exceeded a word (`wrapped`
is a ghost variable).

`CoverInv` adds what `SegmentsCover` needs. When a segment is reached, either none of
its sections has a place yet or all of them have (`AllOrNone`, and `Sources`: places
are given with a whole segment). In the first case its extent ends where the file
position is, until sections without contents follow (`Growing`, `PlacedOnce`). In the
second it starts at or before each of its sections, and after each visit it ends
exactly where the visited section ends: the two unsigned differences and two sums of
`elfio.hpp:1023` and `1035` cancel even when they wrap (`RevisitedSpan`). A segment
that is laid out stays settled, since its sections are not moved again.

`ImageInv` adds what `ImageMatches` needs: as long as no position has exceeded a word,
each section already placed in the current segment is as far from the segment's start
in the file as in memory (`MapsFrom`), and the start is not behind the file position.
A section that has an address is placed at the difference of two unsigned differences
and one that has none gets its address from a sum and a difference; that both are
inverse to what `ImageMatches` subtracts is `PlacedMatches`. That the padding in front
of a segment makes its offset congruent to its address is `PageMatches`, from
`DivisionUnique` and `NextCongruent` in `NumberFacts`.

`ClearInv` adds what `validate()` and `load()` need, which look not for a segment's own
sections but for whatever lies at its offset or inside its extent. For every segment
that has been laid out or is under way, it says that each placed section of another one
ends before the segment's start or begins behind it, and that the file position is
behind the segment (`KeptClear`, `BeingClear`); and that a segment that holds nothing has
no size (`BareIsEmpty`). `Disjoint`, which is about pairs of sections, does not give this:
between the start of a segment and its first section there can be padding. It is
inductive because a section is placed at the position or behind it, which is behind
every segment finished before and never moves back (`PlacingMovesOn`). In the finished
layout `NoOverlaps` and `NoConflicts` turn it into the two checks of `validate()`;
`InsideExtent` and `MemberExtents` say, from `CoverInv` and `ImageInv`, that a
section lies inside its segment in the file and in memory alike, and `FoundSuffices`
that this is what `load()` tests for. That headers are not empty is needed for
segments at offset 0, where then no section lies.

`ReloadInv` extends all of this to objects that are loaded from a saved file. The order's
invariant is not kept by `Load`, which replaces the lists of the segments, and is not
needed while idle: `BeginSave` makes a new order. That the loaded lists are lists of
existing sections is `LoadedSegmentsTyped`.

**Files.** `FileInv` says of every object, sound or not, what its sections and
segments may rely on (`ObjectFine`), relative to the table of streams. The parts that
the properties do not mention and the induction needs: a section's bytes are as many
as its size says; a section that still refers to a stream has the entry of that
stream's file which is at its own position, and if the header tables lie in the file
the failbit is clear (`SectionFine`); in a sound object the string table is held and
every name is at its offset in it (`NameFine`), and whatever is still to be read
comes from the stream the object itself owns, which is alive (`Served`); and no two
objects own the same stream (`OwnersDiffer`), without which destroying one object
would close the stream of another. A load is proved in the order of the code -
sections, names, segments, each with the failbit the previous one left
(`NamedFacts`, `LoadedSegmentsFacts`, `AfterLoadFine`) - with `LeastElement` for the
first entry at which `load_segments()` gives up. `NamesSurvive` needs no
further invariant: the saved image has the names at the offsets that `Soundness`
speaks of. `ElfFileAssumption` says that files are descriptions of the stated shape
(`IsFile`); nothing is assumed of their contents.

**Symbols.** `SymbolsInv` joins the properties with what makes them inductive:
identities are those of the indexes, each once (`IdsOnce`), since a relocation is
followed through an identity; strings end inside the table, so that the next one does
not touch them, and names are positions of strings (`StringsInside`,
`NamesInside`); and everything the arranging has passed is local
(`PassedAreLocal`). `LocalsFirst` then comes from the last pass finding no local symbol
behind. Relocations are looked at between the callback and the next pass; that
`swap_symbols()` in every relocation section matches the swap in the table is one
lemma. Assumed: an `Elf_Word` holds at least 1, and the tables at first are empty or
those of an undamaged file (`ObjectsAssumption`: the null symbol comes first, names
are positions of strings that end inside the table, and the hash section is as
`IsHash` says). `IsHash` says nothing of which symbols a hash section leads to: its
chains have to end, and that is all. `LookupExact` has two sides. A lookup finds no
wrong symbol because both walks compare the name before they return. It misses none
because `get_symbol()` goes through the whole table when the hash section led
nowhere, so that a hash section that symbols were added to or exchanged behind is
only slower. What is left to prove is that the walks come to an answer at all: the
walk along a chain of the SysV table is a recursive function of the position, which
`DescentsExist` (in `NumberFacts`) shows to be defined when a rank decreases along the
chain; the scan of the GNU table ends at the mark, and its solution is given
outright.

**Encoding.** The inductive invariant `EncodingInv` is `ObjectInv` (the object in
memory), `SavedInv` (the stream) and the form of the translations. `ObjectInv` says that
the header, the section's header and the entries are *inscribed*: every field of every
structure holds the number that was last set, narrowed to the width of the field and in
the byte order that the header states, whatever the host. It is what `EncodingTypeOK`
and `EntriesReadBack` need and do not say: that setting one field leaves the others
alone (`Places`: the fields of a structure do not overlap, from the tables of the
structures), that an addition leaves the entries before it where they were
(`LogAppended`), that changing one entry leaves the others alone (`LogSet`), and that
the stored size is a multiple of the size of an entry. That what was narrowed is read
back whole when it fits is shown for each format of an entry, with its packed parts
(`r_info`, `st_info`; `RoundTrip`). Dynamic entries are counted from the bytes and from
the ghost log: a tag is read as DT_NULL exactly if what its field holds of it is zero
(`NullIs`), so both counts end at the same entry (`ReadsBack`). `SavedInv` says that
some object (header, kind, section header, contents) is saved whose getters and entries
are what was noted at the save, and that the stream holds its file (`FileOf`), as a
whole or in pieces. A save is proved to write that file although it writes the section's
header before the contents (`FileOfIs`, `StreamRanges`), and a load to get the parts of
the object through the translations (`StartLoaded`, `HeaderLoaded`, `DataLoaded`): a
structure that lies in one piece of the dump is found where its first byte is translated
to. The existential over objects has no bound, so TLC checks the properties that follow
from the invariant and not the invariant itself. Recursion over the tables (`Begin`,
`FlattenSeq`) is solved by looking at the tables, which are given; that offsets and
sizes keep their values relies on the two bytes a `Number` has (`CallsAssumption` bounds
the contents). Assumed of clients (`ClientAssumption`): the arguments have the types of
the parameters of `add_entry()` and of the setters. Assumed of dumps
(`DumpsAssumption`): the pieces keep their order and the gaps between them do not
shrink, so that what the library reads behind the end of a piece is still in the stream;
and neither header table is cut.

**Archives.** `ArioInv` is its three properties together; `IndexesInRange` needs
the types of what is in the files, and those need that a saved archive is a file
again (`IsFile`), which `NamesResolve` provides. `SaveRoundTrips` is an action
property: after a step that saves, loading what was written gives the members
back. It rests on lemmas about the places of members in the file - sizes are sums
over the members before, which is increasing, so a location that is a member's is
only that member's - and about the directory, in which the text at a long
name's position is that name. Assumed of archives made elsewhere
(`DisksAssumption`): entries, directory and symbol table are of their types; sizes,
names, locations, the number of members and how the file ends are free. Of texts
(`ArioAssumption`): a name without none of its characters is that name; what else
`Suffix` and `Lined` give may coincide in any way. `IndexesInRange` is inductive
together with the types because a load that went to the end has given every symbol, also
those left by an earlier archive, the index of a member or 0, and members are only
added. The sums are recursive functions; what they are is proved by looking at the
least position at which it would fail (`LeastElement` in `NumberFacts`), which takes
the place of induction; that they are defined at all is `StepsExist`.

**Accessors.** `AccInv` says of every accessor what its cache has to do with the bytes
(`CacheFits`) and of the bytes that they hold what the ghost logs say (`LogsFit`); of a
section without data, that no accessor lists notes of it unless an addition failed
(`Unlisted`); and that no call has left a section but for the reasons given
(`ReadsInside`). Two parts are there for the induction only. A section to which every
note was written holds nothing but notes (`OnlyNotes`): without it an added note would
be found at another place than the one `add_note()` remembers, or not at all. And every
remembered position is that of a whole note, unless a note could not be written as it
was given, also in a section that the file cut short. From these each call that reads is
shown to stay inside, whatever index or number it is called with. An addition keeps
other accessors' caches since sections only grow, and a longer section has the old
notes, attributes and counts where they were (`Grows`, `CachesGrow`); the first entry
with a tag stays the first (`CountsGrow`). What the recursive walk over the notes finds
behind an appended note is `PositionsExtend`, by the last position at which it would not
hold; that the padding `add_note()` writes is the padding the walk steps over is
`NoteAppended`. The position in a chain of versions is given outright by `Chained`.
Assumed (`AccessorsAssumption`): the words of an added text are as many as its size
needs; sections hold elements of their types, entries of the dynamic section as
`get_entry()` returns them; and chains of versions have the layout of the GNU tools,
with one auxiliary record each, which `VersionsFollow` is about. Nothing is assumed of
the words of notes.

**Only model-checked.**

* Liveness, which is out of the prover's reach: `Ordered`, `ArrangingEnds`.
* What recursive functions compute on any data, which takes induction over it, a
  part the provers have no direct means for: what `Includes` computes on sorted lists.
* `ResaveKeeps`, which relates two layouts through a file: its invariant would have to
  follow every step of the second save along the step of the first that placed the
  same section, in segments that `load()` has listed anew.

## 6. What is not modelled

* The value that one `get_entry()` of relocations computes for i386 types
  (`elfio_relocation.hpp:177-241`): it reads and changes nothing.
* In `Encoding`, the null section and `.shstrtab` that `create()` makes, program
  headers in files (their structure is in the table), and saving under translations
  that move position 0, after which the file cannot be read by this library.
* The byte order of versions: their accessors convert nothing (`elfio_versym.hpp:65`,
  `181`), so the models of versions are restricted to files in the host's byte order.
* Compression: the codec is external. Flags and the address translation of a section
  do not change during its life (`set_flags()` after the bytes are there would make it
  compressed or not), and the size of the stream grows with each insertion: sections
  loaded under address translation skip that (`elfio_section.hpp:374`).
* `load(stream)` with a stream owned by the client; `set_name()`; `free_data()` within
  `ElfFile` (it is in `SectionData`).
* `ElfFile` takes the sections of a segment from the file's description (`Reload` is
  where they are worked out).
* `validate()` on types other than NULL, PROGBITS and NOBITS, where its test of
  the type (`elfio.hpp:366`) treats numbers as sets of flags.
* The hash functions: `Symbols` takes any hash, with collisions.
* Damaged hash sections (a chain that leads back to itself, or a GNU chain without an
  end: `IsHash`), and notes in sections of 2 GiB and more, where 32-bit sizes wrap, or
  whose size is no multiple of 4 bytes; the strings of dynamic entries; 2^16 sections
  and more.
* Archives: names that contain `/`, or in the header field no `/`; a directory or symbol
  table that the end of the file cuts; a directory
  whose size counts the newline that pads it, as GNU ar writes it; other orders of
  the tables. A header whose fields are no numbers is what the model calls `noise`, and
  what follows it is left out, since the load ends there.
* A null section that is not null.
* Dump, examples, tests: no state, or no behaviour of the library.

## 7. Plan

Done, in this order: `SectionData` with its abstraction; `SegmentOrder` and
`Layout`, with their proofs; `Ario`; `Symbols`; `ElfFile`; `Accessors`; `Reload`;
`Encoding`.

Proved so far: the ordering, the layout, and everything of `SectionData`, `ElfFile`,
`Ario`, `Symbols`, `Accessors` and `Encoding` that is a safety property; of `Reload`, what
a finished layout looks like to `validate()` and `load()`.

Next, prove: `ResaveKeeps`, from an invariant that compares a layout under way with the
one in `file`.

Next, model: strings of dynamic entries, and files in the other byte order for the
version accessors, in `Accessors`; the two hash functions as operators.
