-------------------------------- MODULE Ario --------------------------------
(***************************************************************************)
(* Class ario of ario/ario.hpp: an ar(1) archive in memory and the archive *)
(* files it is loaded from and saved to.  A file is modelled by its        *)
(* entries; their sizes decide at which position each of them stands, and  *)
(* the symbol table in the file refers to members by that position, the    *)
(* one in memory by index.  Names too long for the header go to a          *)
(* directory, and the header holds their location there.  The data of a    *)
(* loaded member stay in the file until somebody asks for them.            *)
(***************************************************************************)
EXTENDS Integers, Sequences, FiniteSetsExt

CONSTANTS
  Names, NameSize,      \* names without '/' in headers and directories, and
                        \* their lengths
  Texts,                \* the names members can get, see LongName below
  Suffix(_, _),         \* a name without so many of its first characters
  Lined(_),             \* a newline and a name
  Symbols, SymbolSize,  \* symbols, and the lengths of their names
  Contents, Size,       \* member data, and their sizes
  Files,                \* the files there are
  Disks,                \* what may stand in the files at first
  MaxMembers,           \* bound on the members of an archive
  MaxLongNames,         \* bound on the names in the directory
  MaxSaves,             \* bound on the number of saves
  None,                 \* no file, no name
  Unknown               \* data nobody can tell

HeaderSize == 60
FieldNameSize == 16
MagicSize == 8

ASSUME ArioAssumption ==
  /\ NameSize \in [Names -> Nat \ {0}]
  /\ SymbolSize \in [Symbols -> Nat]
  /\ IsFiniteSet(Symbols)
  /\ Size \in [Contents -> Nat]
  /\ Names \subseteq Texts
  /\ \A n \in Names : Suffix(n, 0) = n /\ Lined(n) \in Texts
  /\ \A n \in Names : \A d \in 0..NameSize[n] - 1 : Suffix(n, d) \in Texts
  /\ None \notin Texts \cup Files
  /\ Unknown \notin Contents
  /\ {MaxMembers, MaxLongNames, MaxSaves} \subseteq Nat

VARIABLES
  disk,            \* the archives in the files
  members,         \* members_, with index 0 first
  symbol_table,    \* from symbols to indexes of members
  string_table,    \* the names in the directory of long names
  source,          \* the file pstream reads, or None
  stream_good,     \* pstream has not failed
  saves,
  clean            \* ghost: the last load went to the end of its file

vars == <<disk, members, symbol_table, string_table, source, stream_good,
          saves, clean>>

-----------------------------------------------------------------------------
(* Tables and sums                                                         *)

Overlaid(f, g) ==
  [x \in DOMAIN f \cup DOMAIN g |-> IF x \in DOMAIN g THEN g[x] ELSE f[x]]

(* f[1] + ... + f[n]                                                       *)
SumTo(f, n) ==
  LET sum[k \in 0..n] == IF k = 0 THEN 0 ELSE sum[k - 1] + f[k] IN sum[n]

Even(n) == n + (n % 2)

-----------------------------------------------------------------------------
(* Long names.  An entry of the directory is the name, '/' and a newline.  *)

EntrySizes(dir) == [k \in DOMAIN dir |-> NameSize[dir[k]] + 2]

Location(dir, k) == SumTo(EntrySizes(dir), k - 1)

DirectorySize(dir) == SumTo(EntrySizes(dir), Len(dir))

InHeader(n) == [long |-> FALSE, name |-> n]
InDirectory(loc) == [long |-> TRUE, location |-> loc]

Shorts == [long : {FALSE}, name : Names] \cup [long : {TRUE}, location : Nat]

Covers(dir, k, loc) ==
  Location(dir, k) <= loc /\ loc < Location(dir, k) + EntrySizes(dir)[k]

(* What stands before the next '/', d characters behind the start of the   *)
(* k-th entry: the rest of its name, nothing at its '/', and from its      *)
(* newline on that and the next name                                       *)
TextAt(dir, k, d) ==
  IF d < NameSize[dir[k]] THEN Suffix(dir[k], d)
  ELSE IF d > NameSize[dir[k]] /\ k < Len(dir) THEN Lined(dir[k + 1])
  ELSE None

(* convert_name(): a location need not be where an entry starts.           *)
LongName(dir, loc) ==
  IF \E k \in DOMAIN dir : Covers(dir, k, loc)
    THEN LET k == CHOOSE k \in DOMAIN dir : Covers(dir, k, loc)
         IN TextAt(dir, k, loc - Location(dir, k))
    ELSE None

(* The name that load_members() gets back from a short name.  One that     *)
(* does not fit the field with its '/' would be read garbled.              *)
NameOf(dir, short) ==
  IF short.long THEN LongName(dir, short.location)
  ELSE IF NameSize[short.name] + 1 <= FieldNameSize THEN short.name ELSE None

-----------------------------------------------------------------------------
(* An archive file: what stands in it, and where                           *)

(* `tail` is "clean", "cut" (the last data are incomplete), "junk" (bytes  *)
(* follow, too few for a header), "noise" (enough of them, but they are no *)
(* header) or "alien" (the file is not an archive).                        *)
File(syms, dir, entries, tail) ==
  [symbols |-> syms, directory |-> dir, entries |-> entries, tail |-> tail]

Entry(short, size, data) == [short |-> short, size |-> size, data |-> data]

IsFile(f) ==
  /\ DOMAIN f.symbols \subseteq Symbols
  /\ f.symbols \in [DOMAIN f.symbols -> Nat]
  /\ f.directory \in Seq(Names)
  /\ f.entries \in Seq([short : Shorts, size : Nat,
                        data : Contents \cup {Unknown}])
  /\ \A k \in DOMAIN f.entries :
       LET short == f.entries[k].short
       IN ~short.long => NameSize[short.name] < FieldNameSize
  /\ f.tail \in {"clean", "cut", "junk", "noise", "alien"}

ASSUME DisksAssumption ==
  \A d \in Disks :
    DOMAIN d = Files /\ \A x \in Files : d[x] = None \/ IsFile(d[x])

(* calculate_symbol_table_size()                                           *)
SymbolTableSize(syms) ==
  Even(HeaderSize + 4 + MapThenSumSet(LAMBDA s : 4 + SymbolSize[s] + 1, syms))

(* calculate_long_names_dir_size()                                         *)
LongNamesDirSize(dir) == HeaderSize + Even(DirectorySize(dir))

(* calculate_member_relative_offsets(), of the k-th entry                  *)
RelativeOffset_Unpadded(entries, k) ==
  SumTo([e \in DOMAIN entries |-> HeaderSize + entries[e].size], k - 1)

RelativeOffset(entries, k) ==
  SumTo([e \in DOMAIN entries |-> HeaderSize + Even(entries[e].size)], k - 1)

(* Where the k-th member stands: the tables are there if not empty.        *)
FilePos(f, k) ==
  MagicSize
    + (IF DOMAIN f.symbols = {} THEN 0 ELSE SymbolTableSize(DOMAIN f.symbols))
    + (IF f.directory = <<>> THEN 0 ELSE LongNamesDirSize(f.directory))
    + SumTo([e \in DOMAIN f.entries |-> HeaderSize + Even(f.entries[e].size)],
            k - 1)

-----------------------------------------------------------------------------
(* A member: its data are in memory (new_data), or in the file at filepos, *)
(* where they may be cut short.                                            *)
Member(n, short, size, data, pos, cut, new) ==
  [name |-> n, short |-> short, size |-> size, data |-> data,
   filepos |-> pos, cut |-> cut, new |-> new]

Readable(m) == m.new \/ ~m.cut

Indexes == 0..Len(members) - 1

(* std::find_if() over the names of the members                            *)
IndexOf(n) ==
  IF \E x \in Indexes : members[x + 1].name = n
    THEN CHOOSE x \in Indexes :
           /\ members[x + 1].name = n
           /\ \A y \in Indexes : members[y + 1].name = n => x <= y
    ELSE Len(members)

Init ==
  /\ disk \in Disks
  /\ members = <<>>
  /\ symbol_table = <<>>
  /\ string_table = <<>>
  /\ source = None /\ stream_good = TRUE
  /\ saves = 0
  /\ clean = TRUE

-----------------------------------------------------------------------------
(* load()                                                                  *)

(* The directory in force after the tables of f were read: the one of the  *)
(* previous archive when f has none.                                       *)
Directory(f) == IF f.directory = <<>> THEN string_table ELSE f.directory

(* How many entries of f load_members() turns into members, with directory *)
(* dir, before a name it cannot convert stops it                           *)
Accepted_AnyLocation(f, dir) == Len(f.entries)

Accepted(f, dir) ==
  LET bad == {k \in DOMAIN f.entries : NameOf(dir, f.entries[k].short) = None}
  IN IF bad = {} THEN Len(f.entries)
     ELSE (CHOOSE k \in bad : \A l \in bad : k <= l) - 1

Complete(f, dir) ==
  Accepted(f, dir) = Len(f.entries) /\ f.tail \notin {"junk", "noise"}

(* The end of the file was met in the middle of a header: nothing clears   *)
(* the failure of that read.                                               *)
Stuck(f, dir) == Accepted(f, dir) = Len(f.entries) /\ f.tail = "junk"

Loaded(f, dir) ==
  [k \in 1..Accepted(f, dir) |->
     LET e == f.entries[k] IN
       Member(NameOf(dir, e.short), e.short, e.size, e.data, FilePos(f, k),
              f.tail = "cut" /\ k = Len(f.entries) /\ e.size > 0, FALSE)]

(* "Substitute symbol locations with member indexes"                       *)
Substituted(ms, table) ==
  [s \in DOMAIN table |->
     IF \E k \in DOMAIN ms : ms[k].filepos = table[s]
       THEN (CHOOSE k \in DOMAIN ms : ms[k].filepos = table[s]) - 1 ELSE 0]

(* The file is not an archive: only the members are gone.  It may have     *)
(* been too short for the magic string to be read.                         *)
LoadAlien(x) ==
  /\ disk[x] # None /\ disk[x].tail = "alien"
  /\ members' = <<>>
  /\ source' = x /\ stream_good' \in BOOLEAN
  /\ clean' = FALSE
  /\ UNCHANGED <<disk, symbol_table, string_table, saves>>

(* The loop over the members ends early, or at the end of the file.  In    *)
(* the first case the symbols keep their locations.                        *)
Load(x) ==
  /\ disk[x] # None /\ disk[x].tail # "alien"
  /\ LET f == disk[x]
         dir == Directory(f)
         table == Overlaid(symbol_table, f.symbols)
     IN /\ members' = Loaded(f, dir)
        /\ string_table' = dir
        /\ symbol_table' =
             IF Complete(f, dir) THEN Substituted(Loaded(f, dir), table)
                                 ELSE table
        /\ stream_good' = ~Stuck(f, dir)
        /\ clean' = Complete(f, dir)
  /\ source' = x
  /\ UNCHANGED <<disk, saves>>

-----------------------------------------------------------------------------
(* Editing                                                                 *)

Appended(n, short, c) ==
  /\ members' = Append(members, Member(n, short, Size[c], c, 0, FALSE, TRUE))
  /\ UNCHANGED <<disk, symbol_table, source, stream_good, saves, clean>>

IsShort_OneMore(n) == NameSize[n] <= FieldNameSize

IsShort(n) == NameSize[n] < FieldNameSize

(* add_member(): a name that exists already is refused.                    *)
AddMember(n, c) ==
  /\ Len(members) < MaxMembers
  /\ IndexOf(n) = Len(members)
  /\ IF IsShort(n)
       THEN Appended(n, InHeader(n), c) /\ UNCHANGED string_table
       ELSE /\ Len(string_table) < MaxLongNames
            /\ Appended(n, InDirectory(DirectorySize(string_table)), c)
            /\ string_table' = Append(string_table, n)

AddSymbols_Unchecked(n, S) ==
  /\ symbol_table' = Overlaid(symbol_table, [s \in S |-> IndexOf(n)])
  /\ UNCHANGED <<disk, members, string_table, source, stream_good, saves,
                 clean>>

(* add_symbols_for_member(): the member is looked up by name.              *)
AddSymbols(n, S) ==
  /\ IndexOf(n) < Len(members)
  /\ symbol_table' = Overlaid(symbol_table, [s \in S |-> IndexOf(n)])
  /\ UNCHANGED <<disk, members, string_table, source, stream_good, saves,
                 clean>>

-----------------------------------------------------------------------------
(* Reading and saving                                                      *)

(* What data() yields for the k-th member, if the stream is good: an error *)
(* text takes the place of data that cannot be read, and a save that needs *)
(* more bytes than it has reads behind it.                                 *)
Data(k, good) ==
  IF members[k].new \/ (good /\ ~members[k].cut) THEN members[k].data
  ELSE Unknown

(* A read that fails leaves the stream in a failed state.                  *)
GetData(k) ==
  /\ stream_good /\ ~Readable(members[k])
  /\ stream_good' = FALSE
  /\ UNCHANGED <<disk, members, symbol_table, string_table, source, saves,
                 clean>>

(* save_symbol_table(): the location of the member with index x            *)
SavedLocation(x) ==
  MagicSize + SymbolTableSize(DOMAIN symbol_table)
    + LongNamesDirSize(string_table) + RelativeOffset(members, x + 1)

(* The file save() writes when data[k] is what the k-th data() yields      *)
Written(data) ==
  File([s \in DOMAIN symbol_table |-> SavedLocation(symbol_table[s])],
       string_table,
       [k \in DOMAIN members |->
          Entry(members[k].short, members[k].size, data[k])],
       "clean")

(* An index beyond the members would be an access outside a vector, which  *)
(* is not followed further.                                                *)
CanSave == \A s \in DOMAIN symbol_table : symbol_table[s] \in Indexes

GoodAfter(n) == stream_good /\ \A k \in 1..n : Readable(members[k])

Save(x) ==
  /\ saves < MaxSaves /\ CanSave /\ x # source
  /\ disk' = [disk EXCEPT ![x] =
                Written([k \in DOMAIN members |-> Data(k, GoodAfter(k - 1))])]
  /\ stream_good' = GoodAfter(Len(members))
  /\ saves' = saves + 1
  /\ UNCHANGED <<members, symbol_table, string_table, source, clean>>

(* The file the members are still in is truncated as it is opened.  What   *)
(* is read back from it, now or later, depends on what has been written    *)
(* and on what the two streams hold in their buffers.                      *)
SaveOverSource(x) ==
  /\ saves < MaxSaves /\ CanSave /\ x = source
  /\ disk' = [disk EXCEPT ![x] =
                Written([k \in DOMAIN members |-> Data(k, FALSE)])]
  /\ \E lost \in [DOMAIN members -> BOOLEAN] :
       members' = [k \in DOMAIN members |->
         IF members[k].new THEN members[k]
         ELSE [members[k] EXCEPT !.data = Unknown, !.cut = lost[k]]]
  /\ stream_good' \in {stream_good, FALSE}
  /\ saves' = saves + 1
  /\ UNCHANGED <<symbol_table, string_table, source, clean>>

-----------------------------------------------------------------------------
Next ==
  \/ \E x \in Files : LoadAlien(x) \/ Load(x)
                       \/ Save(x) \/ SaveOverSource(x)
  \/ \E n \in Names, c \in Contents : AddMember(n, c)
  \/ \E n \in Names \cup {members[k].name : k \in DOMAIN members},
        S \in SUBSET Symbols : AddSymbols(n, S)
  \/ \E k \in DOMAIN members : GetData(k)

Spec == Init /\ [][Next]_vars
-----------------------------------------------------------------------------
(* Properties                                                              *)

(* Every variable keeps its type: in particular a member has got a name,   *)
(* whatever the header of its entry said.                                  *)
ArioTypeOK ==
  /\ DOMAIN disk = Files
  /\ \A x \in Files : disk[x] = None \/ IsFile(disk[x])
  /\ members \in Seq([name : Texts, short : Shorts, size : Nat,
                      data : Contents \cup {Unknown}, filepos : Nat,
                      cut : BOOLEAN, new : BOOLEAN])
  /\ DOMAIN symbol_table \subseteq Symbols
  /\ symbol_table \in [DOMAIN symbol_table -> Nat]
  /\ string_table \in Seq(Names)
  /\ source \in Files \cup {None} /\ stream_good \in BOOLEAN
  /\ saves \in 0..MaxSaves /\ clean \in BOOLEAN

(* However loads and additions follow one another, the short name that a   *)
(* save writes for a member leads back to its name, through the directory  *)
(* the same save writes: the location was taken at the right moment, no    *)
(* load has replaced the directory under a member, and a name on the       *)
(* boundary fits its field.                                                *)
NamesResolve ==
  \A k \in DOMAIN members :
    NameOf(string_table, members[k].short) = members[k].name

(* find_symbol() and save() use the indexes unchecked or nearly so: they   *)
(* are those of members, also for the symbols that an earlier archive left *)
(* behind, unless the last load ended early (locations stay in the table)  *)
(* or the file has a symbol table and no member: index 0 is then that of   *)
(* nothing, and is used all the same (ario.hpp:371).                       *)
IndexesInRange ==
  clean => \A s \in DOMAIN symbol_table :
             \/ symbol_table[s] \in Indexes
             \/ members = <<>> /\ symbol_table[s] = 0

(* A saved archive, loaded into a new object, is the archive it was: every *)
(* member is found again under its name, with its data, and if there is a  *)
(* directory of long names each symbol refers to the same member.  (The    *)
(* data if they were added to this object, or if the stream was good and   *)
(* neither a member before nor this one is cut short.)                     *)
SaveRoundTrips ==
  [][\A x \in Files : Save(x) =>
       LET f == disk'[x]
           again == Loaded(f, f.directory)
       IN /\ Complete(f, f.directory)
          /\ \A k \in DOMAIN members :
               /\ again[k].name = members[k].name
               /\ members[k].new \/ GoodAfter(k) =>
                    again[k].data = members[k].data
          /\ string_table # <<>> =>
               Substituted(again, f.symbols) = symbol_table]_vars

(* ario.hpp:710: "Write symbol locations (location of the member in the    *)
(* archive)".  Without long names the members start 60 bytes earlier than  *)
(* the locations say.                                                      *)
LocationsAreMembers ==
  [][\A x \in Files : Save(x) \/ SaveOverSource(x) =>
       \A s \in DOMAIN symbol_table :
         disk'[x].symbols[s] = FilePos(disk'[x], symbol_table[s] + 1)]_vars
=============================================================================
