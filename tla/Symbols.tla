------------------------------ MODULE Symbols ------------------------------
(***************************************************************************)
(* A symbol table with its string table, the relocations that refer to its *)
(* symbols by index and a hash table that finds them by name: the accessors*)
(* of elfio/elfio_symbols.hpp, elfio_strings.hpp and elfio_relocation.hpp. *)
(* Three kinds of reference have to stay right while symbols are added and *)
(* local ones are moved to the front: a name is a position in the string   *)
(* table, a relocation holds an index, and the hash table, which nobody    *)
(* updates, holds indexes too.                                             *)
(***************************************************************************)
EXTENDS Integers, Sequences

CONSTANTS
  Strings, Length,  \* the names of symbols, and their lengths
  Hash,             \* the hash of a name
  MaxWord,          \* the largest Elf_Word
  RelSections,      \* the relocation sections of the symbol table
  Objects,          \* the tables at first: empty, or loaded from a file
  MaxSymbols,       \* bound on the number of symbols
  MaxRelocations,   \* bound on the number of relocations of a section
  None              \* no string, no index

VARIABLES
  strings,          \* the strings of the string section, by position
  str_size,         \* its size
  symbols,          \* the symbol section; see Symbol
  sh_info,          \* of the symbol section
  hash,             \* the hash section
  relocations,      \* of each relocation section: index and, a ghost, the
                    \* identity of the symbol it was made for
  phase,            \* "idle", "arranging" or, until the next addition,
                    \* "arranged"
  first_not_local,
  count             \* get_symbols_num() when the arranging began

stringVars == <<strings, str_size>>
vars == <<stringVars, symbols, sh_info, hash, relocations, phase,
          first_not_local, count>>

ASSUME SymbolsAssumption ==
  /\ Length \in [Strings -> Nat \ {0}] /\ Hash \in [Strings -> Nat]
  /\ None \notin Strings \cup Nat
  /\ {MaxSymbols, MaxRelocations} \subseteq Nat /\ MaxWord \in Nat \ {0}

-----------------------------------------------------------------------------
(* The string table                                                        *)

(* get_string(): position 0 holds the empty string, which no symbol here   *)
(* is looked up by.                                                        *)
GetString(p) == IF p \in DOMAIN strings THEN strings[p] ELSE None

(* add_string() takes the size of the section for an Elf_Word, and writes  *)
(* a leading zero byte when that is 0.                                     *)
LeadingZero == IF str_size % (MaxWord + 1) = 0 THEN 1 ELSE 0

NextIndex == (str_size % (MaxWord + 1)) + LeadingZero

Fits_Unchecked(s) == TRUE

Fits(s) == Length[s] + 1 <= MaxWord - NextIndex

(* The index that add_string(s) returns, and what it makes of the section  *)
StringIndex(s) == IF Fits(s) THEN NextIndex ELSE 0

AddString(s) ==
  LET place == str_size + LeadingZero
  IN IF Fits(s)
       THEN /\ strings' = [p \in DOMAIN strings \cup {place} |->
                             IF p = place THEN s ELSE strings[p]]
            /\ str_size' = place + Length[s] + 1
       ELSE strings' = strings /\ str_size' = place

-----------------------------------------------------------------------------
(* Symbols.  Indexes start from 0; the first symbol means none.  Two       *)
(* fields are ghosts: who the symbol is, and the name it was added with.   *)

Symbol(name, local, id, wanted) ==
  [name |-> name, local |-> local, id |-> id, wanted |-> wanted]

NoSymbol == Symbol(0, TRUE, 0, None)

SymbolRecords ==
  [name : Nat, local : BOOLEAN, id : Nat, wanted : Strings \cup {None}]

(* An undamaged file: the null symbol comes first, strings end inside the  *)
(* string table, and a symbol has no name or one of these strings.         *)
IsObject(o) ==
  /\ DOMAIN o.strings \subseteq Nat \ {0}
  /\ o.strings \in [DOMAIN o.strings -> Strings] /\ o.str_size \in 0..MaxWord
  /\ \A p \in DOMAIN o.strings : p + Length[o.strings[p]] + 1 <= o.str_size
  /\ o.symbols \in Seq(SymbolRecords)
  /\ o.symbols # <<>> => o.symbols[1] = NoSymbol
  /\ \A k \in DOMAIN o.symbols :
       LET s == o.symbols[k]
       IN /\ s.id = k - 1
          /\ IF s.name = 0 THEN s.wanted = None
             ELSE s.name \in DOMAIN o.strings /\ s.wanted = o.strings[s.name]

(* An undamaged hash section: chains refer to other entries and come to an *)
(* end, that of the GNU table with a mark.                                 *)
IsHash(h) ==
  \/ h.kind = "none"
  \/ /\ h.kind = "hash" /\ {h.nbucket, h.nchain} \subseteq Nat /\ h.nbucket > 0
     /\ h.bucket \in [0..h.nbucket - 1 -> Nat]
     /\ h.chain \in [0..h.nchain - 1 -> Nat]
     /\ \E rank \in [0..h.nchain - 1 -> 0..h.nchain] :
          \A y \in 1..h.nchain - 1 :
            h.chain[y] \in 1..h.nchain - 1 => rank[h.chain[y]] < rank[y]
  \/ /\ h.kind = "gnu_hash" /\ {h.nbucket, h.symoffset} \subseteq Nat
     /\ h.nbucket > 0
     /\ h.bucket \in [0..h.nbucket - 1 -> Nat]
     /\ \A b \in 0..h.nbucket - 1 : h.bucket[b] >= h.symoffset =>
          LET first == h.bucket[b] - h.symoffset IN
          \E c \in DOMAIN h.chain :
            c \in Nat /\ first..c \subseteq DOMAIN h.chain
            /\ first <= c /\ h.chain[c].last

ASSUME ObjectsAssumption ==
  \A o \in Objects : IsObject(o) /\ IsHash(o.hash)

Indexes == 0..Len(symbols) - 1
At(y) == symbols[y + 1]
NameAt(y) == IF y \in Indexes THEN GetString(At(y).name) ELSE None

(* The least member of S, None if there is none                            *)
LeastOf(S) ==
  IF S = {} THEN None ELSE CHOOSE y \in S : \A z \in S : y <= z

(* get_symbol() by name, without a hash table                              *)
LinearLookup(n) == LeastOf({y \in Indexes : NameAt(y) = n})

(* hash_lookup(): along the chain of the name's bucket                     *)
HashLookup(n) ==
  LET walk[y \in Nat] ==
        IF NameAt(y) = n THEN y
        ELSE IF y = 0 \/ y >= hash.nchain THEN None
        ELSE walk[hash.chain[y]]
  IN walk[hash.bucket[Hash[n] % hash.nbucket]]

(* gnu_hash_lookup(): the symbols of a bucket follow one another, the last *)
(* one is marked, and all but one bit of the hash are compared first.      *)
GnuHashLookup(n) ==
  LET scan[c \in Nat] ==
        IF hash.chain[c].hash = Hash[n] \div 2
           /\ NameAt(c + hash.symoffset) = n THEN c + hash.symoffset
        ELSE IF hash.chain[c].last THEN None
        ELSE scan[c + 1]
      first == hash.bucket[Hash[n] % hash.nbucket]
  IN IF n \in hash.bloom /\ first >= hash.symoffset
       THEN scan[first - hash.symoffset] ELSE None

ByHash(n) ==
  CASE hash.kind = "none" -> None
    [] hash.kind = "hash" -> HashLookup(n)
    [] hash.kind = "gnu_hash" -> GnuHashLookup(n)

Lookup_HashOnly(n) == IF hash.kind = "none" THEN LinearLookup(n) ELSE ByHash(n)

(* get_symbol() by name: what the hash table does not find may be there.   *)
Lookup(n) == IF ByHash(n) # None THEN ByHash(n) ELSE LinearLookup(n)

-----------------------------------------------------------------------------
Init ==
  \E o \in Objects :
    /\ strings = o.strings /\ str_size = o.str_size
    /\ symbols = o.symbols /\ hash = o.hash
    /\ sh_info = 0
    /\ relocations = [r \in RelSections |-> <<>>]
    /\ phase = "idle" /\ first_not_local = 1 /\ count = 0

WithNoSymbol_Omitted == symbols

(* The table begins with the null symbol.                                  *)
WithNoSymbol == IF symbols = <<>> THEN <<NoSymbol>> ELSE symbols

(* add_string() and generic_add_symbol(), after the null symbol if need be *)
Added(s, local) ==
  Append(WithNoSymbol,
         Symbol(StringIndex(s), local, Len(WithNoSymbol),
                IF Fits(s) THEN s ELSE None))

(* add_symbol()                                                            *)
AddSymbol(s, local) ==
  /\ phase # "arranging" /\ Len(symbols) < MaxSymbols
  /\ AddString(s)
  /\ symbols' = Added(s, local)
  /\ phase' = "idle"
  /\ UNCHANGED <<sh_info, hash, relocations, first_not_local, count>>

(* A relocation entry; only its symbol, not type, offset and addend, counts *)
Entry(y, id) == [symbol |-> y, id |-> id]

Refer(r, y, id) == [relocations EXCEPT ![r] = Append(@, Entry(y, id))]

(* add_entry() for a symbol that is there                                  *)
AddRelocation(r, y) ==
  /\ phase # "arranging" /\ Len(relocations[r]) < MaxRelocations
  /\ relocations' = Refer(r, y, At(y).id)
  /\ UNCHANGED <<stringVars, symbols, sh_info, hash, phase, first_not_local,
                 count>>

(* add_entry() that adds the symbol too, and its name; it takes the index  *)
(* from add_symbol(), which counts the entries.                            *)
AddEntry(r, s, local) ==
  /\ phase # "arranging"
  /\ Len(symbols) < MaxSymbols /\ Len(relocations[r]) < MaxRelocations
  /\ AddString(s)
  /\ symbols' = Added(s, local)
  /\ relocations' = Refer(r, Len(symbols') - 1, Len(WithNoSymbol))
  /\ phase' = "idle"
  /\ UNCHANGED <<sh_info, hash, first_not_local, count>>

-----------------------------------------------------------------------------
(* arrange_local_symbols(), whose callback passes on each exchange to      *)
(* swap_symbols() of every relocation section.                             *)

SetEntry(entry, y) == [entry EXCEPT !.symbol = y]

SwapSymbols_Reread(entries, first, second) ==
  [k \in DOMAIN entries |->
     LET y == IF entries[k].symbol = first THEN second ELSE entries[k].symbol
     IN SetEntry(entries[k], IF y = second THEN first ELSE y)]

(* swap_symbols(): the index that was read decides both exchanges.         *)
SwapSymbols(entries, first, second) ==
  [k \in DOMAIN entries |->
     LET y == entries[k].symbol
     IN SetEntry(entries[k], IF y = second THEN first
                             ELSE IF y = first THEN second ELSE y)]

(* std::swap() of the two symbols                                          *)
Exchanged_OneWay(x, y) == [symbols EXCEPT ![x + 1] = At(y)]

Exchanged_Pointers(x, y) == symbols

Exchanged(x, y) == [symbols EXCEPT ![x + 1] = At(y), ![y + 1] = At(x)]

BeginArranging ==
  /\ phase # "arranging"
  /\ phase' = "arranging"
  /\ first_not_local' = 1
  /\ count' = Len(symbols)
  /\ UNCHANGED <<stringVars, symbols, sh_info, hash, relocations>>

(* Where the inner loops stop: at the first symbol from `from` on whose    *)
(* binding is the one looked for, at `count`, or at once behind it         *)
Search(from, local) ==
  LET found == {y \in from..count - 1 : At(y).local = local}
  IN IF from > count THEN from ELSE LeastOf(found \cup {count})

FirstNotLocal == Search(first_not_local, FALSE)
Current == Search(FirstNotLocal + 1, TRUE)

(* A pass of the outer loop that exchanges two symbols                     *)
Exchange ==
  /\ phase = "arranging"
  /\ FirstNotLocal < count /\ Current < count
  /\ first_not_local' = FirstNotLocal
  /\ relocations' = [r \in RelSections |->
                       SwapSymbols(relocations[r], FirstNotLocal, Current)]
  /\ symbols' = Exchanged(FirstNotLocal, Current)
  /\ UNCHANGED <<stringVars, sh_info, hash, phase, count>>

EndArranging_Stale ==
  /\ phase = "arranging"
  /\ ~(FirstNotLocal < count /\ Current < count)
  /\ sh_info' = first_not_local
  /\ phase' = "arranged"
  /\ UNCHANGED <<stringVars, symbols, hash, relocations, first_not_local, count>>

(* The last pass, which finds nothing to exchange                          *)
EndArranging ==
  /\ phase = "arranging"
  /\ ~(FirstNotLocal < count /\ Current < count)
  /\ first_not_local' = FirstNotLocal
  /\ sh_info' = FirstNotLocal
  /\ phase' = "arranged"
  /\ UNCHANGED <<stringVars, symbols, hash, relocations, count>>

-----------------------------------------------------------------------------
Arranging == Exchange \/ EndArranging

Next ==
  \/ \E s \in Strings, local \in BOOLEAN : AddSymbol(s, local)
  \/ \E r \in RelSections, s \in Strings, local \in BOOLEAN :
        AddEntry(r, s, local)
  \/ \E r \in RelSections, y \in Indexes : AddRelocation(r, y)
  \/ BeginArranging
  \/ Exchange
  \/ EndArranging

(* Once called, arrange_local_symbols() runs.                              *)
Spec == Init /\ [][Next]_vars /\ WF_vars(Arranging)

-----------------------------------------------------------------------------
(* Properties                                                              *)

(* The tables hold what they should: positions are Elf_Words, the null     *)
(* symbol stays where it is, and the arranging works on the whole table.   *)
SymbolsTypeOK ==
  /\ strings \in [DOMAIN strings -> Strings] /\ DOMAIN strings \subseteq Nat
  /\ str_size \in 0..MaxWord
  /\ symbols \in Seq(SymbolRecords)
  /\ symbols # <<>> => symbols[1] = NoSymbol
  /\ relocations \in [RelSections -> Seq([symbol : Nat, id : Nat])]
  /\ phase \in {"idle", "arranging", "arranged"}
  /\ {count, first_not_local, sh_info} \subseteq Nat
  /\ phase = "arranging" => count = Len(symbols) /\ first_not_local > 0

(* Every relocation refers to the symbol it was made for, in the middle of *)
(* the arranging too, in however many sections and together with whichever *)
(* others it is referred to: what the tests rearrange_local_symbols sample *)
(* with two fixed tables.                                                  *)
RelocationsFollow ==
  \A r \in RelSections : \A k \in DOMAIN relocations[r] :
    LET entry == relocations[r][k]
    IN entry.symbol \in Indexes /\ At(entry.symbol).id = entry.id

(* The exchanges lose no symbol and double none: every one that was added  *)
(* is there exactly once.                                                  *)
SymbolsKept ==
  \A id \in Indexes : \E y \in Indexes :
    /\ At(y).id = id
    /\ \A z \in Indexes : At(z).id = id => z = y

(* After the arranging, sh_info is the number of local symbols, and they   *)
(* are the first ones (a table without any symbol gets sh_info 1).         *)
LocalsFirst ==
  phase = "arranged" /\ symbols # <<>> =>
    /\ sh_info \in 1..Len(symbols)
    /\ \A y \in Indexes : At(y).local <=> y < sh_info

(* A symbol keeps the name it was added with, through later additions to a *)
(* string table that is nearly full, and through the exchanges; a symbol   *)
(* whose name did not fit has none, never another's.                       *)
NamesRight == \A y \in Indexes : NameAt(y) = At(y).wanted

(* Looking up a name finds a symbol of that name whenever there is one,    *)
(* also when the hash table is out of date after additions and exchanges,  *)
(* and finds nothing else.                                                 *)
LookupExact ==
  \A n \in Strings :
    IF \E y \in Indexes : NameAt(y) = n THEN NameAt(Lookup(n)) = n
                                        ELSE Lookup(n) = None

(* The arranging comes to its end, every exchange being progress.          *)
ArrangingEnds == phase = "arranging" ~> phase = "arranged"
=============================================================================
