--------------------------- MODULE SymbolsProofs ---------------------------
(***************************************************************************)
(* Proofs about symbols, their names and the relocations that refer to     *)
(* them, for tables of any size and any number of relocation sections.     *)
(***************************************************************************)
EXTENDS Symbols, NumberFacts, SequenceTheorems, TLAPS

-----------------------------------------------------------------------------
(* The inductive invariant                                                 *)

(* The identities are those of the indexes, each of them once.             *)
IdsOnce ==
  /\ \A y \in Indexes : At(y).id \in Indexes
  /\ \A y, z \in Indexes : At(y).id = At(z).id => y = z
  /\ \A id \in Indexes : \E y \in Indexes : At(y).id = id

(* Strings end inside the table, so that the next one does not touch them. *)
StringsInside ==
  /\ DOMAIN strings \subseteq Nat \ {0}
  /\ \A p \in DOMAIN strings : p + Length[strings[p]] + 1 <= str_size

(* A symbol's name is a string of the table, unless it has none.           *)
NamesInside ==
  \A y \in Indexes : At(y).name = 0 \/ At(y).name \in DOMAIN strings

(* What the arranging has passed is local, and stays before what is left.  *)
PassedAreLocal ==
  phase = "arranging" =>
    /\ symbols # <<>> => first_not_local <= count
    /\ \A y \in Indexes : y < first_not_local => At(y).local

SymbolsInv ==
  /\ SymbolsTypeOK /\ RelocationsFollow /\ IdsOnce /\ StringsInside
  /\ NamesInside /\ NamesRight /\ PassedAreLocal /\ LocalsFirst

-----------------------------------------------------------------------------
(* Types                                                                   *)

LEMMA TableTyped ==
  ASSUME symbols \in Seq(SymbolRecords)
  PROVE  /\ Len(symbols) \in Nat /\ DOMAIN symbols = 1..Len(symbols)
         /\ Indexes \subseteq Nat
         /\ \A y \in Indexes : /\ y + 1 \in 1..Len(symbols)
                               /\ At(y) \in SymbolRecords
         /\ symbols = <<>> <=> Len(symbols) = 0
<1>1. Len(symbols) \in Nat /\ DOMAIN symbols = 1..Len(symbols)
  BY LenProperties
<1>2. ASSUME NEW y \in Indexes
      PROVE  y + 1 \in 1..Len(symbols) /\ At(y) \in SymbolRecords
  <2>1. y + 1 \in 1..Len(symbols)
    BY <1>1 DEF Indexes
  <2> QED
    BY <2>1, ElementOfSeq DEF At
<1>3. symbols = <<>> <=> Len(symbols) = 0
  BY EmptySeq
<1> QED
  BY <1>1, <1>2, <1>3 DEF Indexes

(* The least member of a set of indexes                                    *)
LEMMA LeastOfIsLeast ==
  ASSUME NEW S \in SUBSET Nat, S # {}
  PROVE  LeastOf(S) \in S /\ \A z \in S : LeastOf(S) <= z
<1>1. \E y \in S : \A z \in S : y <= z
  BY LeastElement
<1>2. LeastOf(S) = CHOOSE y \in S : \A z \in S : y <= z
  BY DEF LeastOf
<1> QED
  BY <1>1, <1>2

(* An inner loop stops at the symbol it looks for, or at the end; those it *)
(* passes are of the other binding.                                        *)
LEMMA SearchStops ==
  ASSUME NEW from \in Nat, NEW local \in BOOLEAN, count \in Nat, from <= count
  PROVE  LET stop == Search(from, local)
         IN /\ stop \in from..count
            /\ stop < count => At(stop).local = local
            /\ \A y \in from..stop - 1 : At(y).local # local
<1> DEFINE found == {y \in from..count - 1 : At(y).local = local}
           stop == Search(from, local)
<1>1. found \cup {count} \in SUBSET Nat /\ found \cup {count} # {}
  OBVIOUS
<1>2. stop = LeastOf(found \cup {count})
  BY DEF Search
<1>3. stop \in found \cup {count} /\ \A z \in found \cup {count} : stop <= z
  BY <1>1, <1>2, LeastOfIsLeast
<1> HIDE DEF stop
<1>4. ASSUME NEW y \in from..stop - 1, At(y).local = local
      PROVE  FALSE
  <2>1. stop <= count /\ stop \in Nat
    BY <1>1, <1>3
  <2>2. y \in found
    BY <1>4, <2>1
  <2>3. stop <= y
    BY <1>3, <2>2
  <2> QED
    BY <1>4, <2>1, <2>3
<1>5. stop \in from..count
  BY <1>3
<1>6. stop < count => At(stop).local = local
  BY <1>3
<1> QED
  BY <1>4, <1>5, <1>6 DEF stop

-----------------------------------------------------------------------------
(* Strings                                                                 *)

LEMMA SmallRemainder ==
  ASSUME NEW a \in Nat, NEW b \in Nat, a < b
  PROVE  a % b = a
OBVIOUS

(* add_string() puts the string behind all others, and its index leads to  *)
(* it; without room for it only the leading zero may be new.               *)
LEMMA StringAdded ==
  ASSUME SymbolsTypeOK, StringsInside, NEW s \in Strings, AddString(s)
  PROVE  /\ strings' \in [DOMAIN strings' -> Strings] /\ StringsInside'
         /\ str_size' \in 0..MaxWord
         /\ \A p \in DOMAIN strings :
              p \in DOMAIN strings' /\ strings'[p] = strings[p]
         /\ 0 \notin DOMAIN strings' /\ StringIndex(s) \in Nat
         /\ Fits(s) => /\ StringIndex(s) \in DOMAIN strings'
                       /\ strings'[StringIndex(s)] = s
         /\ ~Fits(s) => StringIndex(s) = 0
<1> DEFINE place == str_size + LeadingZero
<1>1. /\ MaxWord \in Nat /\ MaxWord > 0 /\ str_size \in Nat
      /\ str_size <= MaxWord /\ Length[s] \in Nat /\ Length[s] > 0
      /\ \A t \in Strings : Length[t] \in Nat
      /\ strings \in [DOMAIN strings -> Strings]
      /\ DOMAIN strings \subseteq Nat \ {0}
      /\ \A p \in DOMAIN strings : p + Length[strings[p]] + 1 <= str_size
  BY SymbolsAssumption DEF SymbolsTypeOK, StringsInside
<1>2. str_size % (MaxWord + 1) = str_size
  BY <1>1, SmallRemainder
<1>3. /\ LeadingZero = IF str_size = 0 THEN 1 ELSE 0
      /\ NextIndex = place
  BY <1>2 DEF LeadingZero, NextIndex
<1>4. place \in Nat /\ place > 0 /\ place <= MaxWord /\ str_size <= place
  BY <1>1, <1>3
<1>5. \A p \in DOMAIN strings : p < str_size /\ p \in Nat /\ p # 0
  BY <1>1
<1> HIDE DEF place
<1>6. CASE Fits(s)
  <2>1. /\ strings' = [p \in DOMAIN strings \cup {place} |->
                         IF p = place THEN s ELSE strings[p]]
        /\ str_size' = place + Length[s] + 1
    BY <1>6 DEF AddString, place
  <2>2. place + Length[s] + 1 <= MaxWord
    BY <1>1, <1>3, <1>4, <1>6 DEF Fits
  <2>3. DOMAIN strings' = DOMAIN strings \cup {place}
    BY <2>1
  <2>4. place \notin DOMAIN strings
    BY <1>1, <1>4, <1>5
  <2>5. /\ strings'[place] = s
        /\ \A p \in DOMAIN strings : strings'[p] = strings[p]
    BY <2>1, <2>4
  <2>6. strings' \in [DOMAIN strings' -> Strings]
    BY <1>1, <2>1
  <2>7. StringsInside'
    <3>1. DOMAIN strings' \subseteq Nat \ {0}
      BY <1>1, <1>4, <2>3
    <3>2. ASSUME NEW p \in DOMAIN strings'
          PROVE  p + Length[strings'[p]] + 1 <= str_size'
      <4>1. CASE p = place
        BY <1>1, <1>4, <2>1, <2>5, <4>1
      <4>2. CASE p \in DOMAIN strings
        <5>1. /\ strings'[p] = strings[p] /\ p + Length[strings[p]] + 1 <= str_size
              /\ p \in Nat /\ Length[strings[p]] \in Nat
          BY <1>1, <2>5, <4>2
        <5> QED
          BY <1>1, <1>4, <2>1, <5>1
      <4> QED
        BY <2>3, <4>1, <4>2
    <3> QED
      BY <3>1, <3>2 DEF StringsInside
  <2>8. str_size' \in 0..MaxWord
    BY <1>1, <1>4, <2>1, <2>2
  <2>9. StringIndex(s) = place
    BY <1>3, <1>6 DEF StringIndex
  <2>10. 0 \notin DOMAIN strings'
    BY <1>1, <1>4, <2>3
  <2> QED
    BY <1>4, <1>6, <2>3, <2>5, <2>6, <2>7, <2>8, <2>9, <2>10
<1>7. CASE ~Fits(s)
  <2>1. strings' = strings /\ str_size' = place
    BY <1>7 DEF AddString, place
  <2>2. StringsInside'
    <3>1. ASSUME NEW p \in DOMAIN strings
          PROVE  p + Length[strings[p]] + 1 <= place
      <4>1. /\ p + Length[strings[p]] + 1 <= str_size
            /\ p \in Nat /\ Length[strings[p]] \in Nat
        BY <1>1
      <4> QED
        BY <1>1, <1>4, <4>1
    <3> QED
      BY <1>1, <2>1, <3>1 DEF StringsInside
  <2> QED
    BY <1>1, <1>4, <1>7, <2>1, <2>2 DEF StringIndex
<1> QED
  BY <1>6, <1>7

-----------------------------------------------------------------------------
(* A table w that begins with the null symbol, has each identity once and  *)
(* the names that were asked for: what add_symbol() starts from            *)

Sound(w) ==
  /\ w \in Seq(SymbolRecords) /\ Len(w) \in Nat \ {0} /\ w[1] = NoSymbol
  /\ \A k \in 1..Len(w) :
       /\ w[k].id \in 0..Len(w) - 1
       /\ w[k].name = 0 \/ w[k].name \in DOMAIN strings
       /\ GetString(w[k].name) = w[k].wanted
  /\ \A k, l \in 1..Len(w) : w[k].id = w[l].id => k = l
  /\ \A id \in 0..Len(w) - 1 : \E k \in 1..Len(w) : w[k].id = id

LEMMA NoSymbolTyped ==
  /\ NoSymbol \in SymbolRecords
  /\ NoSymbol.name = 0 /\ NoSymbol.local = TRUE /\ NoSymbol.id = 0
  /\ NoSymbol.wanted = None
BY DEF NoSymbol, Symbol, SymbolRecords

LEMMA WithNoSymbolSound ==
  ASSUME SymbolsInv
  PROVE  /\ Sound(WithNoSymbol) /\ Len(symbols) <= Len(WithNoSymbol)
         /\ \A y \in Indexes : WithNoSymbol[y + 1] = At(y)
<1>1. symbols \in Seq(SymbolRecords)
  BY DEF SymbolsInv, SymbolsTypeOK
<1>2. /\ Len(symbols) \in Nat /\ Indexes \subseteq Nat
      /\ symbols = <<>> <=> Len(symbols) = 0
  BY <1>1, TableTyped
<1>3. CASE symbols = <<>>
  <2> DEFINE w == <<NoSymbol>>
  <2>1. WithNoSymbol = w
    BY <1>3 DEF WithNoSymbol
  <2>2. w \in Seq(SymbolRecords) /\ Len(w) = 1 /\ w[1] = NoSymbol
    BY NoSymbolTyped
  <2> HIDE DEF w
  <2>3. GetString(0) = None
    BY DEF GetString, SymbolsInv, StringsInside
  <2>4. Sound(w)
    <3>1. \A k \in 1..Len(w) : k = 1 /\ w[k] = NoSymbol
      BY <2>2
    <3>2. \A k \in 1..Len(w) : w[k].id = 0 /\ w[k].name = 0 /\ w[k].wanted = None
      BY <3>1, NoSymbolTyped
    <3>3. \A id \in 0..Len(w) - 1 : w[1].id = id /\ 1 \in 1..Len(w)
      BY <2>2, <3>2
    <3>4. \A k \in 1..Len(w) : w[k].id \in 0..Len(w) - 1
      BY <2>2, <3>2
    <3> QED
      BY <2>2, <2>3, <3>1, <3>2, <3>3, <3>4 DEF Sound
  <2>5. Indexes = {}
    BY <1>2, <1>3 DEF Indexes
  <2> QED
    BY <1>2, <1>3, <2>1, <2>2, <2>4, <2>5
<1>4. CASE symbols # <<>>
  <2>1. WithNoSymbol = symbols
    BY <1>4 DEF WithNoSymbol
  <2>2. ASSUME NEW k \in 1..Len(symbols)
        PROVE  k - 1 \in Indexes /\ At(k - 1) = symbols[k]
    BY <1>2 DEF Indexes, At
  <2>3. ASSUME NEW y \in Indexes
        PROVE  y + 1 \in 1..Len(symbols) /\ At(y) = symbols[y + 1]
    BY <1>2 DEF Indexes, At
  <2>4. Sound(symbols)
    <3>1. Len(symbols) \in Nat \ {0} /\ symbols[1] = NoSymbol
      BY <1>2, <1>4 DEF SymbolsInv, SymbolsTypeOK
    <3>2. ASSUME NEW k \in 1..Len(symbols)
          PROVE  /\ symbols[k].id \in 0..Len(symbols) - 1
                 /\ symbols[k].name = 0 \/ symbols[k].name \in DOMAIN strings
                 /\ GetString(symbols[k].name) = symbols[k].wanted
      <4>1. k - 1 \in Indexes /\ At(k - 1) = symbols[k]
        BY <2>2
      <4>2. At(k - 1).id \in Indexes
        BY <4>1 DEF SymbolsInv, IdsOnce
      <4>3. At(k - 1).name = 0 \/ At(k - 1).name \in DOMAIN strings
        BY <4>1 DEF SymbolsInv, NamesInside
      <4>4. NameAt(k - 1) = At(k - 1).wanted
        BY <4>1 DEF SymbolsInv, NamesRight
      <4> QED
        BY <4>1, <4>2, <4>3, <4>4 DEF NameAt, Indexes
    <3>3. ASSUME NEW k \in 1..Len(symbols), NEW l \in 1..Len(symbols),
                 symbols[k].id = symbols[l].id
          PROVE  k = l
      <4>1. k - 1 = l - 1
        BY <2>2, <3>3 DEF SymbolsInv, IdsOnce
      <4> QED
        BY <1>2, <4>1
    <3>4. ASSUME NEW id \in 0..Len(symbols) - 1
          PROVE  \E k \in 1..Len(symbols) : symbols[k].id = id
      <4>1. PICK y \in Indexes : At(y).id = id
        BY DEF SymbolsInv, IdsOnce, Indexes
      <4> QED
        BY <2>3, <4>1
    <3> QED
      BY <1>1, <3>1, <3>2, <3>3, <3>4 DEF Sound
  <2> QED
    BY <1>2, <2>1, <2>3, <2>4
<1> QED
  BY <1>3, <1>4

(* What add_symbol() does to the table: all symbols stay where they are,   *)
(* and the new one comes last, under an identity of its own.               *)
Extended ==
  /\ symbols' \in Seq(SymbolRecords) /\ symbols' # <<>>
  /\ symbols'[1] = NoSymbol
  /\ \A y \in Indexes : y \in Indexes' /\ At(y)' = At(y)
  /\ Len(WithNoSymbol) \in Nat
  /\ Len(symbols') = Len(WithNoSymbol) + 1
  /\ Len(symbols') - 1 \in Indexes'
  /\ symbols'[Len(symbols')].id = Len(WithNoSymbol)

LEMMA SymbolAdded ==
  ASSUME SymbolsInv, NEW s \in Strings, NEW local \in BOOLEAN, AddString(s),
         symbols' = Added(s, local)
  PROVE  Extended /\ IdsOnce' /\ NamesInside' /\ NamesRight'
<1> DEFINE w == WithNoSymbol
           n == Len(w)
           e == Symbol(StringIndex(s), local, n, IF Fits(s) THEN s ELSE None)
<1>1. /\ Sound(w) /\ Len(symbols) <= n /\ \A y \in Indexes : w[y + 1] = At(y)
      /\ symbols' = Append(w, e)
  BY WithNoSymbolSound DEF Added
<1>2. Len(symbols) \in Nat /\ Indexes \subseteq Nat /\ \A y \in Indexes : y < Len(symbols)
  BY TableTyped DEF SymbolsInv, SymbolsTypeOK, Indexes
<1>3. /\ strings' \in [DOMAIN strings' -> Strings] /\ StringsInside'
      /\ str_size' \in 0..MaxWord
      /\ \A p \in DOMAIN strings :
           p \in DOMAIN strings' /\ strings'[p] = strings[p]
      /\ 0 \notin DOMAIN strings' /\ StringIndex(s) \in Nat
      /\ Fits(s) => /\ StringIndex(s) \in DOMAIN strings'
                    /\ strings'[StringIndex(s)] = s
      /\ ~Fits(s) => StringIndex(s) = 0
  BY StringAdded DEF SymbolsInv
<1> HIDE DEF w
<1>4. /\ w \in Seq(SymbolRecords) /\ n \in Nat /\ n > 0 /\ w[1] = NoSymbol
  BY <1>1 DEF Sound
<1>5. /\ e \in SymbolRecords /\ e.id = n /\ e.name = StringIndex(s)
      /\ e.wanted = IF Fits(s) THEN s ELSE None
  BY <1>3, <1>4 DEF Symbol, SymbolRecords
<1> HIDE DEF e
<1>6. /\ symbols' \in Seq(SymbolRecords) /\ Len(symbols') = n + 1
      /\ \A k \in 1..n : symbols'[k] = w[k]
      /\ symbols'[n + 1] = e
  BY <1>1, <1>4, <1>5, AppendProperties
<1> HIDE DEF n
<1>7. Indexes' = 0..n
  BY <1>4, <1>6 DEF Indexes
<1>8. ASSUME NEW y \in Indexes'
      PROVE  /\ y \in 0..n /\ At(y)' = symbols'[y + 1]
             /\ y < n => y + 1 \in 1..n /\ At(y)' = w[y + 1]
             /\ ~(y < n) => y = n /\ At(y)' = e
  <2>1. y \in 0..n /\ At(y)' = symbols'[y + 1]
    BY <1>7 DEF At
  <2>2. y < n => y + 1 \in 1..n
    BY <1>4, <2>1
  <2>3. ~(y < n) => y = n
    BY <1>4, <2>1
  <2> QED
    BY <1>6, <2>1, <2>2, <2>3
<1>9. ASSUME NEW y \in Indexes
      PROVE  y \in Indexes' /\ At(y)' = At(y)
  <2>1. y \in Indexes' /\ y < n
    BY <1>1, <1>2, <1>4, <1>7
  <2> QED
    BY <1>1, <1>8, <2>1
<1>10. Extended
  <2>1. symbols' # <<>>
    BY <1>4, <1>6, EmptySeq
  <2>2. symbols'[1] = NoSymbol /\ Len(symbols') - 1 \in Indexes'
        /\ symbols'[Len(symbols')].id = n
    BY <1>4, <1>5, <1>6, <1>7
  <2> QED
    BY <1>4, <1>6, <1>9, <2>1, <2>2 DEF Extended, n, w
<1>11. IdsOnce'
  <2>1. ASSUME NEW y \in Indexes'
        PROVE  At(y)'.id \in Indexes'
    <3>1. y < n => w[y + 1].id \in 0..n - 1
      BY <1>1, <1>8 DEF Sound, n
    <3> QED
      BY <1>4, <1>5, <1>7, <1>8, <3>1
  <2>2. ASSUME NEW y \in Indexes', NEW z \in Indexes', At(y)'.id = At(z)'.id
        PROVE  y = z
    <3>1. CASE y < n /\ z < n
      <4>1. /\ y + 1 \in 1..n /\ At(y)' = w[y + 1]
            /\ z + 1 \in 1..n /\ At(z)' = w[z + 1]
        BY <1>8, <3>1
      <4>2. w[y + 1].id = w[z + 1].id
        BY <2>2, <4>1
      <4>3. \A k, l \in 1..n : w[k].id = w[l].id => k = l
        BY <1>1 DEF Sound, n
      <4>4. y + 1 = z + 1
        BY <4>1, <4>2, <4>3
      <4> QED
        BY <1>4, <1>8, <4>4
    <3>2. CASE y < n /\ ~(z < n)
      <4>1. w[y + 1].id \in 0..n - 1 /\ w[y + 1].id = n
        BY <1>1, <1>5, <1>8, <2>2, <3>2 DEF Sound, n
      <4> QED
        BY <1>4, <4>1
    <3>3. CASE ~(y < n) /\ z < n
      <4>1. w[z + 1].id \in 0..n - 1 /\ w[z + 1].id = n
        BY <1>1, <1>5, <1>8, <2>2, <3>3 DEF Sound, n
      <4> QED
        BY <1>4, <4>1
    <3>4. CASE ~(y < n) /\ ~(z < n)
      BY <1>8, <3>4
    <3> QED
      BY <3>1, <3>2, <3>3, <3>4
  <2>3. ASSUME NEW id \in Indexes'
        PROVE  \E y \in Indexes' : At(y)'.id = id
    <3>1. CASE id = n
      <4>1. n \in Indexes' /\ ~(n < n)
        BY <1>4, <1>7
      <4> QED
        BY <1>5, <1>8, <3>1, <4>1
    <3>2. CASE id # n
      <4>1. id \in 0..n - 1
        BY <1>4, <1>7, <3>2
      <4>2. PICK k \in 1..n : w[k].id = id
        BY <1>1, <4>1 DEF Sound, n
      <4>3. k - 1 \in Indexes' /\ k - 1 < n /\ k - 1 + 1 = k
        BY <1>4, <1>7
      <4>4. At(k - 1)' = w[k]
        BY <1>8, <4>3
      <4> QED
        BY <4>2, <4>3, <4>4
    <3> QED
      BY <3>1, <3>2
  <2> QED
    BY <2>1, <2>2, <2>3 DEF IdsOnce
<1>12. ASSUME NEW y \in Indexes'
       PROVE  /\ At(y)'.name = 0 \/ At(y)'.name \in DOMAIN strings'
              /\ NameAt(y)' = At(y)'.wanted
  <2>1. \A r : r = At(y)' =>
          NameAt(y)' = IF r.name \in DOMAIN strings' THEN strings'[r.name] ELSE None
    BY DEF NameAt, GetString
  <2>2. CASE y < n
    <3>1. PICK r : r = w[y + 1]
      OBVIOUS
    <3>2. /\ r.name = 0 \/ r.name \in DOMAIN strings
          /\ GetString(r.name) = r.wanted
      BY <1>1, <1>8, <2>2, <3>1 DEF Sound, n
    <3>3. /\ r.name = 0 \/ r.name \in DOMAIN strings'
          /\ (IF r.name \in DOMAIN strings' THEN strings'[r.name] ELSE None) = r.wanted
      <4>1. CASE r.name \in DOMAIN strings
        BY <1>3, <3>2, <4>1 DEF GetString
      <4>2. CASE r.name = 0
        BY <1>3, <3>2, <4>2 DEF GetString, SymbolsInv, StringsInside
      <4> QED
        BY <3>2, <4>1, <4>2
    <3>4. At(y)' = r
      BY <1>8, <2>2, <3>1
    <3> QED
      BY <2>1, <3>3, <3>4
  <2>3. CASE ~(y < n)
    <3>1. At(y)' = e
      BY <1>8, <2>3
    <3>2. e.name = 0 \/ e.name \in DOMAIN strings'
      BY <1>3, <1>5
    <3>3. (IF e.name \in DOMAIN strings' THEN strings'[e.name] ELSE None) = e.wanted
      BY <1>3, <1>5
    <3> QED
      BY <2>1, <3>1, <3>2, <3>3
  <2> QED
    BY <2>2, <2>3
<1>13. NamesInside'
  BY <1>12 DEF NamesInside
<1>14. NamesRight'
  BY <1>12 DEF NamesRight, NameAt
<1> QED
  BY <1>10, <1>11, <1>13, <1>14

-----------------------------------------------------------------------------
(* add_symbol() and the additions to relocation sections                   *)

LEMMA AdditionKeeps ==
  ASSUME SymbolsInv, NEW s \in Strings, NEW local \in BOOLEAN, AddString(s),
         symbols' = Added(s, local), phase' = "idle",
         UNCHANGED <<sh_info, first_not_local, count>>,
         relocations' \in [RelSections -> Seq([symbol : Nat, id : Nat])],
         RelocationsFollow'
  PROVE  SymbolsInv'
<1>1. Extended /\ IdsOnce' /\ NamesInside' /\ NamesRight'
  BY SymbolAdded
<1>2. /\ strings' \in [DOMAIN strings' -> Strings] /\ StringsInside'
      /\ str_size' \in 0..MaxWord
  BY StringAdded DEF SymbolsInv
<1>3. phase' # "arranging" /\ phase' # "arranged"
  OBVIOUS
<1>4. SymbolsTypeOK'
  <2>1. DOMAIN strings' \subseteq Nat
    BY <1>2 DEF StringsInside
  <2>2. {count', first_not_local', sh_info'} \subseteq Nat
    BY DEF SymbolsInv, SymbolsTypeOK
  <2> QED
    BY <1>1, <1>2, <1>3, <2>1, <2>2 DEF SymbolsTypeOK, Extended
<1>5. PassedAreLocal' /\ LocalsFirst'
  BY <1>3 DEF PassedAreLocal, LocalsFirst
<1> QED
  BY <1>1, <1>2, <1>4, <1>5 DEF SymbolsInv

LEMMA AddSymbolKeeps ==
  ASSUME SymbolsInv, NEW s \in Strings, NEW local \in BOOLEAN,
         AddSymbol(s, local)
  PROVE  SymbolsInv'
<1>1. /\ AddString(s) /\ symbols' = Added(s, local) /\ phase' = "idle"
      /\ UNCHANGED <<sh_info, first_not_local, count>>
      /\ relocations' = relocations
  BY DEF AddSymbol
<1>2. Extended
  BY <1>1, SymbolAdded
<1>3. RelocationsFollow'
  BY <1>1, <1>2 DEF Extended, SymbolsInv, RelocationsFollow
<1>4. relocations' \in [RelSections -> Seq([symbol : Nat, id : Nat])]
  BY <1>1 DEF SymbolsInv, SymbolsTypeOK
<1> QED
  BY <1>1, <1>3, <1>4, AdditionKeeps

(* A relocation added last leaves the others as they are.                  *)
LEMMA Referred ==
  ASSUME SymbolsTypeOK, NEW r \in RelSections, NEW y \in Nat, NEW id \in Nat,
         relocations' = Refer(r, y, id)
  PROVE  /\ relocations' \in [RelSections -> Seq([symbol : Nat, id : Nat])]
         /\ \A q \in RelSections : \A k \in DOMAIN relocations'[q] :
              \/ /\ k \in DOMAIN relocations[q]
                 /\ relocations'[q][k] = relocations[q][k]
              \/ /\ relocations'[q][k].symbol = y
                 /\ relocations'[q][k].id = id
<1> DEFINE T == [symbol : Nat, id : Nat]
           e == Entry(y, id)
           old == relocations[r]
<1>1. e \in T /\ e.symbol = y /\ e.id = id
  BY DEF Entry
<1>2. relocations \in [RelSections -> Seq(T)] /\ old \in Seq(T)
  BY DEF SymbolsTypeOK
<1>3. /\ relocations' = [relocations EXCEPT ![r] = Append(old, e)]
  BY DEF Refer
<1> HIDE DEF e, T, old
<1>4. /\ Append(old, e) \in Seq(T) /\ Len(old) \in Nat
      /\ Len(Append(old, e)) = Len(old) + 1
      /\ \A k \in 1..Len(old) : Append(old, e)[k] = old[k]
      /\ Append(old, e)[Len(old) + 1] = e
  BY <1>1, <1>2, AppendProperties, LenProperties
<1>5. DOMAIN old = 1..Len(old) /\ DOMAIN Append(old, e) = 1..Len(old) + 1
  BY <1>2, <1>4, LenProperties
<1>6. relocations' \in [RelSections -> Seq(T)]
  BY <1>2, <1>3, <1>4
<1>7. ASSUME NEW q \in RelSections, NEW k \in DOMAIN relocations'[q]
      PROVE  \/ k \in DOMAIN relocations[q] /\ relocations'[q][k] = relocations[q][k]
             \/ relocations'[q][k] = e
  <2>1. CASE q = r
    <3>1. relocations'[q] = Append(old, e) /\ relocations[q] = old
      BY <1>2, <1>3, <2>1 DEF old
    <3>2. k \in 1..Len(old) \/ k = Len(old) + 1
      BY <1>4, <1>5, <3>1
    <3> QED
      BY <1>4, <1>5, <3>1, <3>2
  <2>2. CASE q # r
    BY <1>2, <1>3, <2>2
  <2> QED
    BY <2>1, <2>2
<1> QED
  BY <1>1, <1>6, <1>7 DEF T

LEMMA AddEntryKeeps ==
  ASSUME SymbolsInv, NEW r \in RelSections, NEW s \in Strings,
         NEW local \in BOOLEAN, AddEntry(r, s, local)
  PROVE  SymbolsInv'
<1>1. /\ AddString(s) /\ symbols' = Added(s, local) /\ phase' = "idle"
      /\ UNCHANGED <<sh_info, first_not_local, count>>
      /\ relocations' = Refer(r, Len(symbols') - 1, Len(WithNoSymbol))
  BY DEF AddEntry
<1>2. Extended
  BY <1>1, SymbolAdded
<1>3. Len(symbols') - 1 \in Nat /\ Len(WithNoSymbol) \in Nat
  BY <1>2 DEF Extended
<1>4. /\ relocations' \in [RelSections -> Seq([symbol : Nat, id : Nat])]
      /\ \A q \in RelSections : \A k \in DOMAIN relocations'[q] :
           \/ /\ k \in DOMAIN relocations[q]
              /\ relocations'[q][k] = relocations[q][k]
           \/ /\ relocations'[q][k].symbol = Len(symbols') - 1
              /\ relocations'[q][k].id = Len(WithNoSymbol)
  <2>1. PICK y \in Nat, id \in Nat :
          y = Len(symbols') - 1 /\ id = Len(WithNoSymbol)
    BY <1>3
  <2>2. relocations' = Refer(r, y, id)
    BY <1>1, <2>1
  <2>3. SymbolsTypeOK
    BY DEF SymbolsInv
  <2>4. /\ relocations' \in [RelSections -> Seq([symbol : Nat, id : Nat])]
        /\ \A q \in RelSections : \A k \in DOMAIN relocations'[q] :
             \/ /\ k \in DOMAIN relocations[q]
                /\ relocations'[q][k] = relocations[q][k]
             \/ relocations'[q][k].symbol = y /\ relocations'[q][k].id = id
    BY <2>2, <2>3, Referred, SMTT(40)
  <2> QED
    BY <2>1, <2>4
<1>5. ASSUME NEW q \in RelSections, NEW k \in DOMAIN relocations'[q]
      PROVE  LET entry == relocations'[q][k]
             IN entry.symbol \in Indexes' /\ symbols'[entry.symbol + 1].id = entry.id
  <2>1. CASE /\ k \in DOMAIN relocations[q]
             /\ relocations'[q][k] = relocations[q][k]
    BY <1>2, <2>1 DEF Extended, SymbolsInv, RelocationsFollow, At
  <2>2. CASE /\ relocations'[q][k].symbol = Len(symbols') - 1
             /\ relocations'[q][k].id = Len(WithNoSymbol)
    <3>1. Len(symbols') - 1 + 1 = Len(symbols')
      BY <1>2 DEF Extended
    <3> QED
      BY <1>2, <2>2, <3>1 DEF Extended
  <2> QED
    BY <1>4, <2>1, <2>2
<1>6. RelocationsFollow'
  BY <1>5 DEF RelocationsFollow, At
<1> QED
  BY <1>1, <1>4, <1>6, AdditionKeeps

LEMMA AddRelocationKeeps ==
  ASSUME SymbolsInv, NEW r \in RelSections, NEW y \in Indexes,
         AddRelocation(r, y)
  PROVE  SymbolsInv'
<1>1. /\ relocations' = Refer(r, y, At(y).id)
      /\ UNCHANGED <<stringVars, symbols, sh_info, hash, phase,
                     first_not_local, count>>
  BY DEF AddRelocation
<1>2. y \in Nat /\ At(y).id \in Nat
  BY TableTyped DEF SymbolsInv, SymbolsTypeOK, IdsOnce
<1>3. /\ relocations' \in [RelSections -> Seq([symbol : Nat, id : Nat])]
      /\ \A q \in RelSections : \A k \in DOMAIN relocations'[q] :
           \/ /\ k \in DOMAIN relocations[q]
              /\ relocations'[q][k] = relocations[q][k]
           \/ /\ relocations'[q][k].symbol = y
              /\ relocations'[q][k].id = At(y).id
  BY <1>1, <1>2, Referred DEF SymbolsInv
<1>4. RelocationsFollow'
  <2>1. ASSUME NEW q \in RelSections, NEW k \in DOMAIN relocations'[q]
        PROVE  LET entry == relocations'[q][k]
               IN entry.symbol \in Indexes /\ At(entry.symbol).id = entry.id
    <3>1. CASE /\ k \in DOMAIN relocations[q]
               /\ relocations'[q][k] = relocations[q][k]
      BY <3>1 DEF SymbolsInv, RelocationsFollow
    <3>2. CASE /\ relocations'[q][k].symbol = y
               /\ relocations'[q][k].id = At(y).id
      BY <3>2
    <3> QED
      BY <1>3, <3>1, <3>2
  <2> QED
    BY <1>1, <2>1 DEF RelocationsFollow, Indexes, At
<1>5. SymbolsTypeOK'
  BY <1>1, <1>3 DEF SymbolsInv, SymbolsTypeOK, stringVars
<1>6. /\ IdsOnce' /\ StringsInside' /\ NamesInside' /\ NamesRight'
      /\ PassedAreLocal' /\ LocalsFirst'
  BY <1>1 DEF SymbolsInv, IdsOnce, StringsInside, NamesInside, NamesRight,
              PassedAreLocal, LocalsFirst, Indexes, At, NameAt, GetString,
              stringVars
<1> QED
  BY <1>4, <1>5, <1>6 DEF SymbolsInv

-----------------------------------------------------------------------------
(* arrange_local_symbols()                                                 *)

LEMMA BeginArrangingKeeps ==
  ASSUME SymbolsInv, BeginArranging
  PROVE  SymbolsInv'
<1>1. /\ phase' = "arranging" /\ first_not_local' = 1 /\ count' = Len(symbols)
      /\ UNCHANGED <<stringVars, symbols, sh_info, hash, relocations>>
  BY DEF BeginArranging
<1>2. /\ Len(symbols) \in Nat /\ Indexes \subseteq Nat
      /\ symbols = <<>> <=> Len(symbols) = 0
  BY TableTyped DEF SymbolsInv, SymbolsTypeOK
<1>3. SymbolsTypeOK'
  BY <1>1, <1>2 DEF SymbolsInv, SymbolsTypeOK, stringVars
<1>4. PassedAreLocal'
  <2>1. ASSUME NEW y \in Indexes, y < 1
        PROVE  At(y).local
    <3>1. y = 0 /\ symbols # <<>>
      BY <1>2, <2>1 DEF Indexes
    <3> QED
      BY <3>1, NoSymbolTyped DEF At, SymbolsInv, SymbolsTypeOK
  <2>2. symbols # <<>> => 1 <= Len(symbols)
    BY <1>2
  <2> QED
    BY <1>1, <2>1, <2>2 DEF PassedAreLocal, Indexes, At
<1>5. LocalsFirst'
  BY <1>1 DEF LocalsFirst
<1>6. RelocationsFollow' /\ IdsOnce' /\ StringsInside' /\ NamesInside' /\ NamesRight'
  BY <1>1 DEF SymbolsInv, RelocationsFollow, IdsOnce, StringsInside,
              NamesInside, NamesRight, Indexes, At, NameAt, GetString,
              stringVars
<1> QED
  BY <1>3, <1>4, <1>5, <1>6 DEF SymbolsInv

(* Where the loops stop, for a table that has symbols                      *)
LEMMA LoopsStop ==
  ASSUME SymbolsInv, phase = "arranging", symbols # <<>>
  PROVE  /\ count = Len(symbols) /\ count \in Nat
         /\ FirstNotLocal \in 1..count
         /\ FirstNotLocal < count => At(FirstNotLocal).local = FALSE
         /\ \A y \in Indexes : y < FirstNotLocal => At(y).local
         /\ FirstNotLocal < count =>
              /\ Current \in FirstNotLocal + 1..count
              /\ Current < count => At(Current).local
              /\ \A y \in FirstNotLocal..Current - 1 : ~At(y).local
<1>1. /\ count = Len(symbols) /\ count \in Nat /\ first_not_local \in Nat
      /\ first_not_local > 0 /\ first_not_local <= count
      /\ Indexes \subseteq Nat
      /\ \A y \in Indexes : At(y).local \in BOOLEAN
      /\ \A y \in Indexes : y < first_not_local => At(y).local
  <2>1. \A y \in Indexes : At(y) \in SymbolRecords
    BY TableTyped DEF SymbolsInv, SymbolsTypeOK
  <2> QED
    BY <2>1, TableTyped DEF SymbolsInv, SymbolsTypeOK, PassedAreLocal, SymbolRecords
<1>2. /\ FirstNotLocal \in first_not_local..count
      /\ FirstNotLocal < count => At(FirstNotLocal).local = FALSE
      /\ \A y \in first_not_local..FirstNotLocal - 1 : At(y).local # FALSE
  BY <1>1, SearchStops DEF FirstNotLocal
<1>3. ASSUME NEW y \in Indexes, y < FirstNotLocal
      PROVE  At(y).local
  <2>1. CASE y < first_not_local
    BY <1>1, <2>1
  <2>2. CASE ~(y < first_not_local)
    <3>1. y \in first_not_local..FirstNotLocal - 1
      BY <1>1, <1>2, <1>3, <2>2
    <3> QED
      BY <1>1, <1>2, <3>1
  <2> QED
    BY <2>1, <2>2
<1>4. ASSUME FirstNotLocal < count
      PROVE  /\ Current \in FirstNotLocal + 1..count
             /\ Current < count => At(Current).local
             /\ \A y \in FirstNotLocal..Current - 1 : ~At(y).local
  <2>1. FirstNotLocal + 1 \in Nat /\ FirstNotLocal + 1 <= count /\ FirstNotLocal \in Nat
    BY <1>1, <1>2, <1>4
  <2>2. /\ Current \in FirstNotLocal + 1..count
        /\ Current < count => At(Current).local = TRUE
        /\ \A y \in FirstNotLocal + 1..Current - 1 : At(y).local # TRUE
    BY <1>1, <2>1, SearchStops DEF Current
  <2>3. ASSUME NEW y \in FirstNotLocal..Current - 1
        PROVE  ~At(y).local
    <3>1. CASE y = FirstNotLocal
      BY <1>2, <1>4, <3>1
    <3>2. CASE y # FirstNotLocal
      <4>1. y \in FirstNotLocal + 1..Current - 1 /\ y \in Indexes
        BY <1>1, <2>1, <2>2, <2>3, <3>2 DEF Indexes
      <4> QED
        BY <1>1, <2>2, <4>1
    <3> QED
      BY <3>1, <3>2
  <2> QED
    BY <2>2, <2>3
<1>5. FirstNotLocal \in 1..count
  BY <1>1, <1>2
<1> QED
  BY <1>1, <1>2, <1>3, <1>4, <1>5

(* An exchange of two symbols other than the first moves every symbol and  *)
(* every reference to it alike.                                            *)
LEMMA ExchangeMovesBoth ==
  ASSUME SymbolsInv, NEW a \in Indexes, NEW b \in Indexes, a # 0, b # 0,
         a # b, symbols' = Exchanged(a, b), UNCHANGED stringVars,
         relocations' = [r \in RelSections |-> SwapSymbols(relocations[r], a, b)]
  PROVE  /\ symbols' \in Seq(SymbolRecords) /\ Len(symbols') = Len(symbols)
         /\ symbols'[1] = NoSymbol
         /\ relocations' \in [RelSections -> Seq([symbol : Nat, id : Nat])]
         /\ At(a)' = At(b) /\ At(b)' = At(a)
         /\ \A y \in Indexes : y # a /\ y # b => At(y)' = At(y)
         /\ IdsOnce' /\ NamesInside' /\ NamesRight' /\ RelocationsFollow'
<1> DEFINE p(y) == IF y = b THEN a ELSE IF y = a THEN b ELSE y
           n == Len(symbols)
           T == [symbol : Nat, id : Nat]
<1>1. /\ symbols \in Seq(SymbolRecords) /\ n \in Nat /\ DOMAIN symbols = 1..n
      /\ Indexes = 0..n - 1 /\ Indexes \subseteq Nat
      /\ \A y \in Indexes : y + 1 \in 1..n /\ At(y) \in SymbolRecords
  BY TableTyped DEF SymbolsInv, SymbolsTypeOK, Indexes
<1>2. symbols' = [symbols EXCEPT ![a + 1] = At(b), ![b + 1] = At(a)]
  BY DEF Exchanged
<1>3. symbols' \in [1..n -> SymbolRecords]
  <2>1. symbols \in [1..n -> SymbolRecords]
    BY <1>1, LenProperties, ElementOfSeq
  <2> QED
    BY <1>1, <1>2, <2>1
<1>4. symbols' \in Seq(SymbolRecords) /\ Len(symbols') = n
  <2>1. symbols' \in Seq(SymbolRecords)
    BY <1>1, <1>3, IsASeq, SMTT(40)
  <2> QED
    BY <1>1, <1>3, <2>1, LenProperties
<1>5. a + 1 # b + 1 /\ a + 1 # 1 /\ b + 1 # 1 /\ n # 0
  BY <1>1
<1>6. /\ symbols'[a + 1] = At(b) /\ symbols'[b + 1] = At(a)
      /\ \A k \in 1..n : k # a + 1 /\ k # b + 1 => symbols'[k] = symbols[k]
  BY <1>1, <1>2, <1>5
<1>7. symbols'[1] = NoSymbol
  <2>1. symbols[1] = NoSymbol /\ 1 \in 1..n
    BY <1>1, <1>5, EmptySeq DEF SymbolsInv, SymbolsTypeOK
  <2> QED
    BY <1>5, <1>6, <2>1
<1>8. Indexes' = Indexes
  BY <1>1, <1>4 DEF Indexes
<1>9. /\ At(a)' = At(b) /\ At(b)' = At(a)
      /\ \A y \in Indexes : y # a /\ y # b => At(y)' = At(y)
  <2>1. \A y \in Indexes : y # a /\ y # b => y + 1 # a + 1 /\ y + 1 # b + 1
    BY <1>1
  <2> QED
    BY <1>1, <1>6, <2>1 DEF At
<1>10. ASSUME NEW y \in Indexes
       PROVE  p(y) \in Indexes /\ p(p(y)) = y /\ At(y)' = At(p(y))
  BY <1>9
<1> HIDE DEF p, n
<1>11. IdsOnce'
  <2>1. ASSUME NEW y \in Indexes
        PROVE  At(y)'.id \in Indexes
    BY <1>10 DEF SymbolsInv, IdsOnce
  <2>2. ASSUME NEW y \in Indexes, NEW z \in Indexes, At(y)'.id = At(z)'.id
        PROVE  y = z
    <3>1. p(y) = p(z)
      BY <1>10, <2>2 DEF SymbolsInv, IdsOnce
    <3> QED
      BY <1>10, <3>1
  <2>3. ASSUME NEW id \in Indexes
        PROVE  \E y \in Indexes : At(y)'.id = id
    <3>1. PICK y \in Indexes : At(y).id = id
      BY DEF SymbolsInv, IdsOnce
    <3>2. p(y) \in Indexes /\ At(p(y))' = At(p(p(y))) /\ p(p(y)) = y
      BY <1>10
    <3> QED
      BY <3>1, <3>2
  <2> QED
    BY <1>8, <2>1, <2>2, <2>3 DEF IdsOnce
<1>12. UNCHANGED strings
  BY DEF stringVars
<1>13. NamesInside'
  BY <1>8, <1>10, <1>12 DEF SymbolsInv, NamesInside
<1>14. NamesRight'
  <2>1. ASSUME NEW y \in Indexes
        PROVE  NameAt(y)' = At(y)'.wanted
    <3>1. NameAt(p(y)) = At(p(y)).wanted
      BY <1>10 DEF SymbolsInv, NamesRight
    <3>2. NameAt(y)' = NameAt(p(y))
      BY <1>8, <1>10, <1>12 DEF NameAt, GetString
    <3> QED
      BY <1>10, <3>1, <3>2
  <2> QED
    BY <1>8, <2>1 DEF NamesRight
<1>15. ASSUME NEW r \in RelSections
       PROVE  /\ relocations'[r] \in Seq(T)
              /\ DOMAIN relocations'[r] = DOMAIN relocations[r]
              /\ \A k \in DOMAIN relocations[r] :
                   /\ relocations'[r][k].symbol = p(relocations[r][k].symbol)
                   /\ relocations'[r][k].id = relocations[r][k].id
  <2> DEFINE old == relocations[r]
             new == relocations'[r]
  <2>1. old \in Seq(T) /\ Len(old) \in Nat /\ DOMAIN old = 1..Len(old)
        /\ \A k \in DOMAIN old : old[k] \in T
    <3>1. old \in Seq(T)
      BY DEF SymbolsInv, SymbolsTypeOK
    <3> HIDE DEF old, T
    <3> QED
      BY <3>1, LenProperties, ElementOfSeq
  <2>2. new = [k \in DOMAIN old |-> SetEntry(old[k], p(old[k].symbol))]
    BY DEF SwapSymbols, p
  <2>3. ASSUME NEW k \in DOMAIN old
        PROVE  /\ new[k] \in T /\ new[k].symbol = p(old[k].symbol)
               /\ new[k].id = old[k].id
    <3>1. PICK e : e = old[k]
      OBVIOUS
    <3>2. e \in T /\ new[k] = SetEntry(e, p(e.symbol))
      BY <2>1, <2>2, <3>1
    <3>3. p(e.symbol) \in Nat
      BY <1>1, <3>2 DEF p
    <3>4. /\ SetEntry(e, p(e.symbol)) \in T
          /\ SetEntry(e, p(e.symbol)).symbol = p(e.symbol)
          /\ SetEntry(e, p(e.symbol)).id = e.id
      BY <3>2, <3>3 DEF SetEntry
    <3> HIDE DEF new, old, T
    <3> QED
      BY <3>1, <3>2, <3>4
  <2>4. new \in Seq(T)
    <3>1. DOMAIN new = 1..Len(old) /\ new = [k \in 1..Len(old) |-> new[k]]
      BY <2>1, <2>2
    <3> HIDE DEF new, old, T
    <3>2. new \in [1..Len(old) -> T]
      BY <2>1, <2>3, <3>1
    <3> QED
      BY <2>1, <3>2, IsASeq
  <2> QED
    BY <2>2, <2>3, <2>4
<1>16. relocations' \in [RelSections -> Seq(T)]
  <2>1. relocations' = [r \in RelSections |-> relocations'[r]]
    OBVIOUS
  <2> QED
    BY <1>15, <2>1
<1>17. RelocationsFollow'
  <2>1. ASSUME NEW r \in RelSections, NEW k \in DOMAIN relocations[r]
        PROVE  \A e : e = relocations'[r][k] =>
                 e.symbol \in Indexes /\ symbols'[e.symbol + 1].id = e.id
    <3>1. PICK y : y = relocations[r][k].symbol
      OBVIOUS
    <3>2. y \in Indexes /\ At(y).id = relocations[r][k].id
      BY <3>1 DEF SymbolsInv, RelocationsFollow
    <3>3. p(y) \in Indexes /\ At(p(y))' = At(y)
      BY <1>10, <3>2
    <3>4. symbols'[p(y) + 1] = At(y)
      BY <3>3 DEF At
    <3> QED
      BY <1>15, <3>1, <3>2, <3>3, <3>4
  <2> QED
    BY <1>8, <1>15, <2>1 DEF RelocationsFollow, At
<1> QED
  BY <1>4, <1>7, <1>9, <1>11, <1>13, <1>14, <1>16, <1>17 DEF n, T

LEMMA ExchangeKeeps ==
  ASSUME SymbolsInv, Exchange
  PROVE  SymbolsInv'
<1> DEFINE a == FirstNotLocal
           b == Current
<1>1. /\ phase = "arranging" /\ a < count /\ b < count /\ first_not_local' = a
      /\ relocations' = [r \in RelSections |-> SwapSymbols(relocations[r], a, b)]
      /\ symbols' = Exchanged(a, b)
      /\ UNCHANGED <<stringVars, sh_info, hash, phase, count>>
  BY DEF Exchange
<1>2. symbols # <<>>
  <2>1. SymbolsTypeOK
    BY DEF SymbolsInv
  <2>2. ASSUME symbols = <<>>
        PROVE  FALSE
    <3>1. count = 0 /\ first_not_local \in Nat /\ first_not_local > 0
      BY <1>1, <2>1, <2>2, TableTyped DEF SymbolsTypeOK
    <3>2. a = first_not_local
      BY <3>1 DEF FirstNotLocal, Search
    <3> QED
      BY <1>1, <3>1, <3>2
  <2> QED
    BY <2>2
<1>3. /\ count = Len(symbols) /\ count \in Nat /\ a \in 1..count
      /\ \A y \in Indexes : y < a => At(y).local
      /\ b \in a + 1..count /\ At(b).local
  BY <1>1, <1>2, LoopsStop
<1> HIDE DEF a, b
<1>4. /\ a \in Indexes /\ b \in Indexes /\ a # 0 /\ b # 0 /\ a # b
      /\ a \in Nat /\ Indexes \subseteq Nat
  BY <1>1, <1>3 DEF Indexes
<1>5. PICK x \in Indexes, y \in Indexes : x = a /\ y = b
  BY <1>4
<1>6. /\ symbols' \in Seq(SymbolRecords) /\ Len(symbols') = Len(symbols)
      /\ symbols'[1] = NoSymbol
      /\ relocations' \in [RelSections -> Seq([symbol : Nat, id : Nat])]
      /\ \A z \in Indexes : z # x /\ z # y => At(z)' = At(z)
      /\ IdsOnce' /\ NamesInside' /\ NamesRight' /\ RelocationsFollow'
  <2>1. /\ symbols' = Exchanged(x, y) /\ UNCHANGED stringVars
        /\ relocations' = [r \in RelSections |-> SwapSymbols(relocations[r], x, y)]
    BY <1>1, <1>5
  <2>2. x # 0 /\ y # 0 /\ x # y
    BY <1>4, <1>5
  <2> QED
    BY <2>1, <2>2, ExchangeMovesBoth
<1>7. Indexes' = Indexes
  BY <1>6 DEF Indexes
<1>8. PassedAreLocal'
  <2>1. ASSUME NEW z \in Indexes, z < a
        PROVE  At(z)' = At(z) /\ At(z).local
    <3>1. z # x /\ z # y
      BY <1>3, <1>4, <1>5, <2>1
    <3> QED
      BY <1>3, <1>6, <2>1, <3>1
  <2>2. first_not_local' <= count'
    BY <1>1, <1>3
  <2> QED
    BY <1>1, <1>7, <2>1, <2>2 DEF PassedAreLocal
<1>9. SymbolsTypeOK'
  <2>1. first_not_local' \in Nat /\ first_not_local' > 0 /\ count' = Len(symbols')
    BY <1>1, <1>3, <1>4, <1>6
  <2> QED
    BY <1>1, <1>6, <2>1 DEF SymbolsInv, SymbolsTypeOK, stringVars
<1>10. StringsInside'
  BY <1>1 DEF SymbolsInv, StringsInside, stringVars
<1>11. LocalsFirst'
  BY <1>1 DEF LocalsFirst
<1> QED
  BY <1>6, <1>8, <1>9, <1>10, <1>11 DEF SymbolsInv

LEMMA EndArrangingKeeps ==
  ASSUME SymbolsInv, EndArranging
  PROVE  SymbolsInv'
<1> DEFINE a == FirstNotLocal
<1>1. /\ phase = "arranging" /\ ~(a < count /\ Current < count)
      /\ first_not_local' = a /\ sh_info' = a /\ phase' = "arranged"
      /\ UNCHANGED <<stringVars, symbols, hash, relocations, count>>
  BY DEF EndArranging
<1>2. /\ Len(symbols) \in Nat /\ Indexes \subseteq Nat
      /\ symbols = <<>> <=> Len(symbols) = 0
      /\ \A y \in Indexes : At(y) \in SymbolRecords
  BY TableTyped DEF SymbolsInv, SymbolsTypeOK
<1>3. a \in Nat
  <2>1. CASE symbols = <<>>
    <3>1. count = 0 /\ first_not_local \in Nat /\ first_not_local > 0
      BY <1>1, <1>2, <2>1 DEF SymbolsInv, SymbolsTypeOK
    <3>2. a = first_not_local
      BY <3>1 DEF FirstNotLocal, Search
    <3> QED
      BY <3>1, <3>2
  <2>2. CASE symbols # <<>>
    BY <1>1, <2>2, LoopsStop
  <2> QED
    BY <2>1, <2>2
<1>4. LocalsFirst'
  <2> SUFFICES ASSUME symbols # <<>>
               PROVE  /\ sh_info' \in 1..Len(symbols)
                      /\ \A y \in Indexes : At(y).local <=> y < sh_info'
    BY <1>1 DEF LocalsFirst, Indexes, At
  <2>1. /\ count = Len(symbols) /\ count \in Nat /\ a \in 1..count
        /\ \A y \in Indexes : y < a => At(y).local
        /\ a < count => /\ Current \in a + 1..count
                        /\ \A y \in a..Current - 1 : ~At(y).local
    BY <1>1, LoopsStop
  <2>2. ASSUME NEW y \in Indexes, ~(y < a)
        PROVE  ~At(y).local
    <3>1. a < count
      BY <1>2, <2>1, <2>2 DEF Indexes
    <3>2. Current = count
      BY <1>1, <2>1, <3>1
    <3>3. y \in a..Current - 1
      BY <1>2, <2>1, <2>2, <3>2 DEF Indexes
    <3> QED
      BY <2>1, <3>1, <3>3
  <2> HIDE DEF a
  <2> QED
    BY <1>1, <2>1, <2>2
<1> HIDE DEF a
<1>5. SymbolsTypeOK'
  BY <1>1, <1>3 DEF SymbolsInv, SymbolsTypeOK, stringVars
<1>6. PassedAreLocal'
  BY <1>1 DEF PassedAreLocal
<1>7. RelocationsFollow' /\ IdsOnce' /\ StringsInside' /\ NamesInside' /\ NamesRight'
  BY <1>1 DEF SymbolsInv, RelocationsFollow, IdsOnce, StringsInside,
              NamesInside, NamesRight, Indexes, At, NameAt, GetString,
              stringVars
<1> QED
  BY <1>4, <1>5, <1>6, <1>7 DEF SymbolsInv

-----------------------------------------------------------------------------
(* Lookups                                                                 *)

(* What a lookup of n may come to: nothing, or a symbol of that name       *)
Finds(n, y) == y = None \/ (y \in Nat /\ NameAt(y) = n)

(* Along a chain every symbol is compared before the next one is tried, so *)
(* what hash_lookup() finds is a symbol of that name, however old the hash *)
(* section is.                                                             *)
LEMMA HashLookupFinds ==
  ASSUME IsHash(hash), hash.kind = "hash", NEW n \in Strings
  PROVE  Finds(n, HashLookup(n))
<1>1. /\ hash.nbucket \in Nat /\ hash.nbucket > 0 /\ hash.nchain \in Nat
      /\ hash.bucket \in [0..hash.nbucket - 1 -> Nat]
      /\ hash.chain \in [0..hash.nchain - 1 -> Nat]
      /\ \E rank \in [0..hash.nchain - 1 -> 0..hash.nchain] :
           \A y \in 1..hash.nchain - 1 :
             hash.chain[y] \in 1..hash.nchain - 1 =>
               rank[hash.chain[y]] < rank[y]
  BY DEF IsHash
<1> DEFINE inner == 1..hash.nchain - 1
           Here(y) == NameAt(y) = n
           S == {y \in Nat : Here(y) \/ y \notin inner}
           b == [y \in Nat |-> IF Here(y) THEN y ELSE None]
           next == [y \in Nat |-> IF y \in inner THEN hash.chain[y] ELSE y]
           T == Nat \cup {None}
<1>2. PICK low \in [0..hash.nchain - 1 -> 0..hash.nchain] :
        \A y \in inner : hash.chain[y] \in inner => low[hash.chain[y]] < low[y]
  BY <1>1
<1> DEFINE rank == [y \in Nat |-> IF y \in inner THEN low[y] + 1 ELSE 0]
           m == hash.nchain + 1
<1>3. /\ m \in Nat /\ b \in [Nat -> T] /\ next \in [Nat -> Nat]
      /\ rank \in [Nat -> 0..m]
  <2>1. \A y \in inner : y \in 0..hash.nchain - 1
    BY <1>1
  <2>2. \A y \in inner : low[y] \in 0..hash.nchain /\ hash.chain[y] \in Nat
    BY <1>1, <1>2, <2>1
  <2>3. rank \in [Nat -> 0..m]
    BY <1>1, <2>2
  <2> QED
    BY <1>1, <2>2, <2>3
<1>4. ASSUME NEW y \in Nat \ S
      PROVE  rank[next[y]] < rank[y]
  <2>1. y \in inner /\ ~Here(y) /\ y \in 0..hash.nchain - 1
    BY <1>1
  <2>2. next[y] = hash.chain[y] /\ next[y] \in Nat /\ rank[y] = low[y] + 1
        /\ low[y] \in 0..hash.nchain
    BY <1>1, <1>2, <2>1
  <2>3. CASE next[y] \in inner
    <3>1. low[next[y]] < low[y] /\ next[y] \in 0..hash.nchain - 1
      BY <1>1, <1>2, <2>1, <2>2, <2>3
    <3>2. rank[next[y]] = low[next[y]] + 1 /\ low[next[y]] \in Nat
      BY <1>1, <1>2, <2>2, <2>3, <3>1
    <3> QED
      BY <2>2, <3>1, <3>2
  <2>4. CASE next[y] \notin inner
    <3>1. rank[next[y]] = 0
      BY <2>2, <2>4
    <3> QED
      BY <1>1, <2>2, <3>1
  <2> QED
    BY <2>3, <2>4
<1>5. PICK h \in [Nat -> T] :
        \A y \in Nat : h[y] = IF y \in S THEN b[y] ELSE h[next[y]]
  <2> DEFINE D == Nat
  <2> HIDE DEF S, T, b, next, rank, m
  <2>1. /\ m \in Nat /\ b \in [D -> T] /\ next \in [D -> D]
        /\ rank \in [D -> 0..m]
        /\ \A y \in D \ S : rank[next[y]] < rank[y]
    BY <1>3, <1>4
  <2> HIDE DEF D
  <2>2. Descents(T, D, S, b, next) # {}
    BY <2>1, DescentsExist
  <2> QED
    BY <2>2 DEF D, Descents
<1> DEFINE Step(f, y) == IF NameAt(y) = n THEN y
                         ELSE IF y = 0 \/ y >= hash.nchain THEN None
                         ELSE f[hash.chain[y]]
           walk == CHOOSE f : f = [y \in Nat |-> Step(f, y)]
<1>6. \A y \in Nat : y \in inner <=> ~(y = 0 \/ y >= hash.nchain)
  BY <1>1
<1>7. h = [y \in Nat |-> Step(h, y)]
  <2>1. ASSUME NEW y \in Nat
        PROVE  h[y] = Step(h, y)
    BY <1>5, <1>6
  <2> QED
    BY <2>1, <1>5
<1>8. walk = [y \in Nat |-> Step(walk, y)]
  <2> HIDE DEF Step
  <2> QED
    BY <1>7
<1> HIDE DEF walk
<1>9. \A y \in Nat : walk[y] = Step(walk, y)
  <2> HIDE DEF Step
  <2> QED
    BY <1>8
<1> DEFINE bad == {k \in 0..m : \E y \in Nat : rank[y] = k /\ ~Finds(n, walk[y])}
<1>10. bad = {}
  <2> SUFFICES ASSUME bad # {} PROVE FALSE
    OBVIOUS
  <2>1. PICK k \in bad : \A l \in bad : k <= l
    <3>1. bad \in SUBSET Nat
      BY <1>3
    <3> HIDE DEF bad
    <3> QED
      BY <3>1, LeastElement
  <2>2. PICK y \in Nat : rank[y] = k /\ ~Finds(n, walk[y])
    BY <2>1
  <2>3. y \notin S
    BY <1>6, <1>9, <2>2 DEF Finds
  <2>4. walk[y] = walk[next[y]] /\ next[y] \in Nat
    BY <1>3, <1>6, <1>9, <2>3
  <2>5. rank[next[y]] < rank[y] /\ rank[next[y]] \in 0..m /\ rank[y] \in 0..m
    <3> HIDE DEF S, rank, next, m
    <3> QED
      BY <1>3, <1>4, <2>3, <2>4
  <2>6. rank[next[y]] \in bad
    <3> HIDE DEF rank, next, m
    <3> QED
      BY <2>2, <2>4, <2>5
  <2> HIDE DEF bad, rank, next, m
  <2> QED
    BY <1>3, <2>1, <2>2, <2>5, <2>6
<1>11. ASSUME NEW y \in Nat
       PROVE  Finds(n, walk[y])
  <2> HIDE DEF rank, m
  <2>1. rank[y] \in 0..m
    BY <1>3
  <2> QED
    BY <1>10, <2>1
<1>12. hash.bucket[Hash[n] % hash.nbucket] \in Nat
  <2>1. Hash[n] \in Nat
    BY SymbolsAssumption
  <2>2. Hash[n] % hash.nbucket \in 0..hash.nbucket - 1
    BY <1>1, <2>1
  <2> QED
    BY <1>1, <2>2
<1>13. HashLookup(n) = walk[hash.bucket[Hash[n] % hash.nbucket]]
  BY DEF HashLookup, walk
<1> QED
  BY <1>11, <1>12, <1>13

(* The same along the symbols of a GNU bucket, up to the marked one        *)
LEMMA GnuHashLookupFinds ==
  ASSUME IsHash(hash), hash.kind = "gnu_hash", NEW n \in Strings
  PROVE  Finds(n, GnuHashLookup(n))
<1>1. /\ hash.nbucket \in Nat /\ hash.nbucket > 0 /\ hash.symoffset \in Nat
      /\ hash.bucket \in [0..hash.nbucket - 1 -> Nat]
      /\ \A k \in 0..hash.nbucket - 1 : hash.bucket[k] >= hash.symoffset =>
           \E c \in DOMAIN hash.chain :
             /\ c \in Nat /\ hash.bucket[k] - hash.symoffset <= c
             /\ hash.chain[c].last
  BY DEF IsHash
<1> DEFINE Hit(c) == hash.chain[c].hash = Hash[n] \div 2
                     /\ NameAt(c + hash.symoffset) = n
           Step(f, c) == IF Hit(c) THEN c + hash.symoffset
                         ELSE IF hash.chain[c].last THEN None ELSE f[c + 1]
           scan == CHOOSE f : f = [c \in Nat |-> Step(f, c)]
           first == hash.bucket[Hash[n] % hash.nbucket]
<1>2. first \in Nat /\ Hash[n] % hash.nbucket \in 0..hash.nbucket - 1
  <2>1. Hash[n] \in Nat
    BY SymbolsAssumption
  <2>2. Hash[n] % hash.nbucket \in 0..hash.nbucket - 1
    BY <1>1, <2>1
  <2> QED
    BY <1>1, <2>2
<1>3. GnuHashLookup(n) = IF n \in hash.bloom /\ first >= hash.symoffset
                           THEN scan[first - hash.symoffset] ELSE None
  BY DEF GnuHashLookup, scan
<1>4. scan = [c \in Nat |-> Step(scan, c)]
  <2> DEFINE Ends(c) == Hit(c) \/ hash.chain[c].last
             found(c) == {d \in Nat : d >= c /\ Ends(d)}
             at(d) == IF Hit(d) THEN d + hash.symoffset ELSE None
             h == [c \in Nat |-> IF found(c) = {} THEN None
                    ELSE at(CHOOSE d \in found(c) : \A e \in found(c) : d <= e)]
  <2>1. ASSUME NEW c \in Nat
        PROVE  h[c] = Step(h, c)
    <3>1. CASE Ends(c)
      <4>1. c \in found(c) /\ \A e \in found(c) : c <= e
        BY <3>1
      <4>2. \A d \in found(c) : (\A e \in found(c) : d <= e) => d = c
        BY <4>1
      <4>3. (CHOOSE d \in found(c) : \A e \in found(c) : d <= e) = c
        <5> HIDE DEF found
        <5> QED
          BY <4>1, <4>2
      <4>4. h[c] = at(c)
        <5> HIDE DEF found, at
        <5> QED
          BY <4>1, <4>3
      <4> QED
        BY <3>1, <4>4
    <3>2. CASE ~Ends(c)
      <4>1. found(c) = found(c + 1)
        <5>1. \A d \in Nat : d >= c /\ Ends(d) <=> d >= c + 1 /\ Ends(d)
          BY <3>2
        <5> HIDE DEF Ends
        <5> QED
          BY <5>1
      <4>2. h[c] = h[c + 1]
        <5> HIDE DEF found, at
        <5> QED
          BY <4>1
      <4> HIDE DEF h
      <4> QED
        BY <3>2, <4>2
    <3> QED
      BY <3>1, <3>2
  <2>2. h = [c \in Nat |-> Step(h, c)]
    <3>1. h = [c \in Nat |-> h[c]]
      OBVIOUS
    <3> HIDE DEF h, Step
    <3> QED
      BY <2>1, <3>1
  <2> HIDE DEF Step, h
  <2> QED
    BY <2>2
<1> HIDE DEF scan
<1>5. \A c \in Nat : scan[c] = Step(scan, c)
  <2> HIDE DEF Step
  <2> QED
    BY <1>4
<1>6. CASE n \in hash.bloom /\ first >= hash.symoffset
  <2>1. PICK c \in Nat : first - hash.symoffset <= c /\ hash.chain[c].last
    BY <1>1, <1>2, <1>6
  <2> HIDE DEF first
  <2> DEFINE start == first - hash.symoffset
             bad == {k \in 0..c - start : ~Finds(n, scan[c - k])}
  <2>2. start \in Nat /\ c - start \in Nat
    BY <1>1, <1>2, <1>6, <2>1
  <2>3. bad = {}
    <3> SUFFICES ASSUME bad # {} PROVE FALSE
      OBVIOUS
    <3>1. PICK k \in bad : \A l \in bad : k <= l
      <4>1. bad \in SUBSET Nat
        BY <2>2
      <4> HIDE DEF bad
      <4> QED
        BY <4>1, LeastElement
    <3>2. k \in 0..c - start /\ ~Finds(n, scan[c - k])
      BY <3>1
    <3> HIDE DEF bad
    <3> DEFINE d == c - k
    <3>3. d \in Nat /\ scan[d] = Step(scan, d)
      BY <1>5, <2>2, <3>2
    <3>4. ~Hit(d)
      BY <1>1, <3>2, <3>3 DEF Finds
    <3>5. ~hash.chain[d].last /\ scan[d] = scan[d + 1]
      BY <3>2, <3>3, <3>4 DEF Finds
    <3>6. k # 0
      BY <2>1, <3>5
    <3>7. k - 1 \in 0..c - start /\ c - (k - 1) = d + 1
      BY <2>2, <3>2, <3>6
    <3>8. k - 1 \in bad
      BY <3>2, <3>5, <3>7 DEF bad
    <3> QED
      BY <2>2, <3>1, <3>2, <3>8
  <2>4. c - start \in 0..c - start /\ c - (c - start) = start
    BY <2>2
  <2>5. Finds(n, scan[start])
    BY <2>3, <2>4
  <2> QED
    BY <1>3, <1>6, <2>5 DEF first
<1> QED
  BY <1>3, <1>6 DEF Finds

(* get_symbol() by name, with either hash section or none: a symbol of     *)
(* that name is found exactly if there is one.                             *)
LEMMA LookupsExact ==
  ASSUME SymbolsInv, IsHash(hash)
  PROVE  LookupExact
<1> SUFFICES ASSUME NEW n \in Strings
             PROVE  IF \E y \in Indexes : NameAt(y) = n
                      THEN NameAt(Lookup(n)) = n ELSE Lookup(n) = None
  BY DEF LookupExact
<1>1. Indexes \subseteq Nat /\ None \notin Strings /\ None \notin Nat
  BY TableTyped, SymbolsAssumption DEF SymbolsInv, SymbolsTypeOK
<1>3. hash.kind \in {"none", "hash", "gnu_hash"}
  BY DEF IsHash
<1>4. Finds(n, ByHash(n))
  <2>1. CASE hash.kind = "none"
    BY <2>1 DEF ByHash, Finds
  <2>2. CASE hash.kind = "hash"
    BY <2>2, HashLookupFinds DEF ByHash
  <2>3. CASE hash.kind = "gnu_hash"
    BY <2>3, GnuHashLookupFinds DEF ByHash
  <2> QED
    BY <1>3, <2>1, <2>2, <2>3
<1>5. CASE ByHash(n) # None
  <2>1. Lookup(n) = ByHash(n) /\ NameAt(Lookup(n)) = n
    BY <1>4, <1>5 DEF Lookup, Finds
  <2>2. Lookup(n) \in Indexes
    BY <1>1, <2>1 DEF NameAt
  <2> QED
    BY <2>1, <2>2
<1>6. CASE ByHash(n) = None
  <2> DEFINE same == {y \in Indexes : NameAt(y) = n}
  <2>1. Lookup(n) = LeastOf(same)
    BY <1>6 DEF Lookup, LinearLookup
  <2>2. CASE same = {}
    BY <2>1, <2>2 DEF LeastOf
  <2>3. CASE same # {}
    <3>1. same \in SUBSET Nat
      BY <1>1
    <3>2. Lookup(n) \in same
      <4> HIDE DEF same
      <4> QED
        BY <2>1, <2>3, <3>1, LeastOfIsLeast
    <3> QED
      BY <3>2
  <2> QED
    BY <2>2, <2>3
<1> QED
  BY <1>5, <1>6

-----------------------------------------------------------------------------
(* The specification                                                       *)

LEMMA SymbolsInitially ==
  ASSUME Init
  PROVE  SymbolsInv
<1>1. PICK o \in Objects :
        /\ strings = o.strings /\ str_size = o.str_size /\ symbols = o.symbols
        /\ sh_info = 0 /\ relocations = [r \in RelSections |-> <<>>]
        /\ phase = "idle" /\ first_not_local = 1 /\ count = 0
  BY DEF Init
<1>2. /\ DOMAIN strings \subseteq Nat \ {0}
      /\ strings \in [DOMAIN strings -> Strings] /\ str_size \in 0..MaxWord
      /\ \A p \in DOMAIN strings : p + Length[strings[p]] + 1 <= str_size
      /\ symbols \in Seq(SymbolRecords)
      /\ symbols # <<>> => symbols[1] = NoSymbol
      /\ \A k \in DOMAIN symbols :
           LET s == symbols[k]
           IN /\ s.id = k - 1
              /\ IF s.name = 0 THEN s.wanted = None
                 ELSE s.name \in DOMAIN strings /\ s.wanted = strings[s.name]
  BY <1>1, ObjectsAssumption DEF IsObject
<1>3. SymbolsTypeOK
  <2>1. relocations \in [RelSections -> Seq([symbol : Nat, id : Nat])]
    BY <1>1
  <2>2. DOMAIN strings \subseteq Nat
    BY <1>2
  <2> QED
    BY <1>1, <1>2, <2>1, <2>2 DEF SymbolsTypeOK
<1>4. Len(symbols) \in Nat /\ DOMAIN symbols = 1..Len(symbols)
  BY <1>2, TableTyped
<1>5. ASSUME NEW y \in Indexes
      PROVE  /\ y + 1 \in DOMAIN symbols /\ At(y) = symbols[y + 1] /\ At(y).id = y
             /\ At(y).name = 0 \/ At(y).name \in DOMAIN strings
             /\ NameAt(y) = At(y).wanted
  <2>1. y + 1 \in DOMAIN symbols /\ y \in Nat
    BY <1>4 DEF Indexes
  <2>2. /\ At(y).id = y + 1 - 1
        /\ IF At(y).name = 0 THEN At(y).wanted = None
           ELSE At(y).name \in DOMAIN strings /\ At(y).wanted = strings[At(y).name]
    BY <1>2, <2>1 DEF At
  <2>3. 0 \notin DOMAIN strings
    BY <1>2
  <2>4. NameAt(y) = At(y).wanted
    BY <2>2, <2>3 DEF NameAt, GetString
  <2> QED
    BY <2>1, <2>2, <2>4 DEF At
<1>6. IdsOnce
  BY <1>5 DEF IdsOnce
<1>7. NamesInside /\ NamesRight /\ StringsInside
  BY <1>2, <1>5 DEF NamesInside, NamesRight, StringsInside
<1>8. RelocationsFollow
  <2>1. \A r \in RelSections : DOMAIN relocations[r] = {}
    BY <1>1
  <2> QED
    BY <2>1 DEF RelocationsFollow
<1>9. PassedAreLocal /\ LocalsFirst
  BY <1>1 DEF PassedAreLocal, LocalsFirst
<1> QED
  BY <1>3, <1>6, <1>7, <1>8, <1>9 DEF SymbolsInv

LEMMA SymbolsStepwise ==
  ASSUME SymbolsInv, [Next]_vars
  PROVE  SymbolsInv'
<1>1. ASSUME NEW s \in Strings, NEW local \in BOOLEAN, AddSymbol(s, local)
      PROVE  SymbolsInv'
  BY <1>1, AddSymbolKeeps
<1>2. ASSUME NEW r \in RelSections, NEW s \in Strings, NEW local \in BOOLEAN,
             AddEntry(r, s, local)
      PROVE  SymbolsInv'
  BY <1>2, AddEntryKeeps
<1>3. ASSUME NEW r \in RelSections, NEW y \in Indexes, AddRelocation(r, y)
      PROVE  SymbolsInv'
  BY <1>3, AddRelocationKeeps
<1>4. CASE BeginArranging
  BY <1>4, BeginArrangingKeeps
<1>5. CASE Exchange
  BY <1>5, ExchangeKeeps
<1>6. CASE EndArranging
  BY <1>6, EndArrangingKeeps
<1>7. CASE UNCHANGED vars
  <2>1. /\ UNCHANGED <<symbols, sh_info, hash, relocations, phase, first_not_local, count>>
        /\ UNCHANGED <<strings, str_size>>
    BY <1>7 DEF vars, stringVars
  <2>2. SymbolsTypeOK' /\ LocalsFirst' /\ PassedAreLocal'
    BY <2>1 DEF SymbolsInv, SymbolsTypeOK, LocalsFirst, PassedAreLocal, Indexes, At
  <2>3. RelocationsFollow' /\ IdsOnce'
    BY <2>1 DEF SymbolsInv, RelocationsFollow, IdsOnce, Indexes, At
  <2>4. StringsInside'
    BY <2>1 DEF SymbolsInv, StringsInside
  <2>5. NamesInside'
    BY <2>1 DEF SymbolsInv, NamesInside, Indexes, At
  <2>6. NamesRight'
    BY <2>1 DEF SymbolsInv, NamesRight, Indexes, At, NameAt, GetString
  <2> QED
    BY <2>2, <2>3, <2>4, <2>5, <2>6 DEF SymbolsInv
<1> QED
  BY <1>1, <1>2, <1>3, <1>4, <1>5, <1>6, <1>7 DEF Next

(* The inductive invariant: identities, names, references and the passed   *)
(* part of the table, in every state of add_symbol(), add_entry() and      *)
(* arrange_local_symbols().                                                *)
THEOREM SymbolsInvariance == Spec => []SymbolsInv
<1>1. Init => SymbolsInv
  BY SymbolsInitially
<1>2. SymbolsInv /\ [Next]_vars => SymbolsInv'
  BY SymbolsStepwise
<1> QED
  BY <1>1, <1>2, PTL DEF Spec

(* The tables are well formed whatever is added: positions are Elf_Words,  *)
(* the null symbol stays first.                                            *)
THEOREM SymbolsTypeCorrect == Spec => []SymbolsTypeOK
<1>1. SymbolsInv => SymbolsTypeOK
  BY DEF SymbolsInv
<1> QED
  BY <1>1, SymbolsInvariance, PTL

(* swap_symbols() in every relocation section, called for each exchange    *)
(* that arrange_local_symbols() makes, leaves every relocation at the      *)
(* symbol it was made for, also between two exchanges.                     *)
THEOREM RelocationsKeepTheirSymbols == Spec => []RelocationsFollow
<1>1. SymbolsInv => RelocationsFollow
  BY DEF SymbolsInv
<1> QED
  BY <1>1, SymbolsInvariance, PTL

(* The additions and exchanges lose no symbol and double none.             *)
THEOREM NoSymbolIsLost == Spec => []SymbolsKept
<1>1. SymbolsInv => SymbolsKept
  BY DEF SymbolsInv, IdsOnce, SymbolsKept
<1> QED
  BY <1>1, SymbolsInvariance, PTL

(* When arrange_local_symbols() returns, sh_info separates the local       *)
(* symbols from all others.                                                *)
THEOREM LocalSymbolsAreFirst == Spec => []LocalsFirst
<1>1. SymbolsInv => LocalsFirst
  BY DEF SymbolsInv
<1> QED
  BY <1>1, SymbolsInvariance, PTL

(* A symbol has the name it was added with, however full the string table  *)
(* gets: add_string() never overwrites a string nor returns another's      *)
(* position.                                                               *)
THEOREM NamesStayRight == Spec => []NamesRight
<1>1. SymbolsInv => NamesRight
  BY DEF SymbolsInv
<1> QED
  BY <1>1, SymbolsInvariance, PTL

(* However old the hash section is, a name is found exactly if a symbol    *)
(* has it: hash tables that are not updated when symbols are added and     *)
(* exchanged may mislead a lookup, but not to a wrong answer.              *)
THEOREM LookupsAreExact == Spec => []LookupExact
<1>1. Init => IsHash(hash)
  BY ObjectsAssumption DEF Init
<1>2. IsHash(hash) /\ [Next]_vars => IsHash(hash)'
  <2>1. [Next]_vars => UNCHANGED hash
    BY DEF Next, AddSymbol, AddEntry, AddRelocation, BeginArranging, Exchange,
           EndArranging, vars
  <2> QED
    BY <2>1
<1>3. SymbolsInv /\ IsHash(hash) => LookupExact
  BY LookupsExact
<1> QED
  BY <1>1, <1>2, <1>3, SymbolsInvariance, PTL DEF Spec

=============================================================================
