--------------------------- MODULE EncodingProofs ---------------------------
(***************************************************************************)
(* Proofs about the bytes of a file, for either file class, both encodings *)
(* and hosts of either byte order: what is written can be read by anyone,  *)
(* entries are read as they were added, and a dump can be loaded.          *)
(***************************************************************************)
EXTENDS Encoding, NumberFacts, SequenceTheorems, TLAPS

-----------------------------------------------------------------------------
(* Sequences of bytes                                                      *)

LEMMA ReverseTwice ==
  ASSUME NEW T, NEW v \in Seq(T)
  PROVE  /\ Reverse(v) \in Seq(T) /\ Len(Reverse(v)) = Len(v)
         /\ Reverse(Reverse(v)) = v
         /\ \A k \in 1..Len(v) : Reverse(v)[k] = v[Len(v) - k + 1]
<1>1. Len(v) \in Nat /\ \A k \in 1..Len(v) : v[k] \in T
  BY ElementOfSeq
<1>2. \A k \in 1..Len(v) : Len(v) - k + 1 \in 1..Len(v)
  BY <1>1
<1> DEFINE w == Reverse(v)
<1>3. w = [k \in 1..Len(v) |-> v[Len(v) - k + 1]]
  BY DEF Reverse
<1>4. w \in Seq(T) /\ Len(w) = Len(v)
  <2>1. w \in [1..Len(v) -> T]
    BY <1>1, <1>2, <1>3
  <2> QED
    BY <1>1, <1>3, <2>1
<1>5. \A k \in 1..Len(v) : w[k] = v[Len(v) - k + 1]
  BY <1>3
<1> HIDE DEF w
<1> DEFINE u == Reverse(w)
<1>6. u = [k \in 1..Len(v) |-> w[Len(v) - k + 1]]
  BY <1>4 DEF Reverse
<1>7. u \in Seq(T) /\ Len(u) = Len(v)
  <2>1. u \in [1..Len(v) -> T]
    <3>1. \A k \in 1..Len(v) : w[k] \in T
      BY <1>1, <1>2, <1>5
    <3> QED
      BY <1>2, <1>6, <3>1
  <2> QED
    BY <1>1, <1>6, <2>1
<1>8. \A k \in 1..Len(v) : u[k] = v[k]
  BY <1>1, <1>2, <1>5, <1>6
<1> HIDE DEF u
<1>9. u = v
  BY <1>7, <1>8, SeqEqual
<1> QED
  BY <1>4, <1>5, <1>9 DEF u, w

Strings == Seq(Byte)

(* The n bytes of s from position pos on                                   *)
Part(s, pos, n) == SubSeq(s, pos + 1, pos + n)

LEMMA PartTyped ==
  ASSUME NEW s \in Strings, NEW pos \in Nat, NEW n \in Nat, pos + n <= Len(s)
  PROVE  /\ Part(s, pos, n) \in Strings /\ Len(Part(s, pos, n)) = n
         /\ \A k \in 1..n : Part(s, pos, n)[k] = s[pos + k]
<1>1. Len(s) \in Nat /\ \A k \in 1..Len(s) : s[k] \in Byte
  BY ElementOfSeq DEF Strings
<1>2. \A k \in pos + 1..pos + n : s[k] \in Byte
  BY <1>1
<1> DEFINE p == SubSeq(s, pos + 1, pos + n)
<1>3. /\ p \in Seq(Byte)
      /\ Len(p) = IF pos + 1 <= pos + n THEN pos + n - (pos + 1) + 1 ELSE 0
      /\ \A k \in 1..pos + n - (pos + 1) + 1 : p[k] = s[pos + 1 + k - 1]
  BY <1>2, SubSeqProperties
<1> HIDE DEF p
<1>4. Len(p) = n
  BY <1>3
<1>5. ASSUME NEW k \in 1..n
      PROVE  p[k] = s[pos + k]
  <2>1. k \in 1..pos + n - (pos + 1) + 1 /\ pos + 1 + k - 1 = pos + k
    OBVIOUS
  <2> QED
    BY <1>3, <2>1
<1> QED
  BY <1>3, <1>4, <1>5 DEF p, Part, Strings

(* Two parts are equal if their bytes are.                                 *)
Same(s, p, t, q, n) == \A k \in 1..n : s[p + k] = t[q + k]

LEMMA SameParts ==
  ASSUME NEW s \in Strings, NEW t \in Strings, NEW p \in Nat, NEW q \in Nat,
         NEW n \in Nat, p + n <= Len(s), q + n <= Len(t),
         Same(s, p, t, q, n)
  PROVE  Part(s, p, n) = Part(t, q, n)
<1> DEFINE a == Part(s, p, n)
           b == Part(t, q, n)
<1>1. /\ a \in Strings /\ Len(a) = n /\ b \in Strings /\ Len(b) = n
      /\ \A k \in 1..n : a[k] = s[p + k] /\ b[k] = t[q + k]
  BY PartTyped
<1> HIDE DEF a, b
<1>2. \A k \in 1..Len(a) : a[k] = b[k]
  BY <1>1 DEF Same
<1> QED
  BY <1>1, <1>2, SeqEqual DEF a, b, Strings

LEMMA WholePart ==
  ASSUME NEW s \in Strings
  PROVE  Part(s, 0, Len(s)) = s
<1>1. SubSeq(s, 1, Len(s)) = s
  BY SubSeqFull DEF Strings
<1>2. Len(s) \in Nat
  BY LenProperties DEF Strings
<1>3. 0 + 1 = 1 /\ 0 + Len(s) = Len(s)
  BY <1>2
<1> QED
  BY <1>1, <1>3 DEF Part

LEMMA PartOfPart ==
  ASSUME NEW s \in Strings, NEW p \in Nat, NEW n \in Nat, p + n <= Len(s),
         NEW q \in Nat, NEW m \in Nat, q + m <= n
  PROVE  Part(Part(s, p, n), q, m) = Part(s, p + q, m)
<1> DEFINE a == Part(s, p, n)
<1>1. a \in Strings /\ Len(a) = n /\ \A k \in 1..n : a[k] = s[p + k]
  BY PartTyped
<1>2. Len(s) \in Nat
  BY LenProperties DEF Strings
<1> HIDE DEF a
<1>3. ASSUME NEW k \in 1..m
      PROVE  a[q + k] = s[(p + q) + k]
  <2>1. q + k \in 1..n /\ p + (q + k) = (p + q) + k
    OBVIOUS
  <2> QED
    BY <1>1, <2>1
<1>4. p + q \in Nat /\ (p + q) + m <= Len(s)
  BY <1>2
<1>5. Same(a, q, s, p + q, m)
  BY <1>3 DEF Same
<1>6. Part(a, q, m) = Part(s, p + q, m)
  BY <1>1, <1>4, <1>5, SameParts
<1> QED
  BY <1>6 DEF a

LEMMA BytesAreStrings ==
  ASSUME NEW n \in Nat, NEW v \in Bytes(n)
  PROVE  v \in Strings /\ Len(v) = n
<1>1. v \in [1..n -> Byte]
  BY DEF Bytes
<1>2. v \in Seq(Byte)
  BY <1>1
<1> QED
  BY <1>1, <1>2 DEF Strings

LEMMA Prefix ==
  ASSUME NEW s \in Strings, NEW n \in Nat, n <= Len(s)
  PROVE  /\ Part(s, 0, n) \in Strings /\ Len(Part(s, 0, n)) = n
         /\ \A k \in 1..n : Part(s, 0, n)[k] = s[k]
<1>1. 0 \in Nat /\ 0 + n = n /\ \A k \in 1..n : 0 + k = k
  OBVIOUS
<1> QED
  BY <1>1, PartTyped

(* s with v in place of the bytes from pos on                              *)
Splice(s, pos, v) ==
  SubSeq(s, 1, pos) \o v \o SubSeq(s, pos + Len(v) + 1, Len(s))

LEMMA Spliced ==
  ASSUME NEW s \in Strings, NEW v \in Strings, NEW pos \in Nat,
         pos + Len(v) <= Len(s)
  PROVE  LET r == Splice(s, pos, v)
         IN /\ r \in Strings /\ Len(r) = Len(s)
            /\ \A k \in 1..Len(s) :
                 r[k] = IF pos < k /\ k <= pos + Len(v) THEN v[k - pos] ELSE s[k]
<1> DEFINE a == SubSeq(s, 1, pos)
           end == pos + Len(v)
           b == SubSeq(s, end + 1, Len(s))
<1>1. Len(s) \in Nat /\ Len(v) \in Nat
  BY LenProperties DEF Strings
<1>2. a \in Strings /\ Len(a) = pos /\ \A k \in 1..pos : a[k] = s[k]
  <2>1. a = Part(s, 0, pos)
    BY DEF Part
  <2> HIDE DEF a
  <2> QED
    BY <1>1, <2>1, PartTyped
<1>3. /\ b \in Strings /\ Len(b) = Len(s) - end
      /\ \A k \in 1..Len(s) - end : b[k] = s[end + k]
  <2>1. end \in Nat /\ Len(s) - end \in Nat /\ end + (Len(s) - end) = Len(s)
    BY <1>1
  <2>2. b = Part(s, end, Len(s) - end)
    BY <2>1 DEF Part
  <2> HIDE DEF b, end
  <2> DEFINE n == Len(s) - end
  <2>3. n \in Nat /\ end + n <= Len(s)
    BY <1>1, <2>1
  <2> HIDE DEF n
  <2>4. /\ Part(s, end, n) \in Strings /\ Len(Part(s, end, n)) = n
        /\ \A k \in 1..n : Part(s, end, n)[k] = s[end + k]
    BY <2>1, <2>3, PartTyped
  <2> QED
    BY <2>2, <2>4 DEF n
<1> HIDE DEF a, b
<1>4. /\ a \o v \in Strings /\ Len(a \o v) = end
      /\ \A k \in 1..end : (a \o v)[k] = IF k <= pos THEN a[k] ELSE v[k - pos]
  BY <1>1, <1>2, ConcatProperties DEF Strings
<1> DEFINE c == a \o v
           r == c \o b
<1> HIDE DEF c
<1>5. /\ r \in Strings /\ Len(r) = Len(s)
      /\ \A k \in 1..Len(s) : r[k] = IF k <= end THEN c[k] ELSE b[k - end]
  <2>1. /\ c \in Seq(Byte) /\ b \in Seq(Byte) /\ Len(c) = end
    BY <1>3, <1>4 DEF c, Strings
  <2>2. /\ r \in Seq(Byte) /\ Len(r) = Len(c) + Len(b)
        /\ \A k \in 1..Len(c) + Len(b) : r[k] = IF k <= Len(c) THEN c[k]
                                                ELSE b[k - Len(c)]
    <3> HIDE DEF end
    <3> QED
      BY <2>1, ConcatProperties
  <2> HIDE DEF r
  <2>3. Len(c) + Len(b) = Len(s)
    BY <1>1, <1>3, <2>1
  <2> QED
    BY <2>1, <2>2, <2>3 DEF Strings
<1>6. r = Splice(s, pos, v)
  BY DEF r, c, a, b, Splice
<1> HIDE DEF r
<1>7. ASSUME NEW k \in 1..Len(s)
      PROVE  r[k] = IF pos < k /\ k <= pos + Len(v) THEN v[k - pos] ELSE s[k]
  <2>1. CASE k <= pos
    BY <1>1, <1>2, <1>4, <1>5, <2>1 DEF c
  <2>2. CASE pos < k /\ k <= end
    <3>1. k \in 1..end /\ ~(k <= pos)
      BY <1>1, <2>2
    <3>2. c[k] = v[k - pos] /\ r[k] = c[k]
      <4> HIDE DEF end
      <4> QED
        BY <1>4, <1>5, <3>1 DEF c
    <3> QED
      BY <2>2, <3>2
  <2>3. CASE end < k
    <3>1. k - end \in 1..Len(s) - end /\ end + (k - end) = k
      BY <1>1, <2>3
    <3> QED
      BY <1>1, <1>3, <1>5, <2>3, <3>1
  <2> QED
    BY <1>1, <2>1, <2>2, <2>3
<1> QED
  BY <1>5, <1>6, <1>7

(* The new part is v, and the parts on either side are as before.          *)
LEMMA SpliceParts ==
  ASSUME NEW s \in Strings, NEW v \in Strings, NEW pos \in Nat,
         pos + Len(v) <= Len(s)
  PROVE  LET r == Splice(s, pos, v)
         IN /\ r \in Strings /\ Len(r) = Len(s)
            /\ Part(r, pos, Len(v)) = v
            /\ \A q, m \in Nat :
                 q + m <= Len(s) /\ (q + m <= pos \/ pos + Len(v) <= q) =>
                   Part(r, q, m) = Part(s, q, m)
<1> DEFINE r == Splice(s, pos, v)
<1>1. /\ r \in Strings /\ Len(r) = Len(s) /\ Len(s) \in Nat /\ Len(v) \in Nat
      /\ \A k \in 1..Len(s) :
           r[k] = IF pos < k /\ k <= pos + Len(v) THEN v[k - pos] ELSE s[k]
  BY Spliced, LenProperties DEF Strings
<1> HIDE DEF r
<1>2. Part(r, pos, Len(v)) = v
  <2>1. ASSUME NEW k \in 1..Len(v)
        PROVE  r[pos + k] = v[0 + k]
    <3>1. pos + k \in 1..Len(s) /\ (pos + k) - pos = 0 + k
      BY <1>1
    <3> QED
      BY <1>1, <3>1
  <2>2. Same(r, pos, v, 0, Len(v))
    BY <2>1 DEF Same
  <2>3. Part(r, pos, Len(v)) = Part(v, 0, Len(v))
    BY <1>1, <2>2, SameParts
  <2> QED
    BY <2>3, WholePart
<1>3. ASSUME NEW q \in Nat, NEW m \in Nat, q + m <= Len(s),
             q + m <= pos \/ pos + Len(v) <= q
      PROVE  Part(r, q, m) = Part(s, q, m)
  <2>1. ASSUME NEW k \in 1..m
        PROVE  r[q + k] = s[q + k]
    <3>1. q + k \in 1..Len(s) /\ ~(pos < q + k /\ q + k <= pos + Len(v))
      BY <1>1, <1>3
    <3> QED
      BY <1>1, <3>1
  <2>2. Same(r, q, s, q, m)
    BY <2>1 DEF Same
  <2> QED
    BY <1>1, <1>3, <2>2, SameParts
<1> QED
  BY <1>1, <1>2, <1>3 DEF r

LEMMA Joined ==
  ASSUME NEW s \in Strings, NEW t \in Strings
  PROVE  /\ s \o t \in Strings /\ Len(s \o t) = Len(s) + Len(t)
         /\ Len(s) \in Nat /\ Len(t) \in Nat
         /\ \A k \in 1..Len(s) + Len(t) :
              (s \o t)[k] = IF k <= Len(s) THEN s[k] ELSE t[k - Len(s)]
BY ConcatProperties, LenProperties DEF Strings

(* Parts of two strings put together                                       *)
LEMMA ConcatParts ==
  ASSUME NEW s \in Strings, NEW t \in Strings
  PROVE  /\ s \o t \in Strings /\ Len(s \o t) = Len(s) + Len(t)
         /\ Part(s \o t, Len(s), Len(t)) = t
         /\ \A q, m \in Nat : q + m <= Len(s) => Part(s \o t, q, m) = Part(s, q, m)
         /\ \A q, m \in Nat : q + m <= Len(t) =>
              Part(s \o t, Len(s) + q, m) = Part(t, q, m)
<1> DEFINE r == s \o t
<1>1. /\ r \in Strings /\ Len(r) = Len(s) + Len(t)
      /\ Len(s) \in Nat /\ Len(t) \in Nat
      /\ \A k \in 1..Len(s) + Len(t) :
           r[k] = IF k <= Len(s) THEN s[k] ELSE t[k - Len(s)]
  BY ConcatProperties, LenProperties DEF Strings
<1> HIDE DEF r
<1>2. ASSUME NEW q \in Nat, NEW m \in Nat, q + m <= Len(s)
      PROVE  Part(r, q, m) = Part(s, q, m)
  <2>1. \A k \in 1..m : q + k \in 1..Len(s) + Len(t) /\ q + k <= Len(s)
    BY <1>1, <1>2
  <2>2. \A k \in 1..m : r[q + k] = s[q + k]
    BY <1>1, <2>1
  <2>3. Same(r, q, s, q, m) /\ q + m <= Len(r)
    BY <1>1, <1>2, <2>2 DEF Same
  <2> QED
    BY <1>1, <1>2, <2>3, SameParts
<1>3. ASSUME NEW q \in Nat, NEW m \in Nat, q + m <= Len(t)
      PROVE  Part(r, Len(s) + q, m) = Part(t, q, m)
  <2>1. ASSUME NEW k \in 1..m
        PROVE  r[(Len(s) + q) + k] = t[q + k]
    <3>1. /\ (Len(s) + q) + k \in 1..Len(s) + Len(t)
          /\ ~((Len(s) + q) + k <= Len(s)) /\ ((Len(s) + q) + k) - Len(s) = q + k
      BY <1>1, <1>3
    <3> QED
      BY <1>1, <3>1
  <2>2. Len(s) + q \in Nat /\ (Len(s) + q) + m <= Len(r)
    BY <1>1, <1>3
  <2> DEFINE p == Len(s) + q
  <2>3. Same(r, p, t, q, m)
    BY <2>1 DEF Same
  <2> HIDE DEF p
  <2> QED
    BY <1>1, <1>3, <2>2, <2>3, SameParts DEF p
<1>4. Part(r, Len(s), Len(t)) = t
  <2>1. Part(r, Len(s) + 0, Len(t)) = Part(t, 0, Len(t))
    BY <1>1, <1>3
  <2> QED
    BY <1>1, <2>1, WholePart
<1> QED
  BY <1>1, <1>2, <1>3, <1>4 DEF r

-----------------------------------------------------------------------------
(* Structures                                                              *)

OneByte == {"ei_class", "ei_data", "ei_version", "ei_osabi", "ei_abiversion",
            "st_info", "st_other"}

IsField(field) ==
  field[2] \in 1..8 /\ (field[1] \notin OneByte => field[2] >= 2)

IsTable(fields) ==
  /\ DOMAIN fields = 1..Len(fields) /\ Len(fields) \in 1..20
  /\ \A n \in 1..Len(fields) : IsField(fields[n])

LEMMA EhdrTyped ==
  ASSUME NEW c \in Classes
  PROVE  IsTable(Ehdr(c)) /\ Len(Ehdr(c)) = 20
<1> DEFINE t == Ehdr(c)
<1>1. c \in {1, 2} /\ Native(c) \in {4, 8}
  BY DEF Classes, Class32, Class64, Native
<1>2. Len(t) = 20 /\ DOMAIN t = 1..20
  BY DEF Ehdr
<1>3. /\ IsField(t[1]) /\ IsField(t[2]) /\ IsField(t[3]) /\ IsField(t[4])
      /\ IsField(t[5]) /\ IsField(t[6]) /\ IsField(t[7]) /\ IsField(t[8])
      /\ IsField(t[9]) /\ IsField(t[10]) /\ IsField(t[11]) /\ IsField(t[12])
      /\ IsField(t[13]) /\ IsField(t[14]) /\ IsField(t[15]) /\ IsField(t[16])
      /\ IsField(t[17]) /\ IsField(t[18]) /\ IsField(t[19]) /\ IsField(t[20])
  BY <1>1 DEF Ehdr, IsField, OneByte
<1> HIDE DEF t
<1> QED
  BY <1>2, <1>3 DEF IsTable, t

LEMMA ShdrTyped ==
  ASSUME NEW c \in Classes
  PROVE  IsTable(Shdr(c)) /\ Len(Shdr(c)) = 10
<1> DEFINE t == Shdr(c)
<1>1. c \in {1, 2} /\ Native(c) \in {4, 8}
  BY DEF Classes, Class32, Class64, Native
<1>2. Len(t) = 10 /\ DOMAIN t = 1..10
  BY DEF Shdr
<1>3. /\ IsField(t[1]) /\ IsField(t[2]) /\ IsField(t[3]) /\ IsField(t[4])
      /\ IsField(t[5]) /\ IsField(t[6]) /\ IsField(t[7]) /\ IsField(t[8])
      /\ IsField(t[9]) /\ IsField(t[10])
  BY <1>1 DEF Shdr, IsField, OneByte
<1> HIDE DEF t
<1> QED
  BY <1>2, <1>3 DEF IsTable, t

LEMMA PhdrTyped ==
  ASSUME NEW c \in Classes
  PROVE  IsTable(Phdr(c)) /\ Len(Phdr(c)) = 8
<1> DEFINE t == Phdr(c)
<1>1. Len(t) = 8 /\ DOMAIN t = 1..8
  BY DEF Phdr
<1>2. /\ IsField(t[1]) /\ IsField(t[2]) /\ IsField(t[3]) /\ IsField(t[4])
      /\ IsField(t[5]) /\ IsField(t[6]) /\ IsField(t[7]) /\ IsField(t[8])
  BY DEF Phdr, IsField, OneByte
<1> HIDE DEF t
<1> QED
  BY <1>1, <1>2 DEF IsTable, t

LEMMA SymTyped ==
  ASSUME NEW c \in Classes
  PROVE  IsTable(Sym(c)) /\ Len(Sym(c)) = 6
<1> DEFINE t == Sym(c)
<1>1. Len(t) = 6 /\ DOMAIN t = 1..6
  BY DEF Sym
<1>2. /\ IsField(t[1]) /\ IsField(t[2]) /\ IsField(t[3]) /\ IsField(t[4])
      /\ IsField(t[5]) /\ IsField(t[6])
  BY DEF Sym, IsField, OneByte
<1> HIDE DEF t
<1> QED
  BY <1>1, <1>2 DEF IsTable, t

LEMMA SmallTyped ==
  ASSUME NEW c \in Classes
  PROVE  /\ IsTable(Rel(c)) /\ Len(Rel(c)) = 2
         /\ IsTable(Rela(c)) /\ Len(Rela(c)) = 3
         /\ IsTable(Dyn(c)) /\ Len(Dyn(c)) = 2
         /\ IsTable(Element(c)) /\ Len(Element(c)) = 1
<1>1. c \in {1, 2} /\ Native(c) \in {4, 8}
  BY DEF Classes, Class32, Class64, Native
<1>2. IsTable(Rel(c)) /\ Len(Rel(c)) = 2
  BY <1>1 DEF Rel, IsField, OneByte, IsTable
<1>3. IsTable(Rela(c)) /\ Len(Rela(c)) = 3
  BY <1>1 DEF Rela, IsField, OneByte, IsTable
<1>4. IsTable(Dyn(c)) /\ Len(Dyn(c)) = 2
  BY <1>1 DEF Dyn, IsField, OneByte, IsTable
<1>5. IsTable(Element(c)) /\ Len(Element(c)) = 1
  BY <1>1 DEF Element, IsField, OneByte, IsTable
<1> QED
  BY <1>2, <1>3, <1>4, <1>5

(* Every structure has its table of fields; none is longer than 160 bytes. *)
LEMMA TablesTyped ==
  ASSUME NEW what \in Structures, NEW c \in Classes
  PROVE  IsTable(FieldsOf(what, c))
<1>1. \/ what = "Ehdr" /\ FieldsOf(what, c) = Ehdr(c)
      \/ what = "Shdr" /\ FieldsOf(what, c) = Shdr(c)
      \/ what = "Phdr" /\ FieldsOf(what, c) = Phdr(c)
      \/ what = "SYMTAB" /\ FieldsOf(what, c) = Sym(c)
      \/ what = "REL" /\ FieldsOf(what, c) = Rel(c)
      \/ what = "RELA" /\ FieldsOf(what, c) = Rela(c)
      \/ what = "DYNAMIC" /\ FieldsOf(what, c) = Dyn(c)
      \/ what = "INIT_ARRAY" /\ FieldsOf(what, c) = Element(c)
  BY DEF Structures, Kinds, FieldsOf
<1> QED
  BY <1>1, EhdrTyped, ShdrTyped, PhdrTyped, SymTyped, SmallTyped

(* The fields follow one another: each begins where the one before ends.   *)
LEMMA FieldsFollow ==
  ASSUME NEW fields, IsTable(fields)
  PROVE  /\ Len(fields) \in Nat /\ Begin(fields, 1) = 0
         /\ \A n \in 1..Len(fields) + 1 : Begin(fields, n) \in Nat
         /\ \A n \in 1..Len(fields) :
              Begin(fields, n + 1) = Begin(fields, n) + fields[n][2]
<1> DEFINE L == Len(fields)
           g == [k \in 1..L |-> [u \in Nat |-> u + fields[k][2]]]
<1>1. L \in Nat /\ L > 0 /\ \A k \in 1..L : fields[k][2] \in 1..8
  <2>1. L \in 1..20 /\ \A k \in 1..L : IsField(fields[k])
    BY DEF IsTable
  <2> HIDE DEF L
  <2> QED
    BY <2>1 DEF IsField
<1>2. g \in [1..L -> [Nat -> Nat]]
  <2>1. \A k \in 1..L, u \in Nat : u + fields[k][2] \in Nat
    <3> HIDE DEF L
    <3> QED
      BY <1>1
  <2> HIDE DEF L
  <2> QED
    BY <2>1
<1> HIDE DEF L
<1>3. /\ \A k \in 1..L, u \in Nat : g[k][u] = u + fields[k][2]
  OBVIOUS
<1> HIDE DEF g
<1>4. Steps(Nat, 0, L, g) # {}
  BY <1>1, <1>2, StepsExist
<1>5. PICK h \in [0..L -> Nat] : h[0] = 0 /\ \A k \in 1..L : h[k] = g[k][h[k - 1]]
  BY <1>4 DEF Steps
<1>6. ASSUME NEW k \in 1..L
      PROVE  h[k] = h[k - 1] + fields[k][2] /\ h[k - 1] \in Nat
  <2>1. k - 1 \in 0..L /\ k \in 1..L
    BY <1>1
  <2>2. h[k - 1] \in Nat
    BY <1>5, <2>1
  <2> QED
    BY <1>3, <1>5, <2>1, <2>2
<1>7. ASSUME NEW n \in 1..L + 1
      PROVE  Begin(fields, n) = h[n - 1]
  <2> DEFINE Step(f, m) == IF m = 1 THEN 0 ELSE f[m - 1] + fields[m - 1][2]
             sum == CHOOSE f : f = [m \in 1..n |-> Step(f, m)]
             e == [m \in 1..n |-> h[m - 1]]
  <2>1. Begin(fields, n) = sum[n]
    BY DEF Begin
  <2>2. ASSUME NEW m \in 1..n
        PROVE  e[m] = Step(e, m)
    <3>1. CASE m = 1
      BY <1>5, <3>1
    <3>2. CASE m # 1
      <4>1. m - 1 \in 1..n /\ m - 1 \in 1..L
        BY <1>1, <3>2
      <4>2. e[m - 1] = h[(m - 1) - 1] /\ e[m] = h[m - 1]
        BY <4>1
      <4> QED
        BY <1>6, <3>2, <4>1, <4>2
    <3> QED
      BY <3>1, <3>2
  <2>3. e = [m \in 1..n |-> Step(e, m)]
    <3>1. e = [m \in 1..n |-> e[m]]
      OBVIOUS
    <3> HIDE DEF e, Step
    <3> QED
      BY <2>2, <3>1
  <2>4. sum = [m \in 1..n |-> Step(sum, m)]
    <3> HIDE DEF Step, e
    <3> QED
      BY <2>3
  <2> HIDE DEF sum
  <2>5. \A m \in 1..n : sum[m] = Step(sum, m)
    <3> HIDE DEF Step
    <3> QED
      BY <2>4
  <2> DEFINE bad == {m \in 1..n : sum[m] # h[m - 1]}
  <2>6. ASSUME bad # {}
        PROVE  FALSE
    <3>1. PICK m \in bad : \A o \in bad : m <= o
      <4>1. bad \in SUBSET Nat
        OBVIOUS
      <4> HIDE DEF bad
      <4> QED
        BY <2>6, <4>1, LeastElement
    <3>2. m \in 1..n /\ sum[m] # h[m - 1]
      OBVIOUS
    <3>3. CASE m = 1
      BY <1>5, <2>5, <3>2, <3>3
    <3>4. CASE m # 1
      <4>1. m - 1 \in 1..n /\ m - 1 \in 1..L /\ ~(m <= m - 1)
        BY <1>1, <3>2, <3>4
      <4>2. sum[m - 1] = h[(m - 1) - 1]
        BY <3>1, <4>1
      <4>3. sum[m] = sum[m - 1] + fields[m - 1][2]
        BY <2>5, <3>2, <3>4
      <4>4. h[m - 1] = h[(m - 1) - 1] + fields[m - 1][2]
        BY <1>6, <4>1
      <4> QED
        BY <3>2, <4>2, <4>3, <4>4
    <3> QED
      BY <3>3, <3>4
  <2>7. n \in 1..n
    OBVIOUS
  <2> QED
    BY <2>1, <2>6, <2>7
<1>8. Begin(fields, 1) = 0
  <2>1. 1 \in 1..L + 1 /\ 1 - 1 = 0
    BY <1>1
  <2> QED
    BY <1>5, <1>7, <2>1
<1>9. ASSUME NEW n \in 1..L + 1
      PROVE  Begin(fields, n) \in Nat
  <2>1. n - 1 \in 0..L
    BY <1>1
  <2> QED
    BY <1>5, <1>7, <2>1
<1>10. ASSUME NEW n \in 1..L
       PROVE  Begin(fields, n + 1) = Begin(fields, n) + fields[n][2]
  <2>1. n \in 1..L + 1 /\ n + 1 \in 1..L + 1 /\ (n + 1) - 1 = n
    BY <1>1
  <2>2. Begin(fields, n + 1) = h[n] /\ Begin(fields, n) = h[n - 1]
    BY <1>7, <2>1
  <2> QED
    BY <1>6, <2>2
<1> QED
  BY <1>1, <1>8, <1>9, <1>10 DEF L

(* So a field ends where a later one begins, or before that.               *)
LEMMA FieldsApart ==
  ASSUME NEW fields, IsTable(fields), NEW m \in 1..Len(fields),
         NEW n \in 1..Len(fields) + 1, m < n
  PROVE  /\ Begin(fields, m) + fields[m][2] <= Begin(fields, n)
         /\ fields[m][2] \in 1..8
         /\ Begin(fields, n) - Begin(fields, m) \in n - m..8 * (n - m)
<1> DEFINE L == Len(fields)
           B(k) == Begin(fields, k)
<1>1. /\ L \in Nat /\ \A k \in 1..L + 1 : B(k) \in Nat
      /\ \A k \in 1..L : B(k + 1) = B(k) + fields[k][2]
  BY FieldsFollow
<1>2. \A k \in 1..L : fields[k][2] \in 1..8
  BY DEF IsTable, IsField
<1> HIDE DEF L, B
<1> DEFINE Holds(k) == /\ B(m) + fields[m][2] <= B(k)
                       /\ B(k) - B(m) \in k - m..8 * (k - m)
           bad == {k \in m + 1..L + 1 : ~Holds(k)}
<1>3. m \in 1..L /\ n \in m + 1..L + 1
  BY <1>1 DEF L
<1>4. ASSUME bad # {}
      PROVE  FALSE
  <2>1. PICK k \in bad : \A o \in bad : k <= o
    <3>1. bad \in SUBSET Nat
      BY <1>3
    <3> HIDE DEF bad
    <3> QED
      BY <1>4, <3>1, LeastElement
  <2>2. k \in m + 1..L + 1 /\ ~Holds(k)
    OBVIOUS
  <2>3. CASE k = m + 1
    <3>1. B(k) = B(m) + fields[m][2] /\ B(m) \in Nat /\ fields[m][2] \in 1..8
      BY <1>1, <1>2, <1>3, <2>3
    <3>2. k - m = 1 /\ B(k) - B(m) = fields[m][2]
      BY <1>3, <2>3, <3>1, SMTT(30)
    <3> QED
      BY <2>2, <3>1, <3>2, SMTT(30)
  <2>4. CASE k # m + 1
    <3>1. k - 1 \in m + 1..L + 1 /\ ~(k <= k - 1) /\ k - 1 \in 1..L
          /\ k - 1 + 1 = k
      BY <1>1, <1>3, <2>2, <2>4
    <3>2. k - 1 \notin bad
      BY <2>1, <3>1
    <3>3. Holds(k - 1)
      BY <3>1, <3>2
    <3>4. B(k) = B(k - 1) + fields[k - 1][2] /\ fields[k - 1][2] \in 1..8
      BY <1>1, <1>2, <3>1
    <3>5. B(m) \in Nat /\ B(k - 1) \in Nat /\ fields[m][2] \in 1..8
      <4>1. m \in 1..L + 1 /\ k - 1 \in 1..L + 1
        BY <1>1, <1>3, <3>1
      <4> QED
        BY <1>1, <1>2, <1>3, <4>1
    <3> DEFINE x == B(m)
               y == B(k - 1)
               v == fields[m][2]
               w == fields[k - 1][2]
               j == (k - 1) - m
    <3>6. /\ x \in Nat /\ y \in Nat /\ v \in 1..8 /\ w \in 1..8
          /\ j \in Nat /\ k - m = j + 1 /\ B(k) = y + w
      BY <1>3, <3>1, <3>4, <3>5
    <3>7. x + v <= y /\ y - x \in j..8 * j
      BY <3>3
    <3>8. Holds(k)
      <4> HIDE DEF y, v, w, j
      <4>1. x + v <= y + w /\ (y + w) - x \in j + 1..8 * (j + 1)
        <5> HIDE DEF x
        <5> QED
          BY <3>6, <3>7
      <4> QED
        BY <3>6, <4>1 DEF v
    <3> QED
      BY <2>2, <3>8
  <2> QED
    BY <2>3, <2>4
<1>5. Holds(n)
  BY <1>3, <1>4
<1> QED
  BY <1>2, <1>3, <1>5 DEF B
IsSize(n) == n \in Nat /\ n > 0 /\ n <= 160

(* Where a field is, and how wide                                          *)
Names(what, c) == {FieldsOf(what, c)[n][1] : n \in DOMAIN FieldsOf(what, c)}

Index(what, c, f) ==
  CHOOSE m \in DOMAIN FieldsOf(what, c) : FieldsOf(what, c)[m][1] = f

At(what, c, f) == Begin(FieldsOf(what, c), Index(what, c, f))
Width(what, c, f) == FieldsOf(what, c)[Index(what, c, f)][2]

LEMMA Places ==
  ASSUME NEW what \in Structures, NEW c \in Classes
  PROVE  /\ IsSize(Size[what][c])
         /\ DOMAIN Place[what][c] = Names(what, c)
         /\ \A f \in Names(what, c) :
              /\ Place[what][c][f] = <<At(what, c, f) + 1, Width(what, c, f)>>
              /\ At(what, c, f) \in Nat /\ Width(what, c, f) \in 1..8
              /\ At(what, c, f) + Width(what, c, f) <= Size[what][c]
              /\ f \notin OneByte => Width(what, c, f) >= 2
         /\ \A f, g \in Names(what, c) : f # g =>
              \/ At(what, c, f) + Width(what, c, f) <= At(what, c, g)
              \/ At(what, c, g) + Width(what, c, g) <= At(what, c, f)
<1> DEFINE fields == FieldsOf(what, c)
           L == Len(fields)
<1>1. IsTable(fields)
  BY TablesTyped
<1>2. Size[what][c] = Begin(fields, L + 1)
  BY DEF Size
<1>3. /\ DOMAIN Place[what][c] = Names(what, c)
      /\ \A f \in Names(what, c) :
           Place[what][c][f] = <<At(what, c, f) + 1, Width(what, c, f)>>
  <2> DEFINE p == Place[what][c]
  <2>1. p = [f \in {fields[n][1] : n \in DOMAIN fields} |->
               LET n == CHOOSE m \in DOMAIN fields : fields[m][1] = f
               IN <<Begin(fields, n) + 1, fields[n][2]>>]
    BY DEF Place
  <2>2. p = [f \in Names(what, c) |->
               <<At(what, c, f) + 1, Width(what, c, f)>>]
    BY <2>1 DEF Names, At, Width, Index
  <2> HIDE DEF p
  <2> QED
    BY <2>2 DEF p
<1> HIDE DEF fields
<1>4. L \in 1..20 /\ DOMAIN fields = 1..L /\ \A n \in 1..L : IsField(fields[n])
  BY <1>1 DEF IsTable
<1>5. \A n \in 1..L + 1 : Begin(fields, n) \in Nat
  BY <1>1, FieldsFollow
<1>6. ASSUME NEW f \in Names(what, c)
      PROVE  Index(what, c, f) \in 1..L /\ fields[Index(what, c, f)][1] = f
  <2>1. \E m \in DOMAIN fields : fields[m][1] = f
    BY DEF Names, fields
  <2> QED
    BY <1>4, <2>1 DEF Index, fields
<1>7. ASSUME NEW f \in Names(what, c)
      PROVE  /\ At(what, c, f) \in Nat /\ Width(what, c, f) \in 1..8
             /\ f \notin OneByte => Width(what, c, f) >= 2
  <2>1. Index(what, c, f) \in 1..L + 1
    BY <1>4, <1>6
  <2> QED
    BY <1>4, <1>5, <1>6, <2>1 DEF At, Width, IsField, fields
<1>8. ASSUME NEW m \in 1..L, NEW n \in 1..L + 1, m < n
      PROVE  Begin(fields, m) + fields[m][2] <= Begin(fields, n)
  BY <1>1, <1>8, FieldsApart DEF L
<1>9. ASSUME NEW f \in Names(what, c)
      PROVE  At(what, c, f) + Width(what, c, f) <= Size[what][c]
  <2>1. Index(what, c, f) < L + 1 /\ L + 1 \in 1..L + 1
    BY <1>4, <1>6
  <2> QED
    BY <1>2, <1>6, <1>8, <2>1 DEF At, Width, fields
<1>10. ASSUME NEW f \in Names(what, c), NEW g \in Names(what, c), f # g
       PROVE  \/ At(what, c, f) + Width(what, c, f) <= At(what, c, g)
              \/ At(what, c, g) + Width(what, c, g) <= At(what, c, f)
  <2> DEFINE m == Index(what, c, f)
             n == Index(what, c, g)
  <2>1. m \in 1..L /\ n \in 1..L /\ m # n
    BY <1>6, <1>10
  <2> HIDE DEF m, n
  <2>2. m \in 1..L + 1 /\ n \in 1..L + 1 /\ (m < n \/ n < m)
    BY <1>4, <2>1
  <2>3. \/ Begin(fields, m) + fields[m][2] <= Begin(fields, n)
        \/ Begin(fields, n) + fields[n][2] <= Begin(fields, m)
    BY <1>8, <2>1, <2>2
  <2> QED
    BY <2>3 DEF m, n, At, Width, fields
<1>11. IsSize(Size[what][c])
  <2>1. 1 \in 1..L /\ L + 1 \in 1..L + 1 /\ 1 < L + 1
    <3>1. L \in Nat /\ L >= 1
      BY <1>4
    <3> HIDE DEF L
    <3> QED
      BY <3>1
  <2>2. Begin(fields, L + 1) - Begin(fields, 1) \in (L + 1) - 1..8 * ((L + 1) - 1)
    BY <1>1, <2>1, FieldsApart DEF L
  <2>3. Begin(fields, 1) = 0
    BY <1>1, FieldsFollow
  <2>4. Begin(fields, L + 1) \in Nat
    BY <1>5, <2>1
  <2> DEFINE b == Begin(fields, L + 1)
  <2>5. (L + 1) - 1 = L /\ L \in 1..20
    <3> HIDE DEF L
    <3> QED
      BY <1>4
  <2>6. b - 0 \in L..8 * L /\ b \in Nat
    BY <2>2, <2>3, <2>4, <2>5
  <2> HIDE DEF b, L
  <2>7. IsSize(b)
    BY <2>5, <2>6 DEF IsSize
  <2> QED
    BY <1>2, <2>7 DEF b
<1> QED
  BY <1>3, <1>7, <1>9, <1>10, <1>11

(* The field of each name in the header and in a section's header          *)
LEMMA HeaderNames ==
  ASSUME NEW c \in Classes
  PROVE  /\ Settable \cup {"ei_class", "ei_data", "e_version", "e_ehsize",
              "e_phentsize", "e_shentsize", "e_phnum", "e_shnum"}
              \subseteq Names("Ehdr", c)
         /\ {"sh_type", "sh_size", "sh_offset", "sh_entsize"}
              \subseteq Names("Shdr", c)
         /\ At("Ehdr", c, "ei_class") = 4 /\ Width("Ehdr", c, "ei_class") = 1
         /\ At("Ehdr", c, "ei_data") = 5 /\ Width("Ehdr", c, "ei_data") = 1
         /\ \A f \in Names("Ehdr", c) \ {"ei_mag", "ei_class", "ei_data"} :
              At("Ehdr", c, f) >= 6
         /\ Size["Ehdr"][c] >= 16
<1> DEFINE t == Ehdr(c)
           s == Shdr(c)
<1>1. /\ t[1][1] = "ei_mag" /\ t[1][2] = 4
      /\ t[2][1] = "ei_class" /\ t[2][2] = 1
      /\ t[3][1] = "ei_data" /\ t[3][2] = 1
      /\ t[4][1] = "ei_version" /\ t[5][1] = "ei_osabi"
      /\ t[6][1] = "ei_abiversion" /\ t[7][1] = "ei_pad"
      /\ t[8][1] = "e_type" /\ t[9][1] = "e_machine" /\ t[10][1] = "e_version"
      /\ t[11][1] = "e_entry" /\ t[12][1] = "e_phoff" /\ t[13][1] = "e_shoff"
      /\ t[14][1] = "e_flags" /\ t[15][1] = "e_ehsize"
      /\ t[16][1] = "e_phentsize" /\ t[17][1] = "e_phnum"
      /\ t[18][1] = "e_shentsize" /\ t[19][1] = "e_shnum"
      /\ t[20][1] = "e_shstrndx"
  BY DEF Ehdr
<1>2. /\ s[2][1] = "sh_type" /\ s[5][1] = "sh_offset" /\ s[6][1] = "sh_size"
      /\ s[10][1] = "sh_entsize"
  BY DEF Shdr
<1>3. /\ IsTable(t) /\ Len(t) = 20 /\ DOMAIN t = 1..20
      /\ IsTable(s) /\ Len(s) = 10 /\ DOMAIN s = 1..10
  BY EhdrTyped, ShdrTyped DEF IsTable
<1>4. FieldsOf("Ehdr", c) = t /\ FieldsOf("Shdr", c) = s
  BY DEF FieldsOf
<1>5. t[7][2] = 7 /\ t[4][2] = 1 /\ t[5][2] = 1 /\ t[6][2] = 1
  BY DEF Ehdr
<1> HIDE DEF t, s
<1>6. \A n \in 1..20 : t[n][1] \in Names("Ehdr", c)
  BY <1>3, <1>4 DEF Names
<1>7. \A n \in 1..10 : s[n][1] \in Names("Shdr", c)
  BY <1>3, <1>4 DEF Names
<1>8. ASSUME NEW f \in Names("Ehdr", c)
      PROVE  /\ Index("Ehdr", c, f) \in 1..20
             /\ t[Index("Ehdr", c, f)][1] = f
  <2>1. \E m \in DOMAIN t : t[m][1] = f
    BY <1>4 DEF Names
  <2> QED
    BY <1>3, <1>4, <2>1 DEF Index
<1>9. /\ Begin(t, 1) = 0
      /\ \A n \in 1..21 : Begin(t, n) \in Nat
      /\ \A n \in 1..20 : Begin(t, n + 1) = Begin(t, n) + t[n][2]
  <2>1. Len(t) + 1 = 21
    BY <1>3
  <2> QED
    BY <1>3, <2>1, FieldsFollow
<1>10. /\ Begin(t, 2) = 4 /\ Begin(t, 3) = 5 /\ Begin(t, 4) = 6
       /\ Begin(t, 5) = 7 /\ Begin(t, 6) = 8 /\ Begin(t, 7) = 9
       /\ Begin(t, 8) = 16
  <2>1. /\ Begin(t, 1 + 1) = 0 + 4 /\ Begin(t, 2 + 1) = Begin(t, 2) + 1
        /\ Begin(t, 3 + 1) = Begin(t, 3) + 1 /\ Begin(t, 4 + 1) = Begin(t, 4) + 1
        /\ Begin(t, 5 + 1) = Begin(t, 5) + 1 /\ Begin(t, 6 + 1) = Begin(t, 6) + 1
        /\ Begin(t, 7 + 1) = Begin(t, 7) + 7
    BY <1>1, <1>5, <1>9
  <2> QED
    BY <2>1
<1>11. ASSUME NEW n \in 5..21
       PROVE  Begin(t, n) >= 6
  <2>1. 4 \in 1..Len(t) /\ n \in 1..Len(t) + 1 /\ 4 < n
    BY <1>3
  <2>2. Begin(t, n) - Begin(t, 4) \in n - 4..8 * (n - 4)
    BY <1>3, <2>1, FieldsApart
  <2>3. Begin(t, n) \in Nat
    BY <1>9
  <2> QED
    BY <1>10, <2>2, <2>3
<1>12. /\ Index("Ehdr", c, "ei_class") = 2 /\ Index("Ehdr", c, "ei_data") = 3
  <2>1. "ei_class" \in Names("Ehdr", c) /\ "ei_data" \in Names("Ehdr", c)
    BY <1>1, <1>6
  <2> DEFINE m == Index("Ehdr", c, "ei_class")
             n == Index("Ehdr", c, "ei_data")
  <2>2. m \in 1..20 /\ t[m][1] = "ei_class" /\ n \in 1..20 /\ t[n][1] = "ei_data"
    BY <1>8, <2>1
  <2> HIDE DEF m, n
  <2>3. m = 2
    BY <1>1, <2>2
  <2>4. n = 3
    BY <1>1, <2>2
  <2> QED
    BY <2>3, <2>4 DEF m, n
<1>13. /\ At("Ehdr", c, "ei_class") = 4 /\ Width("Ehdr", c, "ei_class") = 1
       /\ At("Ehdr", c, "ei_data") = 5 /\ Width("Ehdr", c, "ei_data") = 1
  BY <1>1, <1>4, <1>10, <1>12 DEF At, Width
<1>14. ASSUME NEW f \in Names("Ehdr", c) \ {"ei_mag", "ei_class", "ei_data"}
       PROVE  At("Ehdr", c, f) >= 6
  <2> DEFINE n == Index("Ehdr", c, f)
  <2>1. n \in 1..20 /\ t[n][1] = f
    BY <1>8
  <2> HIDE DEF n
  <2>2. n # 1 /\ n # 2 /\ n # 3
    BY <1>1, <1>14, <2>1
  <2>3. n = 4 \/ n \in 5..21
    BY <2>1, <2>2
  <2>4. Begin(t, n) >= 6
    BY <1>10, <1>11, <2>3
  <2> QED
    BY <1>4, <2>4 DEF At, n
<1>15. Size["Ehdr"][c] >= 16
  <2>1. 8 \in 1..Len(t) /\ 21 \in 1..Len(t) + 1 /\ 8 < 21
    BY <1>3
  <2>2. Begin(t, 21) - Begin(t, 8) \in 21 - 8..8 * (21 - 8)
    BY <1>3, <2>1, FieldsApart
  <2>3. Size["Ehdr"][c] = Begin(t, 20 + 1)
    BY <1>3, <1>4 DEF Size, Structures
  <2>4. Begin(t, 21) \in Nat
    BY <1>9
  <2> QED
    BY <1>10, <2>2, <2>3, <2>4
<1>16. /\ Settable \cup {"ei_class", "ei_data", "e_version", "e_ehsize",
            "e_phentsize", "e_shentsize", "e_phnum", "e_shnum"}
            \subseteq Names("Ehdr", c)
       /\ {"sh_type", "sh_size", "sh_offset", "sh_entsize"}
            \subseteq Names("Shdr", c)
  <2>1. /\ t[2][1] \in Names("Ehdr", c) /\ t[3][1] \in Names("Ehdr", c)
        /\ t[5][1] \in Names("Ehdr", c) /\ t[6][1] \in Names("Ehdr", c)
        /\ t[8][1] \in Names("Ehdr", c) /\ t[9][1] \in Names("Ehdr", c)
        /\ t[10][1] \in Names("Ehdr", c) /\ t[11][1] \in Names("Ehdr", c)
        /\ t[12][1] \in Names("Ehdr", c) /\ t[13][1] \in Names("Ehdr", c)
        /\ t[14][1] \in Names("Ehdr", c) /\ t[15][1] \in Names("Ehdr", c)
        /\ t[16][1] \in Names("Ehdr", c) /\ t[17][1] \in Names("Ehdr", c)
        /\ t[18][1] \in Names("Ehdr", c) /\ t[19][1] \in Names("Ehdr", c)
        /\ t[20][1] \in Names("Ehdr", c)
        /\ s[2][1] \in Names("Shdr", c) /\ s[5][1] \in Names("Shdr", c)
        /\ s[6][1] \in Names("Shdr", c) /\ s[10][1] \in Names("Shdr", c)
    BY <1>6, <1>7
  <2> QED
    BY <1>1, <1>2, <2>1 DEF Settable
<1> QED
  BY <1>13, <1>14, <1>15, <1>16
-----------------------------------------------------------------------------
(* The order of bytes                                                      *)

Encodings == {LSB, MSB}

(* What anyone does who reads a number from the file                       *)
Decode(e, b) == IF e = LSB THEN b ELSE Reverse(b)

LEMMA DecodeTwice ==
  ASSUME NEW b \in Strings, NEW e \in Encodings
  PROVE  /\ Decode(e, b) \in Strings /\ Len(Decode(e, b)) = Len(b)
         /\ Decode(e, Decode(e, b)) = b
<1>1. /\ Reverse(b) \in Strings /\ Len(Reverse(b)) = Len(b)
      /\ Reverse(Reverse(b)) = b
  BY ReverseTwice DEF Strings
<1> QED
  BY <1>1 DEF Decode

(* Numbers up to two bytes                                                 *)
TwoBytes == {n \in Nat : n < 65536}

LEMMA SmallNumber ==
  ASSUME NEW n \in Nat, n <= 160
  PROVE  n \in TwoBytes
BY SMT DEF TwoBytes

LEMMA NumberIs ==
  ASSUME NEW n \in TwoBytes
  PROVE  /\ Number(n) \in Strings /\ Len(Number(n)) = 8
         /\ Number(n)[1] = n % 256 /\ Number(n)[2] = n \div 256
         /\ \A k \in 3..8 : Number(n)[k] = 0
         /\ n = (n % 256) + 256 * (n \div 256)
<1> DEFINE a == n % 256
           b == n \div 256
           z == Zero(6)
<1>1. a \in Byte /\ b \in Byte /\ n = a + 256 * b
  BY SMT DEF Byte, TwoBytes
<1> HIDE DEF a, b
<1>2. z \in Strings /\ Len(z) = 6 /\ \A k \in 1..6 : z[k] = 0
  <2>1. z \in Bytes(6) /\ \A k \in 1..6 : z[k] = 0
    BY DEF Zero, Byte, Bytes
  <2> HIDE DEF z
  <2> QED
    BY <2>1, BytesAreStrings
<1> HIDE DEF z
<1>3. <<a, b>> \in Strings /\ Len(<<a, b>>) = 2
  BY <1>1 DEF Strings
<1> DEFINE w == <<a, b>> \o z
<1>4. /\ w \in Strings /\ Len(w) = 8
      /\ \A k \in 1..8 : w[k] = IF k <= 2 THEN <<a, b>>[k] ELSE z[k - 2]
  <2> DEFINE y == <<a, b>>
  <2>1. y \in Strings /\ Len(y) = 2
    BY <1>3
  <2> HIDE DEF y
  <2>2. /\ y \o z \in Strings /\ Len(y \o z) = Len(y) + Len(z)
        /\ \A k \in 1..Len(y) + Len(z) :
             (y \o z)[k] = IF k <= Len(y) THEN y[k] ELSE z[k - Len(y)]
    <3> HIDE DEF w
    <3> QED
      BY <1>2, <2>1, Joined
  <2>3. Len(y) = 2 /\ Len(z) = 6
    BY <1>2, <2>1
  <2> QED
    BY <2>2, <2>3 DEF y
<1> HIDE DEF w
<1>5. w[1] = a /\ w[2] = b
  BY <1>4
<1>6. ASSUME NEW k \in 3..8
      PROVE  w[k] = 0
  <2>1. k - 2 \in 1..6 /\ k \in 1..8 /\ ~(k <= 2)
    OBVIOUS
  <2> QED
    BY <1>2, <1>4, <2>1
<1> QED
  BY <1>1, <1>4, <1>5, <1>6 DEF Number, w, z, a, b

LEMMA ValueIs ==
  ASSUME NEW n \in TwoBytes, NEW w \in 2..8
  PROVE  Value(Part(Number(n), 0, w)) = n
<1> DEFINE v == Number(n)
           p == Part(v, 0, w)
<1>1. /\ v \in Strings /\ Len(v) = 8 /\ v[1] = n % 256 /\ v[2] = n \div 256
      /\ n = (n % 256) + 256 * (n \div 256)
  BY NumberIs
<1> HIDE DEF v
<1>2. \A k \in 1..w : p[k] = v[k]
  <2>1. w \in Nat /\ w <= Len(v)
    BY <1>1
  <2> QED
    BY <1>1, <2>1, Prefix, ZenonT(40)
<1> HIDE DEF p
<1>3. 1 \in 1..w /\ 2 \in 1..w
  OBVIOUS
<1>4. p[1] = v[1] /\ p[2] = v[2]
  BY <1>2, <1>3
<1>5. Value(p) = p[1] + 256 * p[2]
  BY DEF Value
<1>6. Value(p) = n
  BY <1>1, <1>4, <1>5
<1> QED
  BY <1>6 DEF p, v

LEMMA HostIs ==
  ASSUME host \in Encodings
  PROVE  HostEncoding = host
<1> DEFINE v == Narrow(Number(1), 4)
<1>1. /\ Number(1) \in Strings /\ Len(Number(1)) = 8
      /\ Number(1)[1] = 1 /\ Number(1)[4] = 0
  <2>1. 1 \in TwoBytes /\ 1 % 256 = 1
    BY SMT DEF TwoBytes
  <2> QED
    BY <2>1, NumberIs
<1>2. v = Part(Number(1), 0, 4)
  BY DEF Narrow, Part
<1>3. v \in Strings /\ Len(v) = 4 /\ v[1] = 1 /\ v[4] = 0
  <2>1. /\ v \in Strings /\ Len(v) = 4
        /\ \A k \in 1..4 : v[k] = Number(1)[k]
    <3> HIDE DEF v
    <3>1. Number(1) \in Strings /\ 4 \in Nat /\ 4 <= Len(Number(1))
      BY <1>1
    <3> QED
      BY <1>2, <3>1, Prefix
  <2> HIDE DEF v
  <2>2. v[1] = Number(1)[1] /\ v[4] = Number(1)[4]
    BY <2>1
  <2> QED
    BY <1>1, <2>1, <2>2
<1> HIDE DEF v
<1>4. Reverse(v)[1] = v[4]
  <2>1. \A k \in 1..Len(v) : Reverse(v)[k] = v[Len(v) - k + 1]
    BY <1>3, ReverseTwice DEF Strings
  <2>2. 1 \in 1..Len(v) /\ Len(v) - 1 + 1 = 4
    BY <1>3
  <2> QED
    BY <2>1, <2>2
<1>5. HostEncoding = IF InMemory(v)[1] = 1 THEN LSB ELSE MSB
  BY DEF HostEncoding, v
<1> QED
  BY <1>3, <1>4, <1>5 DEF InMemory, Encodings, LSB, MSB

(* The converter gives every host what the encoding says.                  *)
LEMMA Conversions ==
  ASSUME host \in Encodings, NEW e \in Encodings, NEW v \in Strings
  PROVE  /\ Convert(e # host, InMemory(v)) = Decode(e, v)
         /\ InMemory(Convert(e # host, v)) = Decode(e, v)
<1>1. Reverse(Reverse(v)) = v
  BY ReverseTwice DEF Strings
<1>2. CASE host = LSB
  BY <1>2 DEF Convert, InMemory, Decode
<1>3. CASE host = MSB
  <2>1. host # LSB
    BY <1>3 DEF LSB, MSB
  <2>2. CASE e = LSB
    <3>1. (e # host) = TRUE
      BY <2>1, <2>2
    <3> QED
      BY <1>1, <2>1, <2>2, <3>1 DEF Convert, InMemory, Decode
  <2>3. CASE e = MSB
    <3>1. (e # host) = FALSE /\ e # LSB
      BY <1>3, <2>1, <2>3
    <3> QED
      BY <2>1, <3>1 DEF Convert, InMemory, Decode
  <2> QED
    BY <2>2, <2>3 DEF Encodings
<1> QED
  BY <1>2, <1>3 DEF Encodings

LEMMA StoredIs ==
  ASSUME host \in Encodings, NEW e \in Encodings, NEW v \in Strings,
         NEW w \in Nat, w <= Len(v)
  PROVE  /\ Stored(e # host, v, w) = Decode(e, Part(v, 0, w))
         /\ Stored(e # host, v, w) \in Strings
         /\ Len(Stored(e # host, v, w)) = w
         /\ Decode(e, Stored(e # host, v, w)) = Part(v, 0, w)
<1> DEFINE p == Part(v, 0, w)
<1>1. p \in Strings /\ Len(p) = w
  BY PartTyped
<1>2. Narrow(v, w) = p
  BY DEF Narrow, Part
<1> HIDE DEF p
<1>3. Stored(e # host, v, w) = Decode(e, p)
  BY <1>1, <1>2, Conversions DEF Stored
<1> QED
  BY <1>1, <1>3, DecodeTwice DEF p

(* What a reader makes of a field                                          *)
Read(struct, what, c, e, f) == Decode(e, Field(struct, what, c, f))

LEMMA FieldIs ==
  ASSUME NEW what \in Structures, NEW c \in Classes, NEW struct \in Strings,
         Len(struct) = Size[what][c], NEW f \in Names(what, c)
  PROVE  /\ Field(struct, what, c, f)
              = Part(struct, At(what, c, f), Width(what, c, f))
         /\ Field(struct, what, c, f) \in Strings
         /\ Len(Field(struct, what, c, f)) = Width(what, c, f)
<1> DEFINE a == At(what, c, f)
           w == Width(what, c, f)
<1>1. /\ Place[what][c][f] = <<a + 1, w>> /\ a \in Nat /\ w \in 1..8
      /\ a + w <= Size[what][c]
  BY Places
<1> HIDE DEF a, w
<1>2. Field(struct, what, c, f) = SubSeq(struct, a + 1, (a + 1) + w - 1)
  BY <1>1 DEF Field
<1>3. (a + 1) + w - 1 = a + w
  BY <1>1
<1>4. Field(struct, what, c, f) = Part(struct, a, w)
  BY <1>2, <1>3 DEF Part
<1> QED
  BY <1>1, <1>4, PartTyped DEF a, w

LEMMA FieldSet ==
  ASSUME host \in Encodings, NEW e \in Encodings,
         NEW what \in Structures, NEW c \in Classes, NEW struct \in Strings,
         Len(struct) = Size[what][c], NEW f \in Names(what, c),
         NEW v \in Strings, Width(what, c, f) <= Len(v)
  PROVE  LET r == WithField(struct, what, c, f, v, e # host)
         IN /\ r \in Strings /\ Len(r) = Len(struct)
            /\ Read(r, what, c, e, f) = Part(v, 0, Width(what, c, f))
            /\ \A g \in Names(what, c) \ {f} :
                 Field(r, what, c, g) = Field(struct, what, c, g)
            /\ \A m \in Nat : m <= At(what, c, f) =>
                 Part(r, 0, m) = Part(struct, 0, m)
<1> DEFINE a == At(what, c, f)
           w == Width(what, c, f)
           x == Stored(e # host, v, w)
           r == WithField(struct, what, c, f, v, e # host)
<1>1. /\ Place[what][c][f] = <<a + 1, w>> /\ a \in Nat /\ w \in 1..8
      /\ a + w <= Size[what][c]
  BY Places
<1>2. x \in Strings /\ Len(x) = w /\ Decode(e, x) = Part(v, 0, w)
  BY <1>1, StoredIs
<1>3. r = Splice(struct, a, x)
  <2> HIDE DEF a, w
  <2>1. r = SubSeq(struct, 1, (a + 1) - 1) \o x
              \o SubSeq(struct, (a + 1) + w, Len(struct))
    <3> DEFINE p == Place[what][c][f]
    <3>1. p[1] = a + 1 /\ p[2] = w
      BY <1>1
    <3>2. r = SubSeq(struct, 1, p[1] - 1) \o Stored(e # host, v, p[2])
                \o SubSeq(struct, p[1] + p[2], Len(struct))
      BY DEF WithField
    <3> HIDE DEF p, r
    <3> QED
      BY <3>1, <3>2
  <2>2. (a + 1) - 1 = a /\ (a + 1) + w = a + w + 1
    BY <1>1
  <2> QED
    BY <1>2, <2>1, <2>2 DEF Splice
<1>4. /\ r \in Strings /\ Len(r) = Len(struct) /\ Part(r, a, w) = x
      /\ \A q, m \in Nat :
           (q + m <= Len(struct) /\ (q + m <= a \/ a + w <= q)) =>
             Part(r, q, m) = Part(struct, q, m)
  <2> HIDE DEF a, w, x, r
  <2> QED
    BY <1>1, <1>2, <1>3, SpliceParts, SMTT(30)
<1> HIDE DEF r, x
<1>5. Read(r, what, c, e, f) = Part(v, 0, w)
  <2>1. Field(r, what, c, f) = Part(r, a, w)
    BY <1>4, FieldIs
  <2> QED
    BY <1>2, <1>4, <2>1 DEF Read
<1>6. ASSUME NEW g \in Names(what, c) \ {f}
      PROVE  Field(r, what, c, g) = Field(struct, what, c, g)
  <2> DEFINE b == At(what, c, g)
             y == Width(what, c, g)
  <2>1. /\ Field(r, what, c, g) = Part(r, b, y)
        /\ Field(struct, what, c, g) = Part(struct, b, y)
    BY <1>4, FieldIs
  <2>2. /\ b \in Nat /\ y \in 1..8 /\ b + y <= Size[what][c]
        /\ (a + w <= b \/ b + y <= a)
    BY Places
  <2> HIDE DEF a, b, w, y
  <2>3. Part(r, b, y) = Part(struct, b, y)
    BY <1>4, <2>2
  <2> QED
    BY <2>1, <2>3
<1>7. ASSUME NEW m \in Nat, m <= a
      PROVE  Part(r, 0, m) = Part(struct, 0, m)
  <2> HIDE DEF a, w
  <2>1. 0 + m <= Len(struct) /\ 0 + m <= a
    BY <1>1, <1>7
  <2> QED
    BY <1>4, <2>1
<1> QED
  BY <1>4, <1>5, <1>6, <1>7 DEF r

LEMMA NumberSet ==
  ASSUME host \in Encodings, NEW e \in Encodings,
         NEW what \in Structures, NEW c \in Classes, NEW struct \in Strings,
         Len(struct) = Size[what][c], NEW f \in Names(what, c) \ OneByte,
         NEW n \in TwoBytes
  PROVE  LET r == WithField(struct, what, c, f, Number(n), e # host)
         IN /\ r \in Strings /\ Len(r) = Len(struct)
            /\ Value(Read(r, what, c, e, f)) = n
            /\ \A g \in Names(what, c) \ {f} :
                 Field(r, what, c, g) = Field(struct, what, c, g)
            /\ \A m \in Nat : m <= At(what, c, f) =>
                 Part(r, 0, m) = Part(struct, 0, m)
<1>1. Width(what, c, f) \in 2..8
  BY Places
<1>2. Number(n) \in Strings /\ Len(Number(n)) = 8
  BY NumberIs
<1>3. Width(what, c, f) <= Len(Number(n))
  BY <1>1, <1>2
<1>4. Value(Part(Number(n), 0, Width(what, c, f))) = n
  BY <1>1, ValueIs
<1> DEFINE v == Number(n)
           r == WithField(struct, what, c, f, v, e # host)
<1>5. /\ r \in Strings /\ Len(r) = Len(struct)
      /\ Read(r, what, c, e, f) = Part(v, 0, Width(what, c, f))
      /\ \A g \in Names(what, c) \ {f} :
           Field(r, what, c, g) = Field(struct, what, c, g)
      /\ \A m \in Nat : m <= At(what, c, f) =>
           Part(r, 0, m) = Part(struct, 0, m)
  <2>1. v \in Strings /\ Width(what, c, f) <= Len(v) /\ f \in Names(what, c)
    BY <1>2, <1>3
  <2> HIDE DEF v
  <2> QED
    BY <2>1, FieldSet
<1> HIDE DEF r
<1>6. Value(Read(r, what, c, e, f)) = n
  BY <1>4, <1>5
<1> QED
  BY <1>5, <1>6 DEF r
-----------------------------------------------------------------------------
(* Headers                                                                 *)

(* A header of class c and encoding e                                      *)
Start(h, c, e) ==
  /\ h \in Strings /\ Len(h) = Size["Ehdr"][c]
  /\ Part(h, 0, 4) = Magic /\ h[5] = c /\ h[6] = e

LEMMA StartKept ==
  ASSUME host \in Encodings, NEW c \in Classes, NEW e \in Encodings, NEW h,
         Start(h, c, e),
         NEW f \in Names("Ehdr", c) \ {"ei_mag", "ei_class", "ei_data"},
         NEW v \in Strings, Width("Ehdr", c, f) <= Len(v)
  PROVE  LET r == WithField(h, "Ehdr", c, f, v, e # host)
         IN /\ Start(r, c, e)
            /\ Read(r, "Ehdr", c, e, f) = Part(v, 0, Width("Ehdr", c, f))
            /\ \A g \in Names("Ehdr", c) \ {f} :
                 Read(r, "Ehdr", c, e, g) = Read(h, "Ehdr", c, e, g)
<1> DEFINE r == WithField(h, "Ehdr", c, f, v, e # host)
<1>1. /\ h \in Strings /\ Len(h) = Size["Ehdr"][c]
      /\ Part(h, 0, 4) = Magic /\ h[5] = c /\ h[6] = e
  BY DEF Start
<1>2. "Ehdr" \in Structures /\ f \in Names("Ehdr", c)
  BY DEF Structures
<1>3. /\ r \in Strings /\ Len(r) = Len(h)
      /\ Read(r, "Ehdr", c, e, f) = Part(v, 0, Width("Ehdr", c, f))
      /\ \A g \in Names("Ehdr", c) \ {f} :
           Field(r, "Ehdr", c, g) = Field(h, "Ehdr", c, g)
      /\ \A m \in Nat : m <= At("Ehdr", c, f) => Part(r, 0, m) = Part(h, 0, m)
  BY <1>1, <1>2, FieldSet
<1> HIDE DEF r
<1>4. At("Ehdr", c, f) >= 6 /\ At("Ehdr", c, f) \in Nat
  <2>1. At("Ehdr", c, f) >= 6
    BY HeaderNames
  <2>2. At("Ehdr", c, f) \in Nat
    BY <1>2, Places
  <2> QED
    BY <2>1, <2>2
<1>5. Part(r, 0, 6) = Part(h, 0, 6) /\ Part(r, 0, 4) = Part(h, 0, 4)
  BY <1>3, <1>4
<1>6. Size["Ehdr"][c] >= 16 /\ Size["Ehdr"][c] \in Nat
  <2>1. Size["Ehdr"][c] >= 16
    BY HeaderNames
  <2>2. IsSize(Size["Ehdr"][c])
    BY <1>2, Places
  <2> QED
    BY <2>1, <2>2 DEF IsSize
<1>7. \A k \in 1..6 : Part(r, 0, 6)[k] = r[k] /\ Part(h, 0, 6)[k] = h[k]
  <2>1. 6 <= Len(r) /\ 6 <= Len(h)
    BY <1>1, <1>3, <1>6
  <2> QED
    BY <1>1, <1>3, <2>1, Prefix
<1>8. r[5] = h[5] /\ r[6] = h[6]
  BY <1>5, <1>7
<1>9. Start(r, c, e)
  BY <1>1, <1>3, <1>5, <1>8 DEF Start
<1> QED
  BY <1>3, <1>9 DEF r, Read

LEMMA StartNumber ==
  ASSUME host \in Encodings, NEW c \in Classes, NEW e \in Encodings, NEW h,
         Start(h, c, e),
         NEW f \in Names("Ehdr", c) \ ({"ei_mag"} \cup OneByte), NEW n \in TwoBytes
  PROVE  LET r == WithField(h, "Ehdr", c, f, Number(n), e # host)
         IN /\ Start(r, c, e) /\ Value(Read(r, "Ehdr", c, e, f)) = n
            /\ \A g \in Names("Ehdr", c) \ {f} :
                 Read(r, "Ehdr", c, e, g) = Read(h, "Ehdr", c, e, g)
<1> DEFINE v == Number(n)
           w == Width("Ehdr", c, f)
<1>1. w \in 2..8
  <2>1. "Ehdr" \in Structures /\ f \in Names("Ehdr", c) /\ f \notin OneByte
    BY DEF Structures
  <2>2. w \in 1..8 /\ w >= 2
    BY <2>1, Places
  <2> HIDE DEF w
  <2> QED
    BY <2>2
<1>2. v \in Strings /\ w <= Len(v)
  BY <1>1, NumberIs
<1>3. Value(Part(v, 0, w)) = n
  BY <1>1, ValueIs
<1>4. f \in Names("Ehdr", c) \ {"ei_mag", "ei_class", "ei_data"}
  BY DEF OneByte
<1> DEFINE r == WithField(h, "Ehdr", c, f, v, e # host)
<1>5. /\ Start(r, c, e) /\ Read(r, "Ehdr", c, e, f) = Part(v, 0, w)
      /\ \A g \in Names("Ehdr", c) \ {f} :
           Read(r, "Ehdr", c, e, g) = Read(h, "Ehdr", c, e, g)
  <2> HIDE DEF v
  <2> QED
    BY <1>2, <1>4, StartKept
<1> HIDE DEF r
<1>6. Value(Read(r, "Ehdr", c, e, f)) = n
  BY <1>3, <1>5
<1> QED
  BY <1>5, <1>6 DEF r

(* A header that states the sizes of the structures of its class           *)
Header(h) ==
  /\ h[5] \in Classes /\ h[6] \in Encodings /\ Start(h, h[5], h[6])
  /\ Value(Read(h, "Ehdr", h[5], h[6], "e_ehsize")) = Size["Ehdr"][h[5]]
  /\ Value(Read(h, "Ehdr", h[5], h[6], "e_shentsize")) = Size["Shdr"][h[5]]

LEMMA NewHeaderIs ==
  ASSUME host \in Encodings, NEW c \in Classes, NEW e \in Encodings
  PROVE  LET h == NewHeader(c, e, e # host)
         IN Header(h) /\ h[5] = c /\ h[6] = e
<1> DEFINE ident == <<127, 69, 76, 70>> \o <<c, e, 1>>
           size == Size["Ehdr"][c]
           zeros == Zero(size - 7)
           blank == ident \o zeros
<1>1. /\ IsSize(size) /\ IsSize(Size["Phdr"][c]) /\ IsSize(Size["Shdr"][c])
      /\ size >= 16
  BY HeaderNames, Places DEF Structures
<1>2. /\ 1 \in TwoBytes /\ size \in TwoBytes /\ Size["Phdr"][c] \in TwoBytes
      /\ Size["Shdr"][c] \in TwoBytes
  <2>1. \A n \in Nat : n <= 160 => n \in TwoBytes
    BY SmallNumber
  <2> HIDE DEF size
  <2> QED
    BY <1>1, <2>1 DEF IsSize
<1>3. /\ ident \in Strings /\ Len(ident) = 7
      /\ ident[1] = 127 /\ ident[2] = 69 /\ ident[3] = 76 /\ ident[4] = 70
      /\ ident[5] = c /\ ident[6] = e
  <2> DEFINE m == <<127, 69, 76, 70>>
             o == <<c, e, 1>>
  <2>1. c \in Byte /\ e \in Byte /\ {127, 69, 76, 70, 1} \subseteq Byte
    BY DEF Classes, Encodings, LSB, MSB, Class32, Class64, Byte
  <2>2. m \in Strings /\ o \in Strings /\ Len(m) = 4 /\ Len(o) = 3
    BY <2>1 DEF Strings
  <2>3. m[1] = 127 /\ m[2] = 69 /\ m[3] = 76 /\ m[4] = 70 /\ o[1] = c /\ o[2] = e
    OBVIOUS
  <2>4. ident = m \o o
    OBVIOUS
  <2> HIDE DEF m, o, ident
  <2>5. /\ m \o o \in Strings /\ Len(m \o o) = Len(m) + Len(o)
        /\ \A k \in 1..Len(m) + Len(o) :
             (m \o o)[k] = IF k <= Len(m) THEN m[k] ELSE o[k - Len(m)]
    BY <2>2, Joined
  <2>6. \A k \in 1..7 : ident[k] = IF k <= 4 THEN m[k] ELSE o[k - 4]
    BY <2>2, <2>4, <2>5
  <2> QED
    BY <2>2, <2>3, <2>4, <2>5, <2>6
<1> HIDE DEF ident
<1>5. zeros \in Strings /\ Len(zeros) = size - 7
  <2>1. size - 7 \in Nat
    BY <1>1 DEF IsSize
  <2>2. zeros \in Bytes(size - 7)
    BY DEF Zero, Bytes, Byte
  <2> HIDE DEF zeros, size
  <2> QED
    BY <2>1, <2>2, BytesAreStrings
<1> HIDE DEF zeros
<1>6. /\ blank \in Strings /\ Len(blank) = size
      /\ \A k \in 1..7 : blank[k] = ident[k]
  <2>1. /\ blank \in Strings /\ Len(blank) = Len(ident) + Len(zeros)
        /\ \A k \in 1..Len(ident) + Len(zeros) :
             blank[k] = IF k <= Len(ident) THEN ident[k] ELSE zeros[k - Len(ident)]
    <3> DEFINE x == ident \o zeros
    <3>1. /\ x \in Strings /\ Len(x) = Len(ident) + Len(zeros)
          /\ \A k \in 1..Len(ident) + Len(zeros) :
               x[k] = IF k <= Len(ident) THEN ident[k] ELSE zeros[k - Len(ident)]
      <4> HIDE DEF size
      <4>1. ident \in Strings /\ zeros \in Strings
        BY <1>3, <1>5
      <4> QED
        BY <4>1, Joined
    <3> QED
      BY <3>1
  <2> HIDE DEF blank, size
  <2> QED
    BY <1>1, <1>3, <1>5, <2>1 DEF IsSize
<1>7. Start(blank, c, e)
  <2> DEFINE p == Part(blank, 0, 4)
  <2>1. p \in Strings /\ Len(p) = 4 /\ \A k \in 1..4 : p[k] = blank[k]
    <3> HIDE DEF blank, size
    <3>1. 4 <= Len(blank)
      BY <1>1, <1>6
    <3> QED
      BY <1>6, <3>1, Prefix
  <2> HIDE DEF p, blank
  <2>2. p[1] = 127 /\ p[2] = 69 /\ p[3] = 76 /\ p[4] = 70
    BY <1>3, <1>6, <2>1
  <2>3. Magic \in Seq(Byte) /\ Len(Magic) = 4
    BY DEF Magic, Byte
  <2>4. \A k \in 1..4 : p[k] = Magic[k]
    BY <2>2 DEF Magic
  <2>5. p = Magic
    BY <2>1, <2>3, <2>4, SeqEqual DEF Strings
  <2>6. blank[5] = c /\ blank[6] = e
    BY <1>3, <1>6
  <2> QED
    BY <1>6, <2>5, <2>6 DEF Start, p
<1> HIDE DEF blank
<1> DEFINE with(struct, f, n) ==
             WithField(struct, "Ehdr", c, f, Number(n), e # host)
           h1 == with(blank, "e_version", 1)
           h2 == with(h1, "e_ehsize", size)
           h3 == with(h2, "e_shstrndx", 1)
           h4 == with(h3, "e_phentsize", Size["Phdr"][c])
           h5 == with(h4, "e_shentsize", Size["Shdr"][c])
<1>8. /\ {"e_version", "e_ehsize", "e_shstrndx", "e_phentsize", "e_shentsize"}
           \subseteq Names("Ehdr", c) \ ({"ei_mag"} \cup OneByte)
  BY HeaderNames DEF OneByte, Settable
<1>9. Start(h1, c, e)
  BY <1>2, <1>7, <1>8, StartNumber
<1> HIDE DEF h1
<1>10. Start(h2, c, e) /\ Value(Read(h2, "Ehdr", c, e, "e_ehsize")) = size
  BY <1>2, <1>8, <1>9, StartNumber
<1> HIDE DEF h2
<1>11. /\ Start(h3, c, e)
       /\ Read(h3, "Ehdr", c, e, "e_ehsize") = Read(h2, "Ehdr", c, e, "e_ehsize")
  BY <1>2, <1>8, <1>10, StartNumber
<1> HIDE DEF h3
<1>12. /\ Start(h4, c, e)
       /\ Read(h4, "Ehdr", c, e, "e_ehsize") = Read(h3, "Ehdr", c, e, "e_ehsize")
  BY <1>2, <1>8, <1>11, StartNumber
<1> HIDE DEF h4
<1>13. /\ Start(h5, c, e)
       /\ Value(Read(h5, "Ehdr", c, e, "e_shentsize")) = Size["Shdr"][c]
       /\ Read(h5, "Ehdr", c, e, "e_ehsize") = Read(h4, "Ehdr", c, e, "e_ehsize")
  BY <1>2, <1>8, <1>12, StartNumber
<1>14. NewHeader(c, e, e # host) = h5
  <2>1. Len(Magic \o <<c, e, 1>>) = 7 /\ Magic \o <<c, e, 1>> = ident
    BY <1>3 DEF Magic, ident
  <2> QED
    BY <2>1 DEF NewHeader, h4, h3, h2, h1, blank, zeros
<1> HIDE DEF h5
<1>15. h5[5] = c /\ h5[6] = e
  BY <1>13 DEF Start
<1>16. Header(h5)
  BY <1>10, <1>11, <1>12, <1>13, <1>15 DEF Header
<1> QED
  BY <1>14, <1>15, <1>16

(* What a setter, or save(), leaves of a header                            *)
LEMMA HeaderSet ==
  ASSUME host \in Encodings, NEW h, Header(h),
         NEW f \in Names("Ehdr", h[5])
                     \ {"ei_mag", "ei_class", "ei_data", "e_ehsize", "e_shentsize"},
         NEW v \in Strings, Width("Ehdr", h[5], f) <= Len(v)
  PROVE  LET r == WithField(h, "Ehdr", h[5], f, v, h[6] # host)
         IN Header(r) /\ r[5] = h[5] /\ r[6] = h[6]
<1> DEFINE c == h[5]
           e == h[6]
           r == WithField(h, "Ehdr", c, f, v, e # host)
<1>1. /\ c \in Classes /\ e \in Encodings /\ Start(h, c, e)
      /\ Value(Read(h, "Ehdr", c, e, "e_ehsize")) = Size["Ehdr"][c]
      /\ Value(Read(h, "Ehdr", c, e, "e_shentsize")) = Size["Shdr"][c]
  BY DEF Header
<1> HIDE DEF c, e
<1>2. {"e_ehsize", "e_shentsize"} \subseteq Names("Ehdr", c)
  BY <1>1, HeaderNames
<1>3. /\ Start(r, c, e)
      /\ \A g \in Names("Ehdr", c) \ {f} :
           Read(r, "Ehdr", c, e, g) = Read(h, "Ehdr", c, e, g)
  <2>1. f \in Names("Ehdr", c) \ {"ei_mag", "ei_class", "ei_data"}
    BY DEF c
  <2>2. Width("Ehdr", c, f) <= Len(v)
    BY DEF c
  <2> HIDE DEF r
  <2> QED
    BY <1>1, <2>1, <2>2, StartKept DEF r
<1> HIDE DEF r
<1>4. r[5] = c /\ r[6] = e
  BY <1>3 DEF Start
<1>5. Header(r)
  BY <1>1, <1>2, <1>3, <1>4 DEF Header
<1> QED
  BY <1>4, <1>5 DEF r, c, e

LEMMA LaidIs ==
  ASSUME host \in Encodings, Header(header), need_conversion = (header[6] # host),
         NEW n, n = Size["Ehdr"][header[5]] + Len(data), n \in TwoBytes
  PROVE  LET r == Laid(header)
         IN /\ Header(r) /\ r[5] = header[5] /\ r[6] = header[6]
            /\ Value(Read(r, "Ehdr", r[5], r[6], "e_shnum"))
                 = IF kind = "none" THEN 0 ELSE 1
            /\ Value(Read(r, "Ehdr", r[5], r[6], "e_shoff")) = n
<1> DEFINE c == header[5]
           e == header[6]
           with(struct, f, m) ==
             WithField(struct, "Ehdr", c, f, Number(m), e # host)
           num == IF kind = "none" THEN 0 ELSE 1
           h1 == with(header, "e_phnum", 0)
           h2 == with(h1, "e_phoff", 0)
           h3 == with(h2, "e_shnum", num)
           h4 == with(h3, "e_shoff", n)
<1>1. Laid(header) = h4
  BY DEF Laid, Class
<1>2. /\ c \in Classes /\ e \in Encodings /\ Start(header, c, e)
      /\ Value(Read(header, "Ehdr", c, e, "e_ehsize")) = Size["Ehdr"][c]
      /\ Value(Read(header, "Ehdr", c, e, "e_shentsize")) = Size["Shdr"][c]
  BY DEF Header
<1>3. 0 \in TwoBytes /\ num \in TwoBytes
  <2>1. num \in Nat /\ num <= 160 /\ 0 \in Nat
    OBVIOUS
  <2> QED
    BY <2>1, SmallNumber
<1> HIDE DEF c, e, num
<1>4. /\ {"e_phnum", "e_phoff", "e_shnum", "e_shoff"}
           \subseteq Names("Ehdr", c) \ ({"ei_mag"} \cup OneByte)
      /\ {"e_ehsize", "e_shentsize"} \subseteq Names("Ehdr", c)
  BY <1>2, HeaderNames DEF OneByte, Settable
<1> DEFINE Kept(r, s) ==
             /\ Start(r, c, e)
             /\ Read(r, "Ehdr", c, e, "e_ehsize") = Read(s, "Ehdr", c, e, "e_ehsize")
             /\ Read(r, "Ehdr", c, e, "e_shentsize")
                  = Read(s, "Ehdr", c, e, "e_shentsize")
<1>5. Kept(h1, header)
  BY <1>2, <1>3, <1>4, StartNumber
<1> HIDE DEF h1
<1>6. Kept(h2, h1)
  BY <1>2, <1>3, <1>4, <1>5, StartNumber
<1> HIDE DEF h2
<1>7. Kept(h3, h2) /\ Value(Read(h3, "Ehdr", c, e, "e_shnum")) = num
  BY <1>2, <1>3, <1>4, <1>6, StartNumber
<1> HIDE DEF h3
<1>8. /\ Kept(h4, h3) /\ Value(Read(h4, "Ehdr", c, e, "e_shoff")) = n
      /\ Read(h4, "Ehdr", c, e, "e_shnum") = Read(h3, "Ehdr", c, e, "e_shnum")
  BY <1>2, <1>3, <1>4, <1>7, StartNumber
<1> HIDE DEF h4
<1>9. h4[5] = c /\ h4[6] = e
  BY <1>8 DEF Start
<1>10. Header(h4)
  BY <1>2, <1>5, <1>6, <1>7, <1>8, <1>9 DEF Header
<1> QED
  BY <1>1, <1>7, <1>8, <1>9, <1>10 DEF c, e, num

(* A field of nothing but zeros                                            *)
LEMMA BlankIs ==
  ASSUME NEW what \in Structures, NEW c \in Classes, NEW e \in Encodings
  PROVE  LET z == Blank(what, c)
         IN /\ z \in Strings /\ Len(z) = Size[what][c]
            /\ \A f \in Names(what, c) \ OneByte : Value(Read(z, what, c, e, f)) = 0
<1> DEFINE n == Size[what][c]
           z == Blank(what, c)
<1>1. IsSize(n)
  BY Places
<1>2. z \in Bytes(n) /\ \A k \in 1..n : z[k] = 0
  BY DEF Blank, Zero, Bytes, Byte
<1> HIDE DEF n, z
<1>3. z \in Strings /\ Len(z) = n
  BY <1>1, <1>2, BytesAreStrings DEF IsSize
<1>4. ASSUME NEW f \in Names(what, c) \ OneByte
      PROVE  Value(Read(z, what, c, e, f)) = 0
  <2> DEFINE a == At(what, c, f)
             w == Width(what, c, f)
             x == Field(z, what, c, f)
             y == Reverse(x)
  <2>1. a \in Nat /\ w \in 2..8 /\ a + w <= n
    BY Places DEF n
  <2>2. x = Part(z, a, w) /\ x \in Strings /\ Len(x) = w
    BY <1>3, FieldIs DEF n
  <2> HIDE DEF a, w, x
  <2>3. \A k \in 1..w : x[k] = 0
    <3>1. \A k \in 1..w : x[k] = z[a + k]
      <4>1. w \in Nat /\ a + w <= Len(z)
        BY <1>3, <2>1
      <4> QED
        BY <1>3, <2>1, <2>2, <4>1, PartTyped
    <3>2. \A k \in 1..w : a + k \in 1..n
      BY <1>1, <2>1 DEF IsSize
    <3> QED
      BY <1>2, <3>1, <3>2
  <2>4. \A k \in 1..Len(x) : y[k] = x[Len(x) - k + 1]
    BY <2>2, ReverseTwice DEF Strings
  <2> HIDE DEF y
  <2>5. x[1] = 0 /\ x[2] = 0 /\ y[1] = 0 /\ y[2] = 0
    <3>1. 1 \in 1..w /\ 2 \in 1..w /\ w - 1 + 1 \in 1..w /\ w - 2 + 1 \in 1..w
      BY <2>1
    <3> QED
      BY <2>2, <2>3, <2>4, <3>1
  <2>6. Value(x) = 0 /\ Value(y) = 0
    BY <2>5 DEF Value
  <2> QED
    BY <2>6 DEF Read, Decode, x, y
<1> QED
  BY <1>3, <1>4 DEF n, z
-----------------------------------------------------------------------------
(* Files                                                                   *)

LEMMA EmptyIs ==
  /\ <<>> \in Strings /\ Len(<<>>) = 0
  /\ \A s \in Strings : Len(s) = 0 => s = <<>>
BY EmptySeq DEF Strings

LEMMA MaxOfTwo ==
  ASSUME NEW x \in Int
  PROVE  Max({0, x}) = IF x > 0 THEN x ELSE 0
<1>1. \E y \in {0, x} : \A z \in {0, x} : y >= z
  OBVIOUS
<1>2. Max({0, x}) \in {0, x} /\ \A z \in {0, x} : Max({0, x}) >= z
  BY <1>1 DEF Max
<1> QED
  BY <1>2

(* What a file is after bytes were written into it                         *)
LEMMA WrittenIs ==
  ASSUME NEW file \in Strings, NEW pos \in Nat, NEW bytes \in Strings
  PROVE  LET r == Written(file, pos, bytes)
             end == pos + Len(bytes)
         IN /\ r \in Strings
            /\ Len(r) = IF end > Len(file) THEN end ELSE Len(file)
            /\ \A k \in 1..Len(r) :
                 r[k] = IF pos < k /\ k <= end THEN bytes[k - pos]
                        ELSE IF k <= Len(file) THEN file[k] ELSE 0
<1> DEFINE r == Written(file, pos, bytes)
           end == pos + Len(bytes)
           n == Len(file)
           x == Max({0, pos - n})
           long == file \o Zero(x)
           m == Len(long)
<1>1. n \in Nat /\ Len(bytes) \in Nat
  BY LenProperties DEF Strings
<1>2. x \in Nat /\ x = IF pos > n THEN pos - n ELSE 0
  <2>1. pos - n \in Int
    BY <1>1
  <2>2. x = IF pos - n > 0 THEN pos - n ELSE 0
    BY <2>1, MaxOfTwo
  <2> HIDE DEF x, n
  <2> QED
    BY <1>1, <2>2
<1>3. r = SubSeq(long, 1, pos) \o bytes \o SubSeq(long, pos + Len(bytes) + 1, m)
  BY DEF Written
<1> HIDE DEF x, r
<1>4. /\ long \in Strings /\ m = n + x
      /\ \A k \in 1..n + x : long[k] = IF k <= n THEN file[k] ELSE 0
  <2> DEFINE z == Zero(x)
  <2>1. z \in Bytes(x) /\ \A k \in 1..x : z[k] = 0
    BY DEF Zero, Bytes, Byte
  <2>2. z \in Strings /\ Len(z) = x
    <3> HIDE DEF z
    <3> QED
      BY <1>2, <2>1, BytesAreStrings
  <2> HIDE DEF z
  <2>3. /\ file \o z \in Strings /\ Len(file \o z) = Len(file) + Len(z)
        /\ \A k \in 1..Len(file) + Len(z) :
             (file \o z)[k] = IF k <= Len(file) THEN file[k] ELSE z[k - Len(file)]
    BY <2>2, Joined
  <2>4. ASSUME NEW k \in 1..n + x
        PROVE  (file \o z)[k] = IF k <= n THEN file[k] ELSE 0
    <3>1. (file \o z)[k] = IF k <= n THEN file[k] ELSE z[k - n]
      BY <2>2, <2>3
    <3>2. ~(k <= n) => k - n \in 1..x
      BY <1>1, <1>2
    <3> QED
      BY <2>1, <3>1, <3>2
  <2> QED
    BY <2>2, <2>3, <2>4 DEF z
<1> HIDE DEF long, m
<1>5. n <= m /\ pos <= m /\ m \in Nat
  BY <1>1, <1>2, <1>4
<1>6. CASE end <= m
  <2>1. r = Splice(long, pos, bytes)
    BY <1>3 DEF Splice, m
  <2>2. pos + Len(bytes) <= Len(long)
    BY <1>6 DEF m
  <2>3. /\ r \in Strings /\ Len(r) = m
        /\ \A k \in 1..m :
             r[k] = IF pos < k /\ k <= pos + Len(bytes) THEN bytes[k - pos]
                    ELSE long[k]
    BY <1>4, <2>1, <2>2, Spliced DEF m
  <2>4. Len(r) = IF end > n THEN end ELSE n
    BY <1>1, <1>2, <1>4, <1>5, <1>6, <2>3
  <2>5. ASSUME NEW k \in 1..Len(r)
        PROVE  r[k] = IF pos < k /\ k <= end THEN bytes[k - pos]
                      ELSE IF k <= n THEN file[k] ELSE 0
    <3>1. k \in 1..m /\ k \in 1..n + x
      BY <1>4, <2>3
    <3>2. long[k] = IF k <= n THEN file[k] ELSE 0
      BY <1>4, <3>1
    <3>3. r[k] = IF pos < k /\ k <= end THEN bytes[k - pos] ELSE long[k]
      BY <2>3, <3>1
    <3> QED
      BY <3>2, <3>3
  <2> QED
    BY <2>3, <2>4, <2>5 DEF r, n
<1>7. CASE end > m
  <2> DEFINE a == Part(long, 0, pos)
             y == SubSeq(long, pos + Len(bytes) + 1, m)
  <2>1. a \in Strings /\ Len(a) = pos /\ \A k \in 1..pos : a[k] = long[k]
    <3>1. pos <= Len(long)
      BY <1>5 DEF m
    <3> HIDE DEF a
    <3> QED
      BY <1>4, <3>1, Prefix DEF a
  <2>2. y = <<>>
    <3>1. m < pos + Len(bytes) + 1 /\ pos + Len(bytes) + 1 \in Nat /\ m \in Nat
      BY <1>1, <1>5, <1>7
    <3> QED
      BY <1>4, <3>1, SubSeqEmpty DEF Strings
  <2> DEFINE b == a \o bytes
  <2>3. r = b \o y
    <3>1. 0 + 1 = 1 /\ 0 + pos = pos
      OBVIOUS
    <3>2. a = SubSeq(long, 1, pos)
      BY <3>1 DEF Part
    <3> HIDE DEF a, y
    <3> QED
      BY <1>3, <3>2 DEF y
  <2> HIDE DEF a, y
  <2>4. /\ b \in Strings /\ Len(b) = Len(a) + Len(bytes)
        /\ \A k \in 1..Len(a) + Len(bytes) :
             b[k] = IF k <= Len(a) THEN a[k] ELSE bytes[k - Len(a)]
    <3> DEFINE q == a \o bytes
    <3>1. /\ q \in Strings /\ Len(q) = Len(a) + Len(bytes)
          /\ \A k \in 1..Len(a) + Len(bytes) :
               q[k] = IF k <= Len(a) THEN a[k] ELSE bytes[k - Len(a)]
      BY <2>1, Joined
    <3> QED
      BY <3>1
  <2> HIDE DEF b
  <2>5. r = b
    BY <2>2, <2>3, <2>4, ConcatEmptySeq DEF Strings
  <2>6. Len(r) = end /\ end > n
    BY <1>1, <1>5, <1>7, <2>1, <2>4, <2>5
  <2>7. ASSUME NEW k \in 1..Len(r)
        PROVE  r[k] = IF pos < k /\ k <= end THEN bytes[k - pos]
                      ELSE IF k <= n THEN file[k] ELSE 0
    <3>1. r[k] = IF k <= pos THEN a[k] ELSE bytes[k - pos]
      BY <2>1, <2>4, <2>5
    <3>2. k <= pos => a[k] = IF k <= n THEN file[k] ELSE 0
      BY <1>4, <1>5, <2>1
    <3> QED
      BY <1>1, <2>6, <3>1, <3>2
  <2> QED
    BY <2>4, <2>5, <2>6, <2>7 DEF r, n
<1> QED
  BY <1>1, <1>5, <1>6, <1>7

(* A file of three structures, one after the other                         *)
IsFile(file, h, d, s) ==
  /\ file \in Strings /\ Len(file) = Len(h) + Len(d) + Len(s)
  /\ Part(file, Len(h), Len(d)) = d
  /\ Part(file, Len(h) + Len(d), Len(s)) = s
  /\ \A q, m \in Nat : q + m <= Len(h) => Part(file, q, m) = Part(h, q, m)
  /\ \A k \in 1..Len(h) : file[k] = h[k]
  /\ \A k \in 1..Len(d) : file[Len(h) + k] = d[k]
  /\ \A k \in 1..Len(s) : file[Len(h) + Len(d) + k] = s[k]

LEMMA FileParts ==
  ASSUME NEW h \in Strings, NEW d \in Strings, NEW s \in Strings
  PROVE  IsFile(h \o d \o s, h, d, s)
<1> DEFINE a == h \o d
           file == a \o s
<1>1. Len(h) \in Nat /\ Len(d) \in Nat /\ Len(s) \in Nat
  BY LenProperties DEF Strings
<1>2. /\ a \in Strings /\ Len(a) = Len(h) + Len(d)
      /\ Part(a, Len(h), Len(d)) = d
      /\ \A q, m \in Nat : q + m <= Len(h) => Part(a, q, m) = Part(h, q, m)
  BY ConcatParts
<1> HIDE DEF a
<1>3. /\ file \in Strings /\ Len(file) = Len(a) + Len(s)
      /\ Part(file, Len(a), Len(s)) = s
      /\ \A q, m \in Nat : q + m <= Len(a) => Part(file, q, m) = Part(a, q, m)
  <2> DEFINE x == a \o s
  <2>1. /\ x \in Strings /\ Len(x) = Len(a) + Len(s)
        /\ Part(x, Len(a), Len(s)) = s
        /\ \A q, m \in Nat : q + m <= Len(a) => Part(x, q, m) = Part(a, q, m)
    BY <1>2, ConcatParts, ZenonT(40)
  <2> QED
    BY <2>1
<1> HIDE DEF file
<1>4. Part(file, Len(h), Len(d)) = d
  BY <1>1, <1>2, <1>3
<1>5. \A q, m \in Nat : q + m <= Len(h) => Part(file, q, m) = Part(h, q, m)
  BY <1>1, <1>2, <1>3
<1>6. Len(file) = Len(h) + Len(d) + Len(s)
  BY <1>1, <1>2, <1>3
<1>7. \A k \in 1..Len(h) : file[k] = h[k]
  <2>1. Part(file, 0, Len(h)) = Part(h, 0, Len(h))
    BY <1>1, <1>5
  <2>2. \A k \in 1..Len(h) : Part(file, 0, Len(h))[k] = file[k]
    <3>1. Len(h) <= Len(file)
      BY <1>1, <1>6
    <3> QED
      BY <1>1, <1>3, <3>1, Prefix
  <2>3. \A k \in 1..Len(h) : Part(h, 0, Len(h))[k] = h[k]
    BY <1>1, Prefix
  <2> QED
    BY <2>1, <2>2, <2>3
<1>8. \A k \in 1..Len(d) : file[Len(h) + k] = d[k]
  <2>1. Len(h) + Len(d) <= Len(file)
    BY <1>1, <1>6
  <2>2. \A k \in 1..Len(d) : Part(file, Len(h), Len(d))[k] = file[Len(h) + k]
    BY <1>1, <1>3, <2>1, PartTyped, ZenonT(40)
  <2> QED
    BY <1>4, <2>2
<1>9. \A k \in 1..Len(s) : file[Len(h) + Len(d) + k] = s[k]
  <2>1. Len(a) + Len(s) <= Len(file) /\ Len(a) \in Nat
    BY <1>1, <1>2, <1>3
  <2>2. \A k \in 1..Len(s) : file[Len(a) + k] = s[k]
    <3>1. \A k \in 1..Len(s) : Part(file, Len(a), Len(s))[k] = file[Len(a) + k]
      BY <1>1, <1>3, <2>1, PartTyped
    <3> QED
      BY <1>3, <3>1
  <2> QED
    BY <1>2, <2>2
<1> QED
  BY <1>2, <1>3, <1>4, <1>5, <1>6, <1>7, <1>8, <1>9 DEF file, a, IsFile

(* The order in which save() writes the structures does not matter.        *)
LEMMA SavedFile ==
  ASSUME NEW h \in Strings, NEW d \in Strings, NEW s \in Strings
  PROVE  /\ Written(<<>>, 0, h) = h
         /\ Written(Written(h, Len(h) + Len(d), s), Len(h), d) = h \o d \o s
<1> DEFINE L == Len(h)
           M == Len(d)
           N == Len(s)
<1>1. L \in Nat /\ M \in Nat /\ N \in Nat
  BY LenProperties DEF Strings
<1>2. Written(<<>>, 0, h) = h
  <2> DEFINE r == Written(<<>>, 0, h)
  <2>1. /\ r \in Strings /\ Len(r) = IF 0 + L > Len(<<>>) THEN 0 + L ELSE Len(<<>>)
        /\ \A k \in 1..Len(r) :
             r[k] = IF 0 < k /\ k <= 0 + L THEN h[k - 0]
                    ELSE IF k <= Len(<<>>) THEN <<>>[k] ELSE 0
    BY EmptyIs, WrittenIs
  <2> HIDE DEF r, L
  <2>2. Len(r) = L
    BY <1>1, <2>1, EmptyIs
  <2>3. \A k \in 1..L : r[k] = h[k]
    BY <1>1, <2>1, <2>2
  <2> QED
    BY <2>1, <2>2, <2>3, SeqEqual DEF r, L, Strings
<1> DEFINE file == h \o d \o s
<1>5. /\ file \in Strings /\ Len(file) = L + M + N
      /\ \A k \in 1..L : file[k] = h[k]
      /\ \A k \in 1..M : file[L + k] = d[k]
      /\ \A k \in 1..N : file[L + M + k] = s[k]
  <2>1. IsFile(file, h, d, s)
    BY FileParts
  <2> HIDE DEF file
  <2> QED
    BY <2>1 DEF IsFile
<1> DEFINE t == Written(h, L + M, s)
           r == Written(t, L, d)
<1>3. /\ t \in Strings
      /\ Len(t) = IF L + M + N > L THEN L + M + N ELSE L
      /\ \A k \in 1..Len(t) :
           t[k] = IF L + M < k /\ k <= L + M + N THEN s[k - (L + M)]
                  ELSE IF k <= L THEN h[k] ELSE 0
  <2>1. L + M \in Nat
    BY <1>1
  <2> QED
    BY <2>1, WrittenIs
<1> HIDE DEF t
<1>4. /\ r \in Strings /\ Len(r) = IF L + M > Len(t) THEN L + M ELSE Len(t)
      /\ \A k \in 1..Len(r) :
           r[k] = IF L < k /\ k <= L + M THEN d[k - L]
                  ELSE IF k <= Len(t) THEN t[k] ELSE 0
  BY <1>1, <1>3, WrittenIs
<1> HIDE DEF r, file, L, M, N
<1>6. Len(t) = L + M + N /\ Len(r) = L + M + N
  BY <1>1, <1>3, <1>4
<1>7. ASSUME NEW k \in 1..L + M + N
      PROVE  r[k] = file[k]
  <2>1. CASE k <= L
    <3>1. k \in 1..L
      BY <1>1, <2>1
    <3>2. r[k] = t[k] /\ t[k] = h[k]
      BY <1>1, <1>3, <1>4, <1>6, <2>1
    <3> QED
      BY <1>5, <3>1, <3>2
  <2>2. CASE L < k /\ k <= L + M
    <3>1. k - L \in 1..M /\ L + (k - L) = k
      BY <1>1, <2>2
    <3>2. r[k] = d[k - L]
      BY <1>4, <1>6, <2>2
    <3> QED
      BY <1>5, <3>1, <3>2
  <2>3. CASE L + M < k
    <3>1. k - (L + M) \in 1..N /\ L + M + (k - (L + M)) = k
      BY <1>1, <2>3
    <3>2. r[k] = t[k] /\ t[k] = s[k - (L + M)]
      BY <1>1, <1>3, <1>4, <1>6, <2>3
    <3> QED
      BY <1>5, <3>1, <3>2
  <2> QED
    BY <1>1, <2>1, <2>2, <2>3
<1>8. r = file
  BY <1>4, <1>5, <1>6, <1>7, SeqEqual DEF Strings
<1> QED
  BY <1>2, <1>8 DEF r, t, file, L, M
-----------------------------------------------------------------------------
(* Dumps                                                                   *)

Before(t, u) ==
  /\ t.start + t.size <= u.start
  /\ t.mapped + (u.start - t.start) <= u.mapped

Within(t, pos) == t.start <= pos /\ pos - t.start < t.size

LEMMA DumpOrder ==
  ASSUME NEW c, NEW size \in Nat, NEW ranges, IsDump(ranges, c, size)
  PROVE  /\ \A t \in ranges : /\ t.start \in Nat /\ t.size \in Nat /\ t.mapped \in Nat
                              /\ t.size > 0 /\ t.start + t.size <= size
         /\ \A t, u \in ranges : t # u => Before(t, u) \/ Before(u, t)
         /\ \A pos \in Nat : pos < size => \E t \in ranges : Within(t, pos)
         /\ \E t \in ranges : t.start = 0 /\ Size["Ehdr"][c] <= t.size
         /\ size > Size["Ehdr"][c] =>
              \E t \in ranges : /\ t.start <= size - Size["Shdr"][c]
                                /\ size <= t.start + t.size
<1>1. /\ \A t \in ranges : /\ t.start \in Nat /\ t.size \in Nat /\ t.mapped \in Nat
                           /\ t.size > 0 /\ t.start + t.size <= size
      /\ \A t, u \in ranges : t # u => Before(t, u) \/ Before(u, t)
  BY DEF IsDump, Before
<1>2. \A pos \in Nat : pos < size => \E t \in ranges : Within(t, pos)
  <2>1. \A pos \in 0..size - 1 : \E t \in ranges : Within(t, pos)
    BY DEF IsDump, Within
  <2> QED
    BY <2>1
<1>3. /\ \E t \in ranges : t.start = 0 /\ Size["Ehdr"][c] <= t.size
      /\ size > Size["Ehdr"][c] =>
           \E t \in ranges : /\ t.start <= size - Size["Shdr"][c]
                             /\ size <= t.start + t.size
  BY DEF IsDump
<1> QED
  BY <1>1, <1>2, <1>3

LEMMA OneRange ==
  ASSUME NEW c, NEW size \in Nat, NEW ranges, IsDump(ranges, c, size),
         NEW t \in ranges, NEW u \in ranges, NEW pos \in Nat,
         \/ Within(t, pos) /\ Within(u, pos)
         \/ /\ t.mapped <= pos /\ pos < t.mapped + t.size
            /\ u.mapped <= pos /\ pos < u.mapped + u.size
  PROVE  t = u
<1>1. /\ t.start \in Nat /\ t.size \in Nat /\ t.mapped \in Nat
      /\ u.start \in Nat /\ u.size \in Nat /\ u.mapped \in Nat
  BY DumpOrder
<1>2. ~Before(t, u)
  BY <1>1 DEF Before, Within
<1>3. ~Before(u, t)
  BY <1>1 DEF Before, Within
<1> QED
  BY <1>2, <1>3, DumpOrder

LEMMA TranslateIs ==
  ASSUME NEW c, NEW size \in Nat, IsDump(translations, c, size),
         NEW pos \in Nat, NEW t \in translations, Within(t, pos)
  PROVE  Translate(pos) = pos - t.start + t.mapped
<1> DEFINE hits == {u \in translations : u.start <= pos /\ pos - u.start < u.size}
           first == CHOOSE u \in hits : \A v \in hits : u.start <= v.start
<1>1. t \in hits /\ \A u \in hits : u = t
  <2>1. \A u \in hits : u \in translations /\ Within(u, pos)
    BY DEF Within
  <2>2. t \in hits
    BY DEF Within
  <2> HIDE DEF hits
  <2> QED
    BY <2>1, <2>2, OneRange
<1>2. Translate(pos) = IF hits = {} THEN pos ELSE pos - first.start + first.mapped
  BY DEF Translate
<1>3. t.start \in Nat
  BY DumpOrder
<1> HIDE DEF hits
<1>4. first = t
  <2>1. \A v \in hits : t.start <= v.start
    BY <1>1, <1>3
  <2>2. first \in hits
    BY <1>1, <2>1
  <2> QED
    BY <1>1, <2>2
<1> QED
  BY <1>1, <1>2, <1>4

(* The bytes of a range are those of the file; the last range ends where   *)
(* the dump does.                                                          *)
LEMMA DumpedIs ==
  ASSUME NEW file \in Strings, NEW c, NEW ranges,
         IsDump(ranges, c, Len(file)), Len(file) > 0
  PROVE  /\ Dumped(file, ranges) \in Strings
         /\ \A t \in ranges : \A k \in 1..t.size :
              Dumped(file, ranges)[t.mapped + k] = file[t.start + k]
         /\ \A t \in ranges : \A pos, n \in Nat :
              Within(t, pos) /\ pos + n <= Len(file) =>
                (pos - t.start + t.mapped) + n <= Len(Dumped(file, ranges))
<1> DEFINE size == Len(file)
           b == Dumped(file, ranges)
           ends == {t.mapped + t.size : t \in ranges}
<1>1. size \in Nat /\ size > 0 /\ \A k \in 1..size : file[k] \in Byte
  BY LenProperties, ElementOfSeq DEF Strings
<1>2. \A t \in ranges : /\ t.start \in Nat /\ t.size \in Nat /\ t.mapped \in Nat
                        /\ t.size > 0 /\ t.start + t.size <= size
  BY <1>1, DumpOrder
<1>3. PICK last \in ranges : Within(last, size - 1)
  <2>1. size - 1 \in Nat /\ size - 1 < size
    BY <1>1
  <2> QED
    BY <1>1, <2>1, DumpOrder
<1> HIDE DEF size
<1>4. last.start + last.size = size
  BY <1>1, <1>2, <1>3 DEF Within
<1>5. ASSUME NEW t \in ranges, t # last
      PROVE  Before(t, last)
  <2>1. ~Before(last, t)
    BY <1>1, <1>2, <1>4 DEF Before
  <2> QED
    BY <1>1, <1>5, <2>1, DumpOrder DEF size
<1> DEFINE top == last.mapped + last.size
<1>6. \A t \in ranges : t.mapped + t.size <= top
  <2>1. ASSUME NEW t \in ranges, t # last
        PROVE  t.mapped + t.size <= top
    BY <1>2, <1>5, <2>1, SMTT(30) DEF Before
  <2>2. last.mapped + last.size <= top
    BY <1>2
  <2> QED
    BY <2>1, <2>2
<1>7. Max(ends) = top
  <2>1. top \in ends /\ \A x \in ends : top >= x
    BY <1>2, <1>6
  <2>2. ends \subseteq Int
    BY <1>2
  <2> HIDE DEF ends, top
  <2>3. Max(ends) \in ends /\ \A x \in ends : Max(ends) >= x
    BY <2>1 DEF Max
  <2> DEFINE m == Max(ends)
  <2>4. m \in Int /\ top \in Int /\ m >= top /\ top >= m
    BY <2>1, <2>2, <2>3
  <2> HIDE DEF m
  <2> QED
    BY <2>4 DEF m
<1>8. top \in Nat
  BY <1>2
<1> DEFINE here(p) == {t \in ranges : t.mapped < p /\ p <= t.mapped + t.size}
           value(p) == LET t == CHOOSE u \in here(p) : TRUE
                       IN IF here(p) = {} THEN 0 ELSE file[p - t.mapped + t.start]
<1>9. b = [p \in 1..top |-> value(p)]
  <2>1. b = [p \in 1..Max(ends) |-> value(p)]
    BY DEF Dumped
  <2> HIDE DEF b, value, ends
  <2> QED
    BY <1>7, <2>1
<1> HIDE DEF b, ends, top
<1>10. ASSUME NEW t \in ranges, NEW k \in 1..t.size
       PROVE  value(t.mapped + k) = file[t.start + k]
  <2> DEFINE p == t.mapped + k
  <2>1. t \in here(p) /\ p - t.mapped + t.start = t.start + k /\ p \in Nat
    BY <1>2
  <2>2. ASSUME NEW u \in here(p)
        PROVE  u = t
    <3> DEFINE o == p - 1
    <3>1. /\ o \in Nat /\ u \in ranges
          /\ t.mapped <= o /\ o < t.mapped + t.size
          /\ u.mapped <= o /\ o < u.mapped + u.size
      BY <1>2
    <3> HIDE DEF p, o
    <3>2. IsDump(ranges, c, size)
      BY DEF size
    <3> QED
      BY <1>1, <3>1, <3>2, OneRange
  <2> HIDE DEF here, p
  <2>3. (CHOOSE u \in here(p) : TRUE) = t /\ here(p) # {}
    BY <2>1, <2>2
  <2>4. value(p) = file[p - t.mapped + t.start]
    BY <2>3
  <2> QED
    BY <2>1, <2>4 DEF p
<1>11. ASSUME NEW p \in 1..top
       PROVE  value(p) \in Byte
  <2>1. CASE here(p) = {}
    <3>1. value(p) = 0
      BY <2>1
    <3>2. 0 \in Byte
      BY DEF Byte
    <3> QED
      BY <3>1, <3>2
  <2>2. CASE here(p) # {}
    <3> DEFINE t == CHOOSE u \in here(p) : TRUE
    <3>1. t \in here(p) /\ value(p) = file[p - t.mapped + t.start]
      BY <2>2
    <3>2. t \in ranges /\ t.mapped < p /\ p <= t.mapped + t.size
      BY <3>1
    <3> HIDE DEF t
    <3>3. p - t.mapped + t.start \in 1..size
      BY <1>1, <1>2, <1>8, <3>2
    <3> QED
      BY <1>1, <3>1, <3>3
  <2> QED
    BY <2>1, <2>2
<1> HIDE DEF value, here
<1>12. b \in Strings /\ Len(b) = top
  <2>1. b \in Bytes(top)
    BY <1>9, <1>11 DEF Bytes
  <2> QED
    BY <1>8, <2>1, BytesAreStrings
<1>13. ASSUME NEW t \in ranges, NEW k \in 1..t.size
       PROVE  b[t.mapped + k] = file[t.start + k]
  <2>1. t.mapped + k \in 1..top
    BY <1>2, <1>6, <1>8
  <2>2. b[t.mapped + k] = value(t.mapped + k)
    BY <1>9, <2>1
  <2> QED
    BY <1>10, <2>2
<1>14. ASSUME NEW t \in ranges, NEW pos \in Nat, NEW n \in Nat,
              Within(t, pos), pos + n <= size
       PROVE  (pos - t.start + t.mapped) + n <= top
  <2>1. (pos - t.start + t.mapped) + n <= size - t.start + t.mapped
    BY <1>1, <1>2, <1>14
  <2>2. CASE t = last
    BY <1>1, <1>2, <1>4, <2>1, <2>2, SMTT(30) DEF top
  <2>3. CASE t # last
    <3>1. Before(t, last)
      BY <1>5, <2>3
    <3>2. size - t.start + t.mapped <= top
      <4>1. t.mapped + (last.start - t.start) <= last.mapped
        BY <3>1 DEF Before
      <4>2. /\ t.start \in Nat /\ t.mapped \in Nat /\ last.start \in Nat
            /\ last.size \in Nat /\ last.mapped \in Nat
        BY <1>2
      <4> QED
        BY <1>4, <4>1, <4>2 DEF top
    <3> QED
      BY <1>1, <1>2, <1>8, <2>1, <3>2
  <2> QED
    BY <2>2, <2>3
<1> QED
  BY <1>12, <1>13, <1>14 DEF b, size

(* No range of a dump cuts the n bytes from pos on.                        *)
Whole(ranges, pos, n) ==
  ranges # {} => \E t \in ranges : t.start <= pos /\ pos + n <= t.start + t.size

(* The stream is the file, or a dump of it.                                *)
Holds(file, c) ==
  \/ stream.ranges = {} /\ stream.bytes = file
  \/ /\ IsDump(stream.ranges, c, Len(file))
     /\ stream.bytes = Dumped(file, stream.ranges)

(* By the translations that describe it, what is not cut can be read, and  *)
(* what is cut is there as far as its length goes.                         *)
LEMMA StreamReads ==
  ASSUME NEW file \in Strings, NEW c, Holds(file, c),
         translations = stream.ranges,
         NEW pos \in Nat, NEW n \in Nat, pos < Len(file), pos + n <= Len(file)
  PROVE  /\ stream.bytes \in Strings
         /\ Translate(pos) \in Nat /\ Translate(pos) + n <= Len(stream.bytes)
         /\ ReadAt(Translate(pos), n) \in Strings
         /\ Len(ReadAt(Translate(pos), n)) = n
         /\ (n > 0 /\ Whole(stream.ranges, pos, n)) =>
              ReadAt(Translate(pos), n) = Part(file, pos, n)
<1>1. Len(file) \in Nat /\ Len(file) > 0
  BY LenProperties DEF Strings
<1>2. \A p : ReadAt(p, n) = Part(stream.bytes, p, n)
  BY DEF ReadAt, Part
<1>3. CASE stream.ranges = {} /\ stream.bytes = file
  <2>1. Translate(pos) = pos
    BY <1>3 DEF Translate
  <2> QED
    BY <1>2, <1>3, <2>1, PartTyped
<1>4. CASE /\ IsDump(translations, c, Len(file))
           /\ stream.bytes = Dumped(file, translations)
  <2> DEFINE b == stream.bytes
  <2>1. PICK t \in translations : Within(t, pos)
    BY <1>1, <1>4, DumpOrder
  <2>2. Translate(pos) = pos - t.start + t.mapped
    BY <1>1, <1>4, <2>1, TranslateIs
  <2>3. /\ t.start \in Nat /\ t.size \in Nat /\ t.mapped \in Nat
    BY <1>1, <1>4, DumpOrder
  <2>4. /\ b \in Strings
        /\ \A k \in 1..t.size : b[t.mapped + k] = file[t.start + k]
        /\ (pos - t.start + t.mapped) + n <= Len(b)
    <3> DEFINE x == Dumped(file, translations)
    <3>1. /\ x \in Strings
          /\ \A u \in translations : \A k \in 1..u.size :
               x[u.mapped + k] = file[u.start + k]
          /\ \A u \in translations : \A q, m \in Nat :
               Within(u, q) /\ q + m <= Len(file) =>
                 (q - u.start + u.mapped) + m <= Len(x)
      BY <1>1, <1>4, DumpedIs, SMTT(30)
    <3>2. b = x
      BY <1>4
    <3> HIDE DEF x, b
    <3> QED
      BY <1>1, <2>1, <3>1, <3>2
  <2> HIDE DEF b
  <2> DEFINE at == pos - t.start + t.mapped
  <2>5. at \in Nat
    BY <2>1, <2>3 DEF Within
  <2>6. Part(b, at, n) \in Strings /\ Len(Part(b, at, n)) = n
    <3> HIDE DEF at
    <3>1. at + n <= Len(b)
      BY <2>4 DEF at
    <3> QED
      BY <2>4, <2>5, <3>1, PartTyped
  <2>7. ASSUME n > 0, Whole(translations, pos, n)
        PROVE  Part(b, at, n) = Part(file, pos, n)
    <3>1. PICK u \in translations : u.start <= pos /\ pos + n <= u.start + u.size
      BY <2>7 DEF Whole
    <3>2. u = t
      <4>1. u.start \in Nat /\ u.size \in Nat
        BY <1>1, <1>4, DumpOrder
      <4>2. Within(u, pos)
        BY <2>7, <3>1, <4>1 DEF Within
      <4> QED
        BY <1>1, <1>4, <2>1, <4>2, OneRange
    <3>3. ASSUME NEW k \in 1..n
          PROVE  b[at + k] = file[pos + k]
      <4> DEFINE j == pos - t.start + k
      <4>1. /\ j \in 1..t.size /\ t.mapped + j = at + k /\ t.start + j = pos + k
        <5>1. t.start <= pos /\ pos + n <= t.start + t.size
          BY <3>1, <3>2
        <5> DEFINE x == t.start
                   y == t.size
                   z == t.mapped
        <5>2. /\ x \in Nat /\ y \in Nat /\ z \in Nat /\ x <= pos /\ pos + n <= x + y
              /\ j = pos - x + k /\ at = pos - x + z
          BY <2>3, <5>1
        <5> HIDE DEF x, y, z, j, at
        <5>3. j \in 1..y /\ z + j = at + k /\ x + j = pos + k
          BY <5>2
        <5> QED
          BY <5>3 DEF x, y, z
      <4> HIDE DEF j, at
      <4> QED
        BY <2>4, <4>1
    <3>4. Same(b, at, file, pos, n)
      BY <3>3 DEF Same
    <3> HIDE DEF at
    <3>5. at + n <= Len(b)
      BY <2>4 DEF at
    <3> QED
      BY <2>4, <2>5, <3>4, <3>5, SameParts
  <2> QED
    BY <1>2, <1>4, <2>2, <2>4, <2>5, <2>6, <2>7 DEF b
<1> QED
  BY <1>3, <1>4 DEF Holds
-----------------------------------------------------------------------------
(* Entries                                                                 *)

(* Strings put one after the other: each lies where those before it end.   *)
LEMMA FlattenIs ==
  ASSUME NEW fields, IsTable(fields),
         NEW pieces \in [1..Len(fields) -> Strings],
         \A n \in 1..Len(fields) : Len(pieces[n]) = fields[n][2]
  PROVE  LET r == FlattenSeq(pieces)
         IN /\ r \in Strings /\ Len(r) = Begin(fields, Len(fields) + 1)
            /\ \A n \in 1..Len(fields) :
                 Part(r, Begin(fields, n), fields[n][2]) = pieces[n]
<1> DEFINE L == Len(fields)
           B(n) == Begin(fields, n)
           g == [k \in 1..L |-> [u \in Strings |-> u \o pieces[k]]]
<1>1. /\ L \in Nat /\ B(1) = 0 /\ \A n \in 1..L + 1 : B(n) \in Nat
      /\ \A n \in 1..L : B(n + 1) = B(n) + fields[n][2]
  BY FieldsFollow
<1>2. L > 0 /\ \A n \in 1..L : fields[n][2] \in Nat
  <2>1. L \in 1..20 /\ \A n \in 1..L : IsField(fields[n])
    BY DEF IsTable
  <2> HIDE DEF L
  <2> QED
    BY <2>1 DEF IsField
<1>3. pieces \in [1..L -> Strings] /\ \A n \in 1..L : Len(pieces[n]) = fields[n][2]
  OBVIOUS
<1> HIDE DEF L, B
<1>4. g \in [1..L -> [Strings -> Strings]]
  <2>1. \A k \in 1..L, u \in Strings : u \o pieces[k] \in Strings
    BY <1>3, ConcatParts
  <2> QED
    BY <2>1
<1>5. \A k \in 1..L, u \in Strings : g[k][u] = u \o pieces[k]
  OBVIOUS
<1> HIDE DEF g
<1>6. Steps(Strings, <<>>, L, g) # {}
  BY <1>1, <1>4, EmptyIs, StepsExist, ZenonT(40)
<1>7. PICK h \in [0..L -> Strings] :
        h[0] = <<>> /\ \A k \in 1..L : h[k] = g[k][h[k - 1]]
  BY <1>6 DEF Steps
<1>8. ASSUME NEW k \in 1..L
      PROVE  h[k] = h[k - 1] \o pieces[k] /\ h[k - 1] \in Strings
  <2>1. k - 1 \in 0..L
    BY <1>1
  <2>2. h[k - 1] \in Strings
    BY <1>7, <2>1
  <2> QED
    BY <1>5, <1>7, <2>2
<1>9. h[1] = pieces[1]
  <2>1. 1 \in 1..L /\ 1 - 1 = 0
    BY <1>1, <1>2
  <2>2. h[1] = <<>> \o pieces[1]
    BY <1>7, <1>8, <2>1
  <2>3. pieces[1] \in Seq(Byte)
    BY <1>3, <2>1 DEF Strings
  <2> QED
    BY <2>2, <2>3, ConcatEmptySeq
<1>10. FlattenSeq(pieces) = h[L]
  <2> DEFINE Step(f, m) == IF m = 1 THEN pieces[m] ELSE f[m - 1] \o pieces[m]
             flat == CHOOSE f : f = [m \in 1..L |-> Step(f, m)]
             e == [m \in 1..L |-> h[m]]
  <2>1. FlattenSeq(pieces) = flat[L]
    <3>1. Len(pieces) = L
      BY <1>1, <1>3
    <3> QED
      BY <1>1, <1>2, <3>1 DEF FlattenSeq
  <2>2. ASSUME NEW m \in 1..L
        PROVE  e[m] = Step(e, m)
    <3>1. CASE m = 1
      BY <1>9, <3>1
    <3>2. CASE m # 1
      <4>1. m - 1 \in 1..L
        BY <1>1, <3>2
      <4>2. e[m - 1] = h[m - 1] /\ e[m] = h[m]
        BY <4>1
      <4> QED
        BY <1>8, <3>2, <4>2
    <3> QED
      BY <3>1, <3>2
  <2>3. e = [m \in 1..L |-> Step(e, m)]
    <3>1. e = [m \in 1..L |-> e[m]]
      OBVIOUS
    <3> HIDE DEF e, Step
    <3> QED
      BY <2>2, <3>1
  <2>4. flat = [m \in 1..L |-> Step(flat, m)]
    <3> HIDE DEF Step, e
    <3> QED
      BY <2>3
  <2> HIDE DEF flat
  <2>5. \A m \in 1..L : flat[m] = Step(flat, m)
    <3> HIDE DEF Step
    <3> QED
      BY <2>4
  <2> DEFINE bad == {m \in 1..L : flat[m] # h[m]}
  <2>6. ASSUME bad # {}
        PROVE  FALSE
    <3>1. PICK m \in bad : \A o \in bad : m <= o
      <4>1. bad \in SUBSET Nat
        OBVIOUS
      <4> HIDE DEF bad
      <4> QED
        BY <2>6, <4>1, LeastElement
    <3>2. m \in 1..L /\ flat[m] # h[m]
      OBVIOUS
    <3>3. CASE m = 1
      BY <1>9, <2>5, <3>2, <3>3
    <3>4. CASE m # 1
      <4>1. m - 1 \in 1..L /\ ~(m <= m - 1)
        BY <1>1, <3>2, <3>4
      <4>2. flat[m - 1] = h[m - 1]
        BY <3>1, <4>1
      <4>3. flat[m] = flat[m - 1] \o pieces[m]
        BY <2>5, <3>2, <3>4
      <4> QED
        BY <1>8, <3>2, <4>2, <4>3
    <3> QED
      BY <3>3, <3>4
  <2>7. L \in 1..L
    BY <1>1, <1>2
  <2> QED
    BY <2>1, <2>6, <2>7
<1> DEFINE Fine(k) ==
             /\ h[k] \in Strings /\ Len(h[k]) = B(k + 1)
             /\ \A n \in 1..k : Part(h[k], B(n), fields[n][2]) = pieces[n]
           bad == {k \in 1..L : ~Fine(k)}
<1>11. ASSUME bad # {}
       PROVE  FALSE
  <2>1. PICK k \in bad : \A o \in bad : k <= o
    <3>1. bad \in SUBSET Nat
      OBVIOUS
    <3> HIDE DEF bad
    <3> QED
      BY <1>11, <3>1, LeastElement
  <2>2. k \in 1..L /\ ~Fine(k)
    OBVIOUS
  <2>3. pieces[k] \in Strings /\ Len(pieces[k]) = fields[k][2]
    BY <1>3, <2>2
  <2>4. B(k + 1) = B(k) + fields[k][2] /\ B(k) \in Nat /\ fields[k][2] \in Nat
    <3>1. k \in 1..L + 1
      BY <1>1, <2>2
    <3> QED
      BY <1>1, <1>2, <2>2, <3>1
  <2>5. CASE k = 1
    <3>1. h[k] = pieces[k] /\ B(k) = 0
      BY <1>1, <1>9, <2>5
    <3>2. Part(pieces[k], 0, Len(pieces[k])) = pieces[k]
      BY <2>3, WholePart
    <3>3. Len(h[k]) = B(k + 1)
      BY <2>3, <2>4, <3>1
    <3>4. \A n \in 1..k : n = k
      BY <2>5
    <3>5. Part(h[k], B(k), fields[k][2]) = pieces[k]
      BY <2>3, <3>1, <3>2
    <3> QED
      BY <2>2, <2>3, <3>1, <3>3, <3>4, <3>5
  <2>6. CASE k # 1
    <3>1. k - 1 \in 1..L /\ ~(k <= k - 1) /\ (k - 1) + 1 = k
      BY <1>1, <2>2, <2>6
    <3>2. Fine(k - 1)
      BY <2>1, <3>1
    <3> DEFINE s == h[k - 1]
               t == pieces[k]
    <3>3. /\ s \in Strings /\ Len(s) = B(k)
          /\ \A n \in 1..k - 1 : Part(s, B(n), fields[n][2]) = pieces[n]
      BY <3>1, <3>2
    <3>4. h[k] = s \o t
      BY <1>8, <2>2
    <3>5. t \in Strings
      BY <2>3
    <3> HIDE DEF s
    <3>6. /\ s \o t \in Strings /\ Len(s \o t) = Len(s) + Len(t)
          /\ Part(s \o t, Len(s), Len(t)) = t
          /\ \A q, m \in Nat : q + m <= Len(s) => Part(s \o t, q, m) = Part(s, q, m)
      <4> HIDE DEF t
      <4> QED
        BY <3>3, <3>5, ConcatParts, ZenonT(40)
    <3>7. Len(h[k]) = B(k + 1) /\ h[k] \in Strings
      BY <2>3, <2>4, <3>3, <3>4, <3>6
    <3>8. ASSUME NEW n \in 1..k
          PROVE  Part(h[k], B(n), fields[n][2]) = pieces[n]
      <4>1. CASE n = k
        BY <2>3, <3>3, <3>4, <3>6, <4>1
      <4>2. CASE n # k
        <5>1. n \in 1..k - 1 /\ n \in 1..L /\ n < k /\ k \in 1..L + 1 /\ n \in 1..L + 1
          <6>1. n \in Nat /\ k \in Nat /\ 1 <= n /\ n < k /\ k <= L
            BY <1>1, <2>2, <4>2
          <6> QED
            BY <1>1, <6>1
        <5>2. B(n) + fields[n][2] <= B(k)
          BY <5>1, FieldsApart DEF B, L
        <5>3. B(n) \in Nat /\ fields[n][2] \in Nat
          BY <1>1, <1>2, <5>1
        <5>4. Part(s \o t, B(n), fields[n][2]) = Part(s, B(n), fields[n][2])
          BY <3>3, <3>6, <5>2, <5>3
        <5> QED
          BY <3>3, <3>4, <5>1, <5>4
      <4> QED
        BY <4>1, <4>2
    <3> QED
      BY <2>2, <3>7, <3>8
  <2> QED
    BY <2>5, <2>6
<1>12. Fine(L)
  <2>1. L \in 1..L
    BY <1>1, <1>2
  <2> HIDE DEF Fine
  <2> QED
    BY <1>11, <2>1
<1> QED
  BY <1>10, <1>12 DEF L, B
(* No two fields of an entry have the same name.                           *)
LEMMA DistinctNames ==
  ASSUME NEW what \in Kinds, NEW c \in Classes,
         NEW m \in DOMAIN FieldsOf(what, c), NEW n \in DOMAIN FieldsOf(what, c),
         FieldsOf(what, c)[m][1] = FieldsOf(what, c)[n][1]
  PROVE  m = n
<1> DEFINE t == FieldsOf(what, c)
<1>1. CASE what = "REL"
  <2>1. DOMAIN t = 1..2 /\ t[1][1] = "r_offset" /\ t[2][1] = "r_info"
    BY <1>1 DEF FieldsOf, Rel
  <2> HIDE DEF t
  <2> QED
    BY <2>1 DEF t
<1>2. CASE what = "RELA"
  <2>1. /\ DOMAIN t = 1..3 /\ t[1][1] = "r_offset" /\ t[2][1] = "r_info"
        /\ t[3][1] = "r_addend"
    BY <1>2 DEF FieldsOf, Rela
  <2> HIDE DEF t
  <2> QED
    BY <2>1 DEF t
<1>3. CASE what = "DYNAMIC"
  <2>1. DOMAIN t = 1..2 /\ t[1][1] = "d_tag" /\ t[2][1] = "d_un"
    BY <1>3 DEF FieldsOf, Dyn
  <2> HIDE DEF t
  <2> QED
    BY <2>1 DEF t
<1>4. CASE what = "INIT_ARRAY"
  <2>1. DOMAIN t = 1..1
    BY <1>4 DEF FieldsOf, Element
  <2> HIDE DEF t
  <2> QED
    BY <2>1 DEF t
<1>5. CASE what = "SYMTAB" /\ c = Class32
  <2>1. /\ DOMAIN t = 1..6 /\ t[1][1] = "st_name" /\ t[2][1] = "st_value"
        /\ t[3][1] = "st_size" /\ t[4][1] = "st_info" /\ t[5][1] = "st_other"
        /\ t[6][1] = "st_shndx"
    BY <1>5 DEF FieldsOf, Sym
  <2> HIDE DEF t
  <2> QED
    BY <2>1 DEF t
<1>6. CASE what = "SYMTAB" /\ c # Class32
  <2>1. /\ DOMAIN t = 1..6 /\ t[1][1] = "st_name" /\ t[2][1] = "st_info"
        /\ t[3][1] = "st_other" /\ t[4][1] = "st_shndx" /\ t[5][1] = "st_value"
        /\ t[6][1] = "st_size"
    BY <1>6 DEF FieldsOf, Sym
  <2> HIDE DEF t
  <2> QED
    BY <2>1 DEF t
<1> QED
  BY <1>1, <1>2, <1>3, <1>4, <1>5, <1>6 DEF Kinds

LEMMA WidthIs ==
  ASSUME NEW what \in Kinds, NEW c \in Classes,
         NEW n \in DOMAIN FieldsOf(what, c)
  PROVE  LET f == FieldsOf(what, c)[n][1]
         IN /\ f \in Names(what, c)
            /\ At(what, c, f) = Begin(FieldsOf(what, c), n)
            /\ Width(what, c, f) = FieldsOf(what, c)[n][2]
<1> DEFINE fields == FieldsOf(what, c)
           f == fields[n][1]
<1>1. f \in Names(what, c)
  BY DEF Names
<1>2. Index(what, c, f) = n
  <2>1. Index(what, c, f) = CHOOSE m \in DOMAIN fields : fields[m][1] = f
    BY DEF Index
  <2>2. \A m \in DOMAIN fields : fields[m][1] = f => m = n
    BY DistinctNames
  <2>3. n \in DOMAIN fields /\ fields[n][1] = f
    OBVIOUS
  <2> HIDE DEF fields, f
  <2> QED
    BY <2>1, <2>2, <2>3
<1> QED
  BY <1>1, <1>2 DEF Width, At

(* The fields of the entries of each kind                                  *)
LEMMA RelWidths ==
  ASSUME NEW c \in Classes
  PROVE  /\ Names("REL", c) = {"r_offset", "r_info"}
         /\ Width("REL", c, "r_offset") = Native(c)
         /\ Width("REL", c, "r_info") = Native(c)
<1> DEFINE t == FieldsOf("REL", c)
<1>1. /\ DOMAIN t = 1..2
      /\ t[1][1] = "r_offset" /\ t[1][2] = Native(c)
      /\ t[2][1] = "r_info" /\ t[2][2] = Native(c)
  BY DEF FieldsOf, Rel
<1> HIDE DEF t
<1>2. Names("REL", c) = {"r_offset", "r_info"}
  <2>1. Names("REL", c) = {t[n][1] : n \in 1..2}
    BY <1>1 DEF Names, t
  <2> QED
    BY <1>1, <2>1
<1>3. /\ Width("REL", c, t[1][1]) = t[1][2]
      /\ Width("REL", c, t[2][1]) = t[2][2]
  BY <1>1, WidthIs DEF t, Kinds
<1> QED
  BY <1>1, <1>2, <1>3

LEMMA RelaWidths ==
  ASSUME NEW c \in Classes
  PROVE  /\ Names("RELA", c) = {"r_offset", "r_info", "r_addend"}
         /\ Width("RELA", c, "r_offset") = Native(c)
         /\ Width("RELA", c, "r_info") = Native(c)
         /\ Width("RELA", c, "r_addend") = Native(c)
<1> DEFINE t == FieldsOf("RELA", c)
<1>1. /\ DOMAIN t = 1..3
      /\ t[1][1] = "r_offset" /\ t[1][2] = Native(c)
      /\ t[2][1] = "r_info" /\ t[2][2] = Native(c)
      /\ t[3][1] = "r_addend" /\ t[3][2] = Native(c)
  BY DEF FieldsOf, Rela
<1> HIDE DEF t
<1>2. Names("RELA", c) = {"r_offset", "r_info", "r_addend"}
  <2>1. Names("RELA", c) = {t[n][1] : n \in 1..3}
    BY <1>1 DEF Names, t
  <2> QED
    BY <1>1, <2>1
<1>3. /\ Width("RELA", c, t[1][1]) = t[1][2]
      /\ Width("RELA", c, t[2][1]) = t[2][2]
      /\ Width("RELA", c, t[3][1]) = t[3][2]
  BY <1>1, WidthIs DEF t, Kinds
<1> QED
  BY <1>1, <1>2, <1>3

LEMMA DynWidths ==
  ASSUME NEW c \in Classes
  PROVE  /\ Names("DYNAMIC", c) = {"d_tag", "d_un"}
         /\ Width("DYNAMIC", c, "d_tag") = Native(c)
         /\ Width("DYNAMIC", c, "d_un") = Native(c)
<1> DEFINE t == FieldsOf("DYNAMIC", c)
<1>1. /\ DOMAIN t = 1..2
      /\ t[1][1] = "d_tag" /\ t[1][2] = Native(c)
      /\ t[2][1] = "d_un" /\ t[2][2] = Native(c)
  BY DEF FieldsOf, Dyn
<1> HIDE DEF t
<1>2. Names("DYNAMIC", c) = {"d_tag", "d_un"}
  <2>1. Names("DYNAMIC", c) = {t[n][1] : n \in 1..2}
    BY <1>1 DEF Names, t
  <2> QED
    BY <1>1, <2>1
<1>3. /\ Width("DYNAMIC", c, t[1][1]) = t[1][2]
      /\ Width("DYNAMIC", c, t[2][1]) = t[2][2]
  BY <1>1, WidthIs DEF t, Kinds
<1> QED
  BY <1>1, <1>2, <1>3

LEMMA ElementWidths ==
  ASSUME NEW c \in Classes
  PROVE  /\ Names("INIT_ARRAY", c) = {"element"}
         /\ Width("INIT_ARRAY", c, "element") = Native(c)
<1> DEFINE t == FieldsOf("INIT_ARRAY", c)
<1>1. DOMAIN t = 1..1 /\ t[1][1] = "element" /\ t[1][2] = Native(c)
  BY DEF FieldsOf, Element
<1> HIDE DEF t
<1>2. Names("INIT_ARRAY", c) = {"element"}
  <2>1. Names("INIT_ARRAY", c) = {t[n][1] : n \in 1..1}
    BY <1>1 DEF Names, t
  <2> QED
    BY <1>1, <2>1
<1>3. Width("INIT_ARRAY", c, t[1][1]) = t[1][2]
  BY <1>1, WidthIs DEF t, Kinds
<1> QED
  BY <1>1, <1>2, <1>3

LEMMA SymWidths ==
  ASSUME NEW c \in Classes
  PROVE  /\ Names("SYMTAB", c) = {"st_name", "st_value", "st_size", "st_info",
                                  "st_other", "st_shndx"}
         /\ Width("SYMTAB", c, "st_name") = 4
         /\ Width("SYMTAB", c, "st_value") = Native(c)
         /\ Width("SYMTAB", c, "st_size") = Native(c)
         /\ Width("SYMTAB", c, "st_info") = 1
         /\ Width("SYMTAB", c, "st_other") = 1
         /\ Width("SYMTAB", c, "st_shndx") = 2
<1> DEFINE t == FieldsOf("SYMTAB", c)
<1>1. CASE c = Class32
  <2>1. /\ DOMAIN t = 1..6
        /\ t[1][1] = "st_name" /\ t[1][2] = 4 /\ t[2][1] = "st_value" /\ t[2][2] = 4
        /\ t[3][1] = "st_size" /\ t[3][2] = 4 /\ t[4][1] = "st_info" /\ t[4][2] = 1
        /\ t[5][1] = "st_other" /\ t[5][2] = 1
        /\ t[6][1] = "st_shndx" /\ t[6][2] = 2
    BY <1>1 DEF FieldsOf, Sym
  <2> HIDE DEF t
  <2>2. Names("SYMTAB", c) = {"st_name", "st_value", "st_size", "st_info",
                              "st_other", "st_shndx"}
    <3>1. Names("SYMTAB", c) = {t[n][1] : n \in 1..6}
      BY <2>1 DEF Names, t
    <3> QED
      BY <2>1, <3>1
  <2>3. \A n \in 1..6 : Width("SYMTAB", c, t[n][1]) = t[n][2]
    BY <2>1, WidthIs DEF t, Kinds
  <2>4. Native(c) = 4
    BY <1>1 DEF Native
  <2> QED
    BY <2>1, <2>2, <2>3, <2>4
<1>2. CASE c # Class32
  <2>1. /\ DOMAIN t = 1..6
        /\ t[1][1] = "st_name" /\ t[1][2] = 4 /\ t[2][1] = "st_info" /\ t[2][2] = 1
        /\ t[3][1] = "st_other" /\ t[3][2] = 1 /\ t[4][1] = "st_shndx"
        /\ t[4][2] = 2 /\ t[5][1] = "st_value" /\ t[5][2] = 8
        /\ t[6][1] = "st_size" /\ t[6][2] = 8
    BY <1>2 DEF FieldsOf, Sym
  <2> HIDE DEF t
  <2>2. Names("SYMTAB", c) = {"st_name", "st_value", "st_size", "st_info",
                              "st_other", "st_shndx"}
    <3>1. Names("SYMTAB", c) = {t[n][1] : n \in 1..6}
      BY <2>1 DEF Names, t
    <3> QED
      BY <2>1, <3>1
  <2>3. \A n \in 1..6 : Width("SYMTAB", c, t[n][1]) = t[n][2]
    BY <2>1, WidthIs DEF t, Kinds
  <2>4. Native(c) = 8
    BY <1>2 DEF Native
  <2> QED
    BY <2>1, <2>2, <2>3, <2>4
<1> QED
  BY <1>1, <1>2

LEMMA InfoIs ==
  ASSUME NEW c \in Classes, NEW s \in Bytes(4), NEW t \in Bytes(4)
  PROVE  /\ Info(c, s, t) \in Strings /\ Len(Info(c, s, t)) = 8
         /\ c = Class32 =>
              /\ Info(c, s, t)[1] = t[1] /\ Info(c, s, t)[2] = s[1]
              /\ Info(c, s, t)[3] = s[2] /\ Info(c, s, t)[4] = s[3]
         /\ c # Class32 =>
              Part(Info(c, s, t), 4, 4) = s /\ Part(Info(c, s, t), 0, 4) = t
<1>1. s \in Strings /\ Len(s) = 4 /\ t \in Strings /\ Len(t) = 4
  BY BytesAreStrings
<1>2. CASE c = Class32
  <2>1. /\ s[1] \in Byte /\ s[2] \in Byte /\ s[3] \in Byte /\ s[4] \in Byte
        /\ t[1] \in Byte
    BY DEF Bytes
  <2>2. 0 \in Byte
    BY DEF Byte
  <2>3. Info(c, s, t) = <<t[1], s[1], s[2], s[3], s[4], 0, 0, 0>>
    BY <1>2 DEF Info
  <2> DEFINE r == <<t[1], s[1], s[2], s[3], s[4], 0, 0, 0>>
  <2>4. r \in Seq(Byte) /\ Len(r) = 8
    BY <2>1, <2>2
  <2>5. r[1] = t[1] /\ r[2] = s[1] /\ r[3] = s[2] /\ r[4] = s[3]
    OBVIOUS
  <2> QED
    BY <1>2, <2>3, <2>4, <2>5 DEF Strings
<1>3. CASE c # Class32
  <2>1. Info(c, s, t) = t \o s
    BY <1>3 DEF Info
  <2> DEFINE r == t \o s
  <2>2. /\ r \in Strings /\ Len(r) = Len(t) + Len(s) /\ Part(r, Len(t), Len(s)) = s
        /\ \A q, m \in Nat : q + m <= Len(t) => Part(r, q, m) = Part(t, q, m)
    <3> DEFINE u == t \o s
    <3>1. /\ u \in Strings /\ Len(u) = Len(t) + Len(s)
          /\ Part(u, Len(t), Len(s)) = s
          /\ \A q, m \in Nat : q + m <= Len(t) => Part(u, q, m) = Part(t, q, m)
      BY <1>1, ConcatParts
    <3> QED
      BY <3>1
  <2> HIDE DEF r
  <2>3. Part(r, 0, 4) = Part(t, 0, 4)
    BY <1>1, <2>2
  <2>4. Part(t, 0, 4) = t
    BY <1>1, WholePart
  <2> QED
    BY <1>1, <1>3, <2>1, <2>2, <2>3, <2>4 DEF r
<1> QED
  BY <1>2, <1>3

(* add_entry() has enough bytes of each number for the field.              *)
LEMMA PackedTyped ==
  ASSUME NEW what \in Kinds, NEW c \in Classes, NEW x, IsEntry(what, x),
         NEW f \in Names(what, c)
  PROVE  /\ Packed(what, c, x)[f] \in Strings
         /\ Width(what, c, f) <= Len(Packed(what, c, x)[f])
<1>1. Native(c) \in {4, 8}
  BY DEF Native
<1>2. CASE what = "REL"
  <2>1. x.offset \in Bytes(8) /\ x.symbol \in Bytes(4) /\ x.type \in Bytes(4)
    BY <1>2 DEF IsEntry
  <2>2. /\ x.offset \in Strings /\ Len(x.offset) = 8
        /\ Info(c, x.symbol, x.type) \in Strings
        /\ Len(Info(c, x.symbol, x.type)) = 8
    BY <2>1, BytesAreStrings, InfoIs
  <2>3. Packed(what, c, x) = [r_offset |-> x.offset,
                              r_info |-> Info(c, x.symbol, x.type)]
    BY <1>2 DEF Packed, RelFields
  <2> QED
    <3> DEFINE p == Packed(what, c, x)
    <3>1. p["r_offset"] = x.offset /\ p["r_info"] = Info(c, x.symbol, x.type)
      BY <2>3
    <3> HIDE DEF p
    <3>2. /\ f \in {"r_offset", "r_info"} /\ Width(what, c, "r_offset") <= 8
          /\ Width(what, c, "r_info") <= 8
      BY <1>1, <1>2, RelWidths
    <3> QED
      BY <2>2, <3>1, <3>2 DEF p
<1>3. CASE what = "RELA"
  <2>1. /\ x.offset \in Bytes(8) /\ x.symbol \in Bytes(4) /\ x.type \in Bytes(4)
        /\ x.addend \in Bytes(8)
    BY <1>3 DEF IsEntry
  <2>2. /\ x.offset \in Strings /\ Len(x.offset) = 8
        /\ x.addend \in Strings /\ Len(x.addend) = 8
        /\ Info(c, x.symbol, x.type) \in Strings
        /\ Len(Info(c, x.symbol, x.type)) = 8
    BY <2>1, BytesAreStrings, InfoIs
  <2>3. Packed(what, c, x) = [r_offset |-> x.offset,
                              r_info |-> Info(c, x.symbol, x.type),
                              r_addend |-> x.addend]
    BY <1>3 DEF Packed, RelaFields
  <2> QED
    <3> DEFINE p == Packed(what, c, x)
    <3>1. /\ p["r_offset"] = x.offset /\ p["r_addend"] = x.addend
          /\ p["r_info"] = Info(c, x.symbol, x.type)
      BY <2>3
    <3> HIDE DEF p
    <3>2. /\ f \in {"r_offset", "r_info", "r_addend"}
          /\ Width(what, c, "r_offset") <= 8 /\ Width(what, c, "r_info") <= 8
          /\ Width(what, c, "r_addend") <= 8
      BY <1>1, <1>3, RelaWidths
    <3> QED
      BY <2>2, <3>1, <3>2 DEF p
<1>4. CASE what = "SYMTAB"
  <2> DEFINE i == ((x.bind * 16) % 256) + (x.type % 16)
             v == <<i>>
  <2>1. /\ x.name \in Bytes(4) /\ x.value \in Bytes(8) /\ x.size \in Bytes(8)
        /\ x.bind \in Byte /\ x.type \in Byte /\ x.other \in Bytes(1)
        /\ x.shndx \in Bytes(2)
    BY <1>4 DEF IsEntry
  <2>2. i \in Byte
    <3>1. x.bind \in Nat /\ x.type \in Nat
      BY <2>1 DEF Byte
    <3> DEFINE b == x.bind * 16
               t == x.type
    <3>2. b \in Nat /\ b = 16 * x.bind
      BY <3>1
    <3>3. b % 256 \in Nat /\ t % 16 \in Nat /\ t % 16 < 16
      BY <3>1, <3>2
    <3>4. b % 256 <= 240
      <4> DEFINE q == b \div 256
                 m == b % 256
      <4>1. b = 256 * q + m /\ m < 256 /\ m \in Nat /\ q \in Int
        <5> HIDE DEF b
        <5> QED
          BY <3>2
      <4> HIDE DEF q, m, b
      <4>2. m = 16 * (x.bind - 16 * q)
        BY <3>1, <3>2, <4>1
      <4>3. m <= 240
        BY <3>1, <4>1, <4>2
      <4> QED
        BY <4>3 DEF m
    <3> HIDE DEF b, t
    <3>5. (b % 256) + (t % 16) \in Nat /\ (b % 256) + (t % 16) < 256
      BY <3>3, <3>4
    <3> QED
      BY <3>5 DEF b, t, Byte
  <2> HIDE DEF i
  <2>3. v \in Strings /\ Len(v) = 1
    BY <2>2 DEF Strings
  <2> HIDE DEF v
  <2>4. /\ x.name \in Strings /\ Len(x.name) = 4 /\ x.value \in Strings
        /\ Len(x.value) = 8 /\ x.size \in Strings /\ Len(x.size) = 8
        /\ x.other \in Strings /\ Len(x.other) = 1
        /\ x.shndx \in Strings /\ Len(x.shndx) = 2
    BY <2>1, BytesAreStrings
  <2>5. Packed(what, c, x) =
          [st_name |-> x.name, st_value |-> x.value, st_size |-> x.size,
           st_info |-> v, st_other |-> x.other, st_shndx |-> x.shndx]
    BY <1>4 DEF Packed, SymFields, v, i
  <2> QED
    <3> DEFINE p == Packed(what, c, x)
    <3>1. /\ p["st_name"] = x.name /\ p["st_value"] = x.value
          /\ p["st_size"] = x.size /\ p["st_info"] = v
          /\ p["st_other"] = x.other /\ p["st_shndx"] = x.shndx
      BY <2>5
    <3> HIDE DEF p
    <3>2. /\ f \in {"st_name", "st_value", "st_size", "st_info", "st_other",
                    "st_shndx"}
          /\ Width(what, c, "st_name") <= 4 /\ Width(what, c, "st_value") <= 8
          /\ Width(what, c, "st_size") <= 8 /\ Width(what, c, "st_info") <= 1
          /\ Width(what, c, "st_other") <= 1 /\ Width(what, c, "st_shndx") <= 2
      BY <1>1, <1>4, SymWidths
    <3>3. CASE f = "st_name"
      BY <2>4, <3>1, <3>2, <3>3 DEF p
    <3>4. CASE f = "st_value"
      BY <2>4, <3>1, <3>2, <3>4 DEF p
    <3>5. CASE f = "st_size"
      BY <2>4, <3>1, <3>2, <3>5 DEF p
    <3>6. CASE f = "st_info"
      BY <2>3, <3>1, <3>2, <3>6 DEF p
    <3>7. CASE f = "st_other"
      BY <2>4, <3>1, <3>2, <3>7 DEF p
    <3>8. CASE f = "st_shndx"
      BY <2>4, <3>1, <3>2, <3>8 DEF p
    <3> QED
      BY <3>2, <3>3, <3>4, <3>5, <3>6, <3>7, <3>8
<1>5. CASE what = "DYNAMIC"
  <2>1. x.tag \in Bytes(8) /\ x.value \in Bytes(8)
    BY <1>5 DEF IsEntry
  <2>2. Zero(8) \in Bytes(8)
    BY DEF Zero, Bytes, Byte
  <2> DEFINE v == IF x.tag \in NoValue THEN Zero(8) ELSE x.value
  <2>3. v \in Bytes(8)
    BY <2>1, <2>2
  <2> HIDE DEF v
  <2>4. /\ x.tag \in Strings /\ Len(x.tag) = 8 /\ v \in Strings /\ Len(v) = 8
    BY <2>1, <2>3, BytesAreStrings
  <2>5. Packed(what, c, x) = [d_tag |-> x.tag, d_un |-> v]
    BY <1>5 DEF Packed, DynFields, v
  <2> QED
    <3> DEFINE p == Packed(what, c, x)
    <3>1. p["d_tag"] = x.tag /\ p["d_un"] = v
      BY <2>5
    <3> HIDE DEF p
    <3>2. /\ f \in {"d_tag", "d_un"} /\ Width(what, c, "d_tag") <= 8
          /\ Width(what, c, "d_un") <= 8
      BY <1>1, <1>5, DynWidths
    <3> QED
      BY <2>4, <3>1, <3>2 DEF p
<1>6. CASE what = "INIT_ARRAY"
  <2>1. x.address \in Bytes(8)
    BY <1>6 DEF IsEntry
  <2>2. x.address \in Strings /\ Len(x.address) = 8
    BY <2>1, BytesAreStrings
  <2>3. Packed(what, c, x) = [element |-> x.address]
    BY <1>6 DEF Packed
  <2> QED
    <3> DEFINE p == Packed(what, c, x)
    <3>1. p["element"] = x.address
      BY <2>3
    <3> HIDE DEF p
    <3>2. f = "element" /\ Width(what, c, "element") <= 8
      BY <1>1, <1>6, ElementWidths
    <3> QED
      BY <2>2, <3>1, <3>2 DEF p
<1> QED
  BY <1>2, <1>3, <1>4, <1>5, <1>6 DEF Kinds

(* The bytes r are what add_entry() or set_entry() makes of x.             *)
Inscribed(r, what, c, e, x) ==
  \A f \in Names(what, c) :
    Read(r, what, c, e, f) = Part(Packed(what, c, x)[f], 0, Width(what, c, f))

LEMMA RecordIs ==
  ASSUME host \in Encodings, NEW e \in Encodings, need_conversion = (e # host),
         NEW what \in Kinds, NEW c \in Classes, NEW x, IsEntry(what, x)
  PROVE  /\ Record(what, c, x) \in Strings
         /\ Len(Record(what, c, x)) = Size[what][c]
         /\ Inscribed(Record(what, c, x), what, c, e, x)
<1> DEFINE fields == FieldsOf(what, c)
           L == Len(fields)
           numbers == Packed(what, c, x)
           pieces == [n \in DOMAIN fields |->
                        Stored(need_conversion, numbers[fields[n][1]], fields[n][2])]
           r == FlattenSeq(pieces)
<1>1. what \in Structures
  BY DEF Structures
<1>2. IsTable(fields)
  BY <1>1, TablesTyped
<1>3. Record(what, c, x) = r /\ Size[what][c] = Begin(fields, L + 1)
  BY <1>1 DEF Record, Fields, Size
<1> HIDE DEF fields
<1>4. /\ DOMAIN fields = 1..L /\ \A n \in 1..L : IsField(fields[n])
  BY <1>2 DEF IsTable
<1> HIDE DEF L, numbers
<1>5. ASSUME NEW n \in 1..L
      PROVE  /\ pieces[n] \in Strings /\ Len(pieces[n]) = fields[n][2]
             /\ Decode(e, pieces[n]) = Part(numbers[fields[n][1]], 0, fields[n][2])
  <2> DEFINE f == fields[n][1]
             w == fields[n][2]
             v == numbers[f]
  <2>1. f \in Names(what, c) /\ Width(what, c, f) = w
    BY <1>4, WidthIs DEF fields
  <2>2. pieces[n] = Stored(e # host, v, w)
    BY <1>4
  <2>3. v \in Strings /\ w \in Nat /\ w <= Len(v)
    <3>1. v \in Strings /\ Width(what, c, f) <= Len(v)
      BY <2>1, PackedTyped DEF numbers
    <3>2. w \in 1..8
      BY <1>4 DEF IsField
    <3> QED
      BY <2>1, <3>1, <3>2
  <2> HIDE DEF v, w, pieces
  <2> QED
    BY <2>2, <2>3, StoredIs DEF v, w
<1>6. DOMAIN pieces = 1..L
  BY <1>4
<1>7. pieces \in [1..L -> Strings] /\ \A n \in 1..L : Len(pieces[n]) = fields[n][2]
  <2>1. pieces = [n \in 1..L |-> pieces[n]]
    BY <1>6
  <2> HIDE DEF pieces
  <2> QED
    BY <1>5, <2>1
<1> HIDE DEF pieces
<1>8. /\ r \in Strings /\ Len(r) = Begin(fields, L + 1)
      /\ \A n \in 1..L : Part(r, Begin(fields, n), fields[n][2]) = pieces[n]
  BY <1>2, <1>7, FlattenIs DEF L
<1> HIDE DEF r
<1>9. ASSUME NEW f \in Names(what, c)
      PROVE  Read(r, what, c, e, f)
               = Part(Packed(what, c, x)[f], 0, Width(what, c, f))
  <2>1. PICK n \in 1..L : f = fields[n][1]
    BY <1>4 DEF Names, fields
  <2>2. At(what, c, f) = Begin(fields, n) /\ Width(what, c, f) = fields[n][2]
    BY <1>4, <2>1, WidthIs DEF fields
  <2>3. Field(r, what, c, f) = Part(r, Begin(fields, n), fields[n][2])
    BY <1>1, <1>3, <1>8, <2>2, FieldIs
  <2> QED
    BY <1>5, <1>8, <2>1, <2>2, <2>3 DEF Read, numbers
<1> QED
  BY <1>3, <1>8, <1>9 DEF Inscribed

-----------------------------------------------------------------------------
(* Reading back                                                            *)

LEMMA ZeroIs ==
  ASSUME NEW n \in Nat
  PROVE  Zero(n) \in Strings /\ Len(Zero(n)) = n /\ \A k \in 1..n : Zero(n)[k] = 0
<1>1. Zero(n) \in Bytes(n)
  BY DEF Zero, Bytes, Byte
<1>2. \A k \in 1..n : Zero(n)[k] = 0
  BY DEF Zero
<1> QED
  BY <1>1, <1>2, BytesAreStrings

(* A number that fits the field is read as it was.                         *)
LEMMA WidenedIs ==
  ASSUME NEW v \in Bytes(8), NEW w \in {4, 8}, w = 4 => Unsigned32(v)
  PROVE  Widened(Part(v, 0, w)) = v
<1> DEFINE p == Part(v, 0, w)
           m == 8 - w
           z == Zero(m)
           r == p \o z
<1>1. v \in Strings /\ Len(v) = 8
  BY BytesAreStrings
<1>2. m \in Nat /\ w \in Nat /\ w <= Len(v) /\ m + w = 8
  BY <1>1
<1> HIDE DEF m
<1>3. p \in Strings /\ Len(p) = w /\ \A k \in 1..w : p[k] = v[k]
  BY <1>1, <1>2, Prefix
<1>4. z \in Strings /\ Len(z) = m /\ \A k \in 1..m : z[k] = 0
  BY <1>2, ZeroIs
<1>5. Widened(p) = r
  BY <1>2, <1>3 DEF Widened, m
<1> HIDE DEF p, z
<1>6. /\ r \in Strings /\ Len(r) = Len(p) + Len(z)
      /\ \A k \in 1..Len(p) + Len(z) :
           r[k] = IF k <= Len(p) THEN p[k] ELSE z[k - Len(p)]
  BY <1>3, <1>4, Joined
<1> HIDE DEF r
<1>7. Len(r) = 8 /\ \A k \in 1..8 : r[k] = IF k <= w THEN p[k] ELSE z[k - w]
  BY <1>2, <1>3, <1>4, <1>6
<1>8. ASSUME NEW k \in 1..8, ~(k <= w)
      PROVE  v[k] = 0
  <2>1. w = 4 /\ k - 4 \in 1..4 /\ 4 + (k - 4) = k
    BY <1>8
  <2>2. Part(v, 4, 4) = Zero(4)
    BY <2>1 DEF Unsigned32, Part
  <2>3. \A j \in 1..4 : Part(v, 4, 4)[j] = v[4 + j]
    <3>1. 4 \in Nat /\ 4 + 4 <= Len(v)
      BY <1>1
    <3> QED
      BY <1>1, <3>1, PartTyped
  <2>4. \A j \in 1..4 : Zero(4)[j] = 0
    BY ZeroIs
  <2> QED
    BY <2>1, <2>2, <2>3, <2>4
<1>9. \A k \in 1..8 : r[k] = v[k]
  <2>1. ASSUME NEW k \in 1..8
        PROVE  r[k] = v[k]
    <3>1. CASE k <= w
      <4>1. k \in 1..w
        BY <1>2, <3>1
      <4> QED
        BY <1>3, <1>7, <3>1, <4>1
    <3>2. CASE ~(k <= w)
      <4>1. k - w \in 1..m
        BY <1>2, <3>2
      <4> QED
        BY <1>4, <1>7, <1>8, <3>2, <4>1
    <3> QED
      BY <3>1, <3>2
  <2> QED
    BY <2>1
<1>10. r = v
  BY <1>1, <1>6, <1>7, <1>9, SeqEqual DEF Strings
<1> QED
  BY <1>5, <1>10 DEF p

LEMMA SignExtendedIs ==
  ASSUME NEW v \in Bytes(8), NEW w \in {4, 8}, w = 4 => Signed32(v)
  PROVE  SignExtended(Part(v, 0, w)) = v
<1>1. CASE w = 4
  BY <1>1 DEF Signed32, Narrow, Part
<1>2. CASE w = 8
  <2> DEFINE t == [b \in 1..8 - Len(v) |-> IF v[Len(v)] >= 128 THEN 255 ELSE 0]
             r == v \o t
  <2>1. v \in Strings /\ Len(v) = 8
    BY BytesAreStrings
  <2>2. Part(v, 0, 8) = v
    BY <2>1, WholePart
  <2>3. SignExtended(v) = r
    BY DEF SignExtended
  <2>4. t \in Strings /\ Len(t) = 0
    <3>1. t \in Bytes(0)
      BY <2>1 DEF Bytes, Byte
    <3> HIDE DEF t
    <3> QED
      BY <3>1, BytesAreStrings
  <2> HIDE DEF t
  <2>5. r = v
    <3>1. t = <<>>
      BY <2>4, EmptyIs
    <3>2. v \o <<>> = v
      BY <2>1, ConcatEmptySeq DEF Strings
    <3> QED
      BY <3>1, <3>2
  <2> QED
    BY <1>2, <2>2, <2>3, <2>5
<1> QED
  BY <1>1, <1>2

LEMMA FourBytes ==
  ASSUME NEW v \in Bytes(4)
  PROVE  v = <<v[1], v[2], v[3], v[4]>>
<1>1. v \in Strings /\ Len(v) = 4
  BY BytesAreStrings
<1>2. v[1] \in Byte /\ v[2] \in Byte /\ v[3] \in Byte /\ v[4] \in Byte
  BY DEF Bytes
<1> DEFINE r == <<v[1], v[2], v[3], v[4]>>
<1>3. r \in Seq(Byte) /\ Len(r) = 4
  BY <1>2
<1>4. r[1] = v[1] /\ r[2] = v[2] /\ r[3] = v[3] /\ r[4] = v[4]
  OBVIOUS
<1> HIDE DEF r
<1>5. \A k \in 1..4 : r[k] = v[k]
  BY <1>4
<1>6. r = v
  BY <1>1, <1>3, <1>5, SeqEqual DEF Strings
<1> QED
  BY <1>6 DEF r

(* A relocation's symbol and type, if they fit the field                   *)
LEMMA InfoBack ==
  ASSUME NEW c \in Classes, NEW s \in Bytes(4), NEW t \in Bytes(4),
         c = Class32 => s[4] = 0 /\ SubSeq(t, 2, 4) = Zero(3)
  PROVE  LET p == Part(Info(c, s, t), 0, Native(c))
         IN RSym(c, p) = s /\ RType(c, p) = t
<1> DEFINE i == Info(c, s, t)
           p == Part(i, 0, Native(c))
<1>1. i \in Strings /\ Len(i) = 8
  BY InfoIs
<1>2. CASE c = Class32
  <2>1. Native(c) = 4 /\ 4 <= Len(i)
    BY <1>1, <1>2 DEF Native
  <2>2. i[1] = t[1] /\ i[2] = s[1] /\ i[3] = s[2] /\ i[4] = s[3]
    BY <1>2, InfoIs
  <2> HIDE DEF i
  <2>3. \A k \in 1..4 : p[k] = i[k]
    <3>1. p = Part(i, 0, 4) /\ 4 \in Nat
      BY <2>1
    <3> HIDE DEF p
    <3>2. \A k \in 1..4 : Part(i, 0, 4)[k] = i[k]
      BY <1>1, <2>1, <3>1, Prefix
    <3> QED
      BY <3>1, <3>2
  <2> HIDE DEF p
  <2>4. p[1] = t[1] /\ p[2] = s[1] /\ p[3] = s[2] /\ p[4] = s[3]
    BY <2>2, <2>3
  <2>5. RSym(c, p) = <<s[1], s[2], s[3], 0>> /\ RType(c, p) = <<t[1], 0, 0, 0>>
    BY <1>2, <2>4 DEF RSym, RType
  <2>6. t[2] = 0 /\ t[3] = 0 /\ t[4] = 0
    <3>1. t \in Strings /\ 1 + 3 <= Len(t) /\ 1 \in Nat /\ 3 \in Nat
      BY BytesAreStrings
    <3>2. \A k \in 1..3 : Part(t, 1, 3)[k] = t[1 + k]
      BY <3>1, PartTyped
    <3>3. Part(t, 1, 3) = Zero(3)
      BY <1>2 DEF Part
    <3>4. \A k \in 1..3 : Zero(3)[k] = 0
      BY ZeroIs
    <3>5. \A k \in 1..3 : t[1 + k] = 0
      BY <3>2, <3>3, <3>4
    <3> QED
      BY <3>5
  <2>7. s[4] = 0
    BY <1>2
  <2> QED
    BY <2>5, <2>6, <2>7, FourBytes DEF p, i
<1>3. CASE c # Class32
  <2>1. Native(c) = 8
    BY <1>3 DEF Native
  <2>2. Part(i, 4, 4) = s /\ Part(i, 0, 4) = t
    BY <1>3, InfoIs
  <2> HIDE DEF i
  <2>3. p = i
    BY <1>1, <2>1, WholePart
  <2> HIDE DEF p
  <2>4. RSym(c, p) = Part(i, 4, 4) /\ RType(c, p) = Part(i, 0, 4)
    BY <1>3, <2>3 DEF RSym, RType, Part
  <2> QED
    BY <2>2, <2>4 DEF p, i
<1> QED
  BY <1>2, <1>3

(* st_info, for a symbol's binding and type of four bits each              *)
LEMMA InfoByte ==
  ASSUME NEW b \in Nat, NEW t \in Nat, b < 16, t < 16
  PROVE  LET i == ((b * 16) % 256) + (t % 16)
         IN i \in Nat /\ i \div 16 = b /\ i % 16 = t
<1>1. b \in 0..15 /\ t \in 0..15
  OBVIOUS
<1>2. (b * 16) % 256 = b * 16 /\ t % 16 = t
  OBVIOUS
<1> DEFINE i == b * 16 + t
<1>3. i \in Nat /\ i \div 16 = b /\ i % 16 = t
  OBVIOUS
<1> QED
  BY <1>2, <1>3

(* The numbers that get_entry() finds in the fields of the bytes r         *)
Found(r, what, c, e) == [f \in Names(what, c) |-> Read(r, what, c, e, f)]

(* What get_entry() returns of them                                        *)
EntryIn(r, what, c, e) == Unpacked(what, c, Found(r, what, c, e))

LEMMA FoundIs ==
  ASSUME NEW what \in Kinds, NEW c \in Classes, NEW e, NEW x, NEW r,
         Inscribed(r, what, c, e, x), NEW f \in Names(what, c)
  PROVE  Found(r, what, c, e)[f] = Part(Packed(what, c, x)[f], 0, Width(what, c, f))
BY DEF Found, Inscribed

(* An entry that fits its fields is read as it was added.                  *)
LEMMA RoundTrip ==
  ASSUME NEW what \in Kinds, NEW c \in Classes, NEW e, NEW x, IsEntry(what, x),
         NEW r, Inscribed(r, what, c, e, x), Fits(what, c, x)
  PROVE  EntryIn(r, what, c, e) = x
<1> DEFINE u == Found(r, what, c, e)
<1>1. \A f \in Names(what, c) :
        u[f] = Part(Packed(what, c, x)[f], 0, Width(what, c, f))
  BY FoundIs
<1> HIDE DEF u
<1>2. Native(c) \in {4, 8} /\ (Native(c) = 4 => c = Class32)
  BY DEF Native
<1>3. EntryIn(r, what, c, e) = Unpacked(what, c, u)
  BY DEF EntryIn, u
<1>4. CASE what = "REL"
  <2>1. x \in [offset : Bytes(8), symbol : Bytes(4), type : Bytes(4)]
    BY <1>4 DEF IsEntry
  <2>2. c = Class32 => /\ Unsigned32(x.offset) /\ x.symbol[4] = 0
                       /\ SubSeq(x.type, 2, 4) = Zero(3)
    BY <1>4 DEF Fits
  <2> DEFINE i == Info(c, x.symbol, x.type)
             p == Packed(what, c, x)
  <2>3. p["r_offset"] = x.offset /\ p["r_info"] = i
    BY <1>4 DEF Packed, RelFields
  <2> HIDE DEF i, p
  <2>4. /\ "r_offset" \in Names(what, c) /\ "r_info" \in Names(what, c)
        /\ Width(what, c, "r_offset") = Native(c)
        /\ Width(what, c, "r_info") = Native(c)
    BY <1>4, RelWidths
  <2>5. u["r_offset"] = Part(x.offset, 0, Native(c)) /\ u["r_info"] = Part(i, 0, Native(c))
    BY <1>1, <2>3, <2>4 DEF p
  <2>6. Widened(u["r_offset"]) = x.offset
    <3>1. x.offset \in Bytes(8)
      BY <2>1
    <3> QED
      BY <1>2, <2>2, <2>5, <3>1, WidenedIs
  <2>7. RSym(c, u["r_info"]) = x.symbol /\ RType(c, u["r_info"]) = x.type
    <3>1. x.symbol \in Bytes(4) /\ x.type \in Bytes(4)
      BY <2>1
    <3> QED
      BY <2>2, <2>5, <3>1, InfoBack DEF i
  <2>8. Unpacked(what, c, u) =
          [offset |-> x.offset, symbol |-> x.symbol, type |-> x.type]
    BY <1>4, <2>6, <2>7 DEF Unpacked, RelEntry
  <2> QED
    BY <1>3, <2>1, <2>8
<1>5. CASE what = "RELA"
  <2>1. x \in [offset : Bytes(8), symbol : Bytes(4), type : Bytes(4),
               addend : Bytes(8)]
    BY <1>5 DEF IsEntry
  <2>2. c = Class32 => /\ Unsigned32(x.offset) /\ x.symbol[4] = 0
                       /\ SubSeq(x.type, 2, 4) = Zero(3) /\ Signed32(x.addend)
    BY <1>5 DEF Fits
  <2> DEFINE i == Info(c, x.symbol, x.type)
             p == Packed(what, c, x)
  <2>3. p["r_offset"] = x.offset /\ p["r_info"] = i /\ p["r_addend"] = x.addend
    BY <1>5 DEF Packed, RelaFields
  <2> HIDE DEF i, p
  <2>4. /\ "r_offset" \in Names(what, c) /\ "r_info" \in Names(what, c)
        /\ "r_addend" \in Names(what, c)
        /\ Width(what, c, "r_offset") = Native(c)
        /\ Width(what, c, "r_info") = Native(c)
        /\ Width(what, c, "r_addend") = Native(c)
    BY <1>5, RelaWidths
  <2>5. /\ u["r_offset"] = Part(x.offset, 0, Native(c))
        /\ u["r_info"] = Part(i, 0, Native(c))
        /\ u["r_addend"] = Part(x.addend, 0, Native(c))
    BY <1>1, <2>3, <2>4 DEF p
  <2>6. Widened(u["r_offset"]) = x.offset
    <3>1. x.offset \in Bytes(8)
      BY <2>1
    <3> QED
      BY <1>2, <2>2, <2>5, <3>1, WidenedIs
  <2>7. RSym(c, u["r_info"]) = x.symbol /\ RType(c, u["r_info"]) = x.type
    <3>1. x.symbol \in Bytes(4) /\ x.type \in Bytes(4)
      BY <2>1
    <3> QED
      BY <2>2, <2>5, <3>1, InfoBack DEF i
  <2>8. SignExtended(u["r_addend"]) = x.addend
    <3>1. x.addend \in Bytes(8)
      BY <2>1
    <3> QED
      BY <1>2, <2>2, <2>5, <3>1, SignExtendedIs
  <2>9. Unpacked(what, c, u) =
          [offset |-> x.offset, symbol |-> x.symbol, type |-> x.type,
           addend |-> x.addend]
    BY <1>5, <2>6, <2>7, <2>8 DEF Unpacked, RelaEntry
  <2> QED
    BY <1>3, <2>1, <2>9
<1>6. CASE what = "SYMTAB"
  <2>1. x \in [name : Bytes(4), value : Bytes(8), size : Bytes(8), bind : Byte,
               type : Byte, other : Bytes(1), shndx : Bytes(2)]
    BY <1>6 DEF IsEntry
  <2>2. /\ x.bind < 16 /\ x.type < 16
        /\ c = Class32 => Unsigned32(x.value) /\ Unsigned32(x.size)
    BY <1>6 DEF Fits
  <2> DEFINE i == ((x.bind * 16) % 256) + (x.type % 16)
             p == Packed(what, c, x)
  <2>3. /\ p["st_name"] = x.name /\ p["st_value"] = x.value
        /\ p["st_size"] = x.size /\ p["st_info"] = <<i>>
        /\ p["st_other"] = x.other /\ p["st_shndx"] = x.shndx
    <3> HIDE DEF i
    <3>1. p = [st_name |-> x.name, st_value |-> x.value, st_size |-> x.size,
               st_info |-> <<i>>, st_other |-> x.other, st_shndx |-> x.shndx]
      BY <1>6 DEF Packed, SymFields, i
    <3> HIDE DEF p
    <3> QED
      BY <3>1
  <2> HIDE DEF i, p
  <2>4. /\ Names(what, c) = {"st_name", "st_value", "st_size", "st_info",
                             "st_other", "st_shndx"}
        /\ Width(what, c, "st_name") = 4
        /\ Width(what, c, "st_value") = Native(c)
        /\ Width(what, c, "st_size") = Native(c)
        /\ Width(what, c, "st_info") = 1
        /\ Width(what, c, "st_other") = 1
        /\ Width(what, c, "st_shndx") = 2
    BY <1>6, SymWidths
  <2>5. /\ u["st_name"] = Part(x.name, 0, 4)
        /\ u["st_value"] = Part(x.value, 0, Native(c))
        /\ u["st_size"] = Part(x.size, 0, Native(c))
        /\ u["st_info"] = Part(<<i>>, 0, 1)
        /\ u["st_other"] = Part(x.other, 0, 1)
        /\ u["st_shndx"] = Part(x.shndx, 0, 2)
    <3>1. /\ "st_name" \in Names(what, c) /\ "st_value" \in Names(what, c)
          /\ "st_size" \in Names(what, c) /\ "st_info" \in Names(what, c)
          /\ "st_other" \in Names(what, c) /\ "st_shndx" \in Names(what, c)
      BY <2>4
    <3>2. /\ u["st_name"] = Part(p["st_name"], 0, Width(what, c, "st_name"))
          /\ u["st_value"] = Part(p["st_value"], 0, Width(what, c, "st_value"))
          /\ u["st_size"] = Part(p["st_size"], 0, Width(what, c, "st_size"))
          /\ u["st_info"] = Part(p["st_info"], 0, Width(what, c, "st_info"))
          /\ u["st_other"] = Part(p["st_other"], 0, Width(what, c, "st_other"))
          /\ u["st_shndx"] = Part(p["st_shndx"], 0, Width(what, c, "st_shndx"))
      BY <1>1, <3>1 DEF p
    <3> QED
      BY <2>3, <2>4, <3>2
  <2>6. /\ x.name \in Bytes(4) /\ x.value \in Bytes(8) /\ x.size \in Bytes(8)
        /\ x.other \in Bytes(1) /\ x.shndx \in Bytes(2)
    BY <2>1
  <2>7. Widened(u["st_value"]) = x.value /\ Widened(u["st_size"]) = x.size
    BY <1>2, <2>2, <2>5, <2>6, WidenedIs
  <2>8. u["st_name"] = x.name /\ u["st_other"] = x.other /\ u["st_shndx"] = x.shndx
    <3>1. /\ x.name \in Strings /\ Len(x.name) = 4
          /\ x.other \in Strings /\ Len(x.other) = 1
          /\ x.shndx \in Strings /\ Len(x.shndx) = 2
      BY <2>6, BytesAreStrings
    <3> QED
      BY <2>5, <3>1, WholePart
  <2>9. /\ x.bind \in Nat /\ x.type \in Nat
    BY <2>1 DEF Byte
  <2>10. i \in Nat /\ i \div 16 = x.bind /\ i % 16 = x.type
    <3> DEFINE b == x.bind
               t == x.type
    <3>1. b \in Nat /\ t \in Nat /\ b < 16 /\ t < 16
      BY <2>2, <2>9
    <3> HIDE DEF b, t
    <3> DEFINE j == ((b * 16) % 256) + (t % 16)
    <3>2. j \in Nat /\ j \div 16 = b /\ j % 16 = t
      BY <3>1, InfoByte
    <3>3. i = j
      BY DEF i, b, t
    <3> HIDE DEF j
    <3> QED
      BY <3>2, <3>3 DEF b, t
  <2>11. u["st_info"] = <<i>>
    <3> DEFINE v == <<i>>
    <3>1. v \in Seq(Nat) /\ Len(v) = 1
      BY <2>10
    <3> HIDE DEF v
    <3>2. SubSeq(v, 1, 1) = v
      BY <3>1, SubSeqFull
    <3>3. Part(v, 0, 1) = v
      BY <3>2 DEF Part
    <3> QED
      BY <2>5, <3>3 DEF v
  <2>12. u["st_info"][1] = i
    BY <2>11
  <2>13. u["st_info"][1] \div 16 = x.bind /\ u["st_info"][1] % 16 = x.type
    BY <2>10, <2>12
  <2>14. Unpacked(what, c, u) =
           [name |-> x.name, value |-> x.value, size |-> x.size,
            bind |-> x.bind, type |-> x.type, other |-> x.other,
            shndx |-> x.shndx]
    <3>1. Unpacked(what, c, u) = SymEntry(u)
      BY <1>6 DEF Unpacked
    <3> QED
      BY <2>7, <2>8, <2>13, <3>1 DEF SymEntry
  <2> QED
    BY <1>3, <2>1, <2>14
<1>7. CASE what = "DYNAMIC"
  <2>1. x \in [tag : Bytes(8), value : Bytes(8)]
    BY <1>7 DEF IsEntry
  <2>2. /\ x.tag \in NoValue => x.value = Zero(8)
        /\ c = Class32 => Signed32(x.tag) /\ Unsigned32(x.value)
    BY <1>7 DEF Fits
  <2> DEFINE p == Packed(what, c, x)
             z == Zero(8)
             v == IF x.tag \in NoValue THEN z ELSE x.value
  <2>3. v = x.value
    BY <2>2
  <2> HIDE DEF z, v
  <2>4. p["d_tag"] = x.tag /\ p["d_un"] = v
    <3>1. p = [d_tag |-> x.tag, d_un |-> v]
      BY <1>7 DEF Packed, DynFields, v, z
    <3> HIDE DEF p
    <3> QED
      BY <3>1
  <2> HIDE DEF p
  <2>5. /\ "d_tag" \in Names(what, c) /\ "d_un" \in Names(what, c)
        /\ Width(what, c, "d_tag") = Native(c)
        /\ Width(what, c, "d_un") = Native(c)
    BY <1>7, DynWidths
  <2>6. /\ u["d_tag"] = Part(x.tag, 0, Native(c))
        /\ u["d_un"] = Part(x.value, 0, Native(c))
    BY <1>1, <2>3, <2>4, <2>5 DEF p
  <2>7. x.tag \in Bytes(8) /\ x.value \in Bytes(8)
    BY <2>1
  <2>8. SignExtended(u["d_tag"]) = x.tag
    BY <1>2, <2>2, <2>6, <2>7, SignExtendedIs
  <2>9. Widened(u["d_un"]) = x.value
    BY <1>2, <2>2, <2>6, <2>7, WidenedIs
  <2>10. Unpacked(what, c, u) = [tag |-> x.tag, value |-> x.value]
    <3>1. Unpacked(what, c, u) = DynEntry(u)
      BY <1>7 DEF Unpacked
    <3>2. DynEntry(u) = [tag |-> SignExtended(u["d_tag"]),
                         value |-> IF SignExtended(u["d_tag"]) \in NoValue
                                   THEN z ELSE Widened(u["d_un"])]
      BY DEF DynEntry, z
    <3> QED
      BY <2>2, <2>8, <2>9, <3>1, <3>2 DEF z
  <2> QED
    BY <1>3, <2>1, <2>10
<1>8. CASE what = "INIT_ARRAY"
  <2>1. x \in [address : Bytes(8)]
    BY <1>8 DEF IsEntry
  <2>2. c = Class32 => Unsigned32(x.address)
    BY <1>8 DEF Fits
  <2> DEFINE p == Packed(what, c, x)
  <2>3. p["element"] = x.address
    BY <1>8 DEF Packed
  <2> HIDE DEF p
  <2>4. "element" \in Names(what, c) /\ Width(what, c, "element") = Native(c)
    BY <1>8, ElementWidths
  <2>5. u["element"] = Part(x.address, 0, Native(c))
    BY <1>1, <2>3, <2>4 DEF p
  <2>6. Widened(u["element"]) = x.address
    <3>1. x.address \in Bytes(8)
      BY <2>1
    <3> QED
      BY <1>2, <2>2, <2>5, <3>1, WidenedIs
  <2>7. Unpacked(what, c, u) = [address |-> x.address]
    BY <1>8, <2>6 DEF Unpacked
  <2> QED
    BY <1>3, <2>1, <2>7
<1> QED
  BY <1>4, <1>5, <1>6, <1>7, <1>8 DEF Kinds

-----------------------------------------------------------------------------
(* Sizes and numbers                                                       *)

LEMMA KindSize ==
  ASSUME NEW what \in Kinds, NEW c \in Classes
  PROVE  Size[what][c] \in Nat /\ Size[what][c] > 0 /\ Size[what][c] <= 48
<1> DEFINE fields == FieldsOf(what, c)
           L == Len(fields)
<1>1. what \in Structures
  BY DEF Structures
<1>2. IsTable(fields) /\ Size[what][c] = Begin(fields, L + 1)
  BY <1>1, TablesTyped DEF Size
<1>3. L \in 1..6
  <2>1. L \in {6, 2, 3, 1}
    BY SymTyped, SmallTyped DEF Kinds, FieldsOf
  <2> HIDE DEF L
  <2> QED
    BY <2>1
<1> HIDE DEF fields
<1>4. Begin(fields, 1) = 0 /\ Begin(fields, L + 1) \in Nat
  <2>1. L + 1 \in 1..L + 1
    BY <1>3
  <2> QED
    BY <1>2, <2>1, FieldsFollow
<1>5. Begin(fields, L + 1) - Begin(fields, 1) \in L + 1 - 1..8 * (L + 1 - 1)
  <2>1. 1 \in 1..L /\ L + 1 \in 1..L + 1 /\ 1 < L + 1
    <3> HIDE DEF L
    <3> QED
      BY <1>3
  <2> DEFINE m == L + 1
  <2>2. m \in 1..Len(fields) + 1 /\ 1 \in 1..Len(fields) /\ 1 < m
    BY <2>1
  <2> HIDE DEF m
  <2>3. Begin(fields, m) - Begin(fields, 1) \in m - 1..8 * (m - 1)
    BY <1>2, <2>2, FieldsApart
  <2> QED
    BY <2>3 DEF m
<1> HIDE DEF L
<1> QED
  BY <1>2, <1>3, <1>4, <1>5

LEMMA Quotient ==
  ASSUME NEW a \in Nat, a > 0, NEW q \in Nat
  PROVE  (q * a) \div a = q
<1> DEFINE n == q * a
           d == n \div a
           m == n % a
<1>1. n \in Nat /\ n = a * q
  OBVIOUS
<1> HIDE DEF n
<1>2. n = a * d + m /\ m \in Nat /\ m < a /\ d \in Int
  BY <1>1
<1> HIDE DEF d, m
<1>3. ~(d < q)
  <2> SUFFICES ASSUME d + 1 <= q PROVE FALSE
    BY <1>2
  <2>1. a * (d + 1) <= a * q
    BY <1>2
  <2>2. a * (d + 1) = a * d + a
    BY <1>2
  <2> QED
    BY <1>1, <1>2, <2>1, <2>2
<1>4. ~(q < d)
  <2> SUFFICES ASSUME q + 1 <= d PROVE FALSE
    BY <1>2
  <2>1. a * (q + 1) <= a * d
    BY <1>2
  <2>2. a * (q + 1) = a * q + a
    BY <1>2
  <2> QED
    BY <1>1, <1>2, <2>1, <2>2
<1> QED
  BY <1>2, <1>3, <1>4 DEF d, n

(* All the entries that a section counts are in it.                        *)
LEMMA WithinQuotient ==
  ASSUME NEW a \in Nat, a > 0, NEW length \in Nat
  PROVE  /\ length \div a \in Nat
         /\ \A n \in Nat : n < length \div a => n * a \in Nat /\ n * a + a <= length
<1> DEFINE d == length \div a
           m == length % a
<1>1. length = a * d + m /\ m \in Nat /\ m < a /\ d \in Int
  OBVIOUS
<1>2. d \in Nat
  OBVIOUS
<1> HIDE DEF d, m
<1>3. ASSUME NEW n \in Nat, n < d
      PROVE  n * a \in Nat /\ n * a + a <= length
  <2>1. n + 1 <= d
    BY <1>2, <1>3
  <2>2. a * (n + 1) <= a * d
    BY <1>2, <2>1
  <2>3. a * (n + 1) = n * a + a /\ n * a \in Nat
    OBVIOUS
  <2>4. a * d \in Nat
    BY <1>2
  <2> QED
    BY <1>1, <2>2, <2>3, <2>4
<1> QED
  BY <1>2, <1>3 DEF d

LEMMA NeedIs ==
  ASSUME host \in Encodings, NEW e
  PROVE  NeedConversion(e) = (e # host)
BY HostIs DEF NeedConversion

LEMMA FetchedIs ==
  ASSUME host \in Encodings, NEW e \in Encodings, need_conversion = (e # host),
         NEW b \in Strings
  PROVE  Fetched(b) = Decode(e, b)
BY Conversions DEF Fetched

LEMMA TypeNumbers ==
  /\ \A k \in Kinds \cup {"none"} : TypeNumber(k) \in TwoBytes
  /\ \A k, m \in Kinds \cup {"none"} : TypeNumber(k) = TypeNumber(m) => k = m
<1>1. \A k \in Kinds \cup {"none"} : TypeNumber(k) \in Nat /\ TypeNumber(k) <= 160
  BY DEF TypeNumber, Kinds
<1>2. \A k, m \in Kinds \cup {"none"} : TypeNumber(k) = TypeNumber(m) => k = m
  BY DEF TypeNumber, Kinds
<1> QED
  BY <1>1, <1>2, SmallNumber

-----------------------------------------------------------------------------
(* Sections                                                                *)

NumberOf(s, c, e, f) == Value(Read(s, "Shdr", c, e, f))
Numbered == {"sh_type", "sh_size", "sh_offset", "sh_entsize"}

(* A section that holds entries of kind k, or nothing, in a file of class  *)
(* c and encoding e: its header s and its contents d                       *)
Section(k, c, e, s, d) ==
  /\ k \in Kinds \cup {"none"}
  /\ s \in Strings /\ Len(s) = Size["Shdr"][c] /\ d \in Strings
  /\ k = "none" => d = <<>> /\ s = Blank("Shdr", c)
  /\ k # "none" => /\ NumberOf(s, c, e, "sh_type") = TypeNumber(k)
                   /\ NumberOf(s, c, e, "sh_size") = Len(d)
                   /\ NumberOf(s, c, e, "sh_entsize") = DefaultEntrySize(k, c)

LEMMA NumbersSet ==
  ASSUME host \in Encodings, NEW c \in Classes, NEW e \in Encodings,
         NEW s \in Strings, Len(s) = Size["Shdr"][c],
         NEW f \in Numbered, NEW n \in TwoBytes
  PROVE  LET r == WithField(s, "Shdr", c, f, Number(n), e # host)
         IN /\ r \in Strings /\ Len(r) = Size["Shdr"][c]
            /\ NumberOf(r, c, e, f) = n
            /\ \A g \in Numbered \ {f} : NumberOf(r, c, e, g) = NumberOf(s, c, e, g)
<1> DEFINE r == WithField(s, "Shdr", c, f, Number(n), e # host)
<1>1. /\ "Shdr" \in Structures /\ f \in Names("Shdr", c) \ OneByte
      /\ Numbered \subseteq Names("Shdr", c)
  <2>1. Numbered \subseteq Names("Shdr", c) /\ f \notin OneByte
    BY HeaderNames DEF Numbered, OneByte
  <2> QED
    BY <2>1 DEF Structures
<1>2. /\ r \in Strings /\ Len(r) = Len(s) /\ Value(Read(r, "Shdr", c, e, f)) = n
      /\ \A g \in Names("Shdr", c) \ {f} :
           Field(r, "Shdr", c, g) = Field(s, "Shdr", c, g)
  BY <1>1, NumberSet
<1> HIDE DEF r
<1>3. \A g \in Numbered \ {f} : NumberOf(r, c, e, g) = NumberOf(s, c, e, g)
  BY <1>1, <1>2 DEF NumberOf, Read
<1> QED
  BY <1>2, <1>3 DEF r, NumberOf

LEMMA SectionFieldIs ==
  ASSUME host \in Encodings, header[5] \in Classes, header[6] \in Encodings,
         need_conversion = (header[6] # host), shdr \in Strings,
         Len(shdr) = Size["Shdr"][header[5]], NEW f \in Numbered
  PROVE  SectionField(f) = NumberOf(shdr, header[5], header[6], f)
<1>1. "Shdr" \in Structures /\ f \in Names("Shdr", header[5])
  BY HeaderNames DEF Structures, Numbered
<1>2. Field(shdr, "Shdr", header[5], f) \in Strings
  BY <1>1, FieldIs
<1>3. Fetched(Field(shdr, "Shdr", header[5], f))
        = Decode(header[6], Field(shdr, "Shdr", header[5], f))
  BY <1>2, FetchedIs
<1> QED
  BY <1>3 DEF SectionField, Class, NumberOf, Read

LEMMA BlankSection ==
  ASSUME NEW c \in Classes, NEW e \in Encodings
  PROVE  /\ Section("none", c, e, Blank("Shdr", c), <<>>)
         /\ \A f \in Numbered : NumberOf(Blank("Shdr", c), c, e, f) = 0
<1> DEFINE z == Blank("Shdr", c)
<1>1. "Shdr" \in Structures /\ \A f \in Numbered : f \in Names("Shdr", c) \ OneByte
  BY HeaderNames DEF Structures, Numbered, OneByte
<1>2. /\ z \in Strings /\ Len(z) = Size["Shdr"][c]
      /\ \A f \in Names("Shdr", c) \ OneByte : Value(Read(z, "Shdr", c, e, f)) = 0
  BY <1>1, BlankIs
<1> HIDE DEF z
<1>3. \A f \in Numbered : NumberOf(z, c, e, f) = 0
  BY <1>1, <1>2 DEF NumberOf
<1>4. Section("none", c, e, z, <<>>)
  BY <1>2, EmptyIs DEF Section, z
<1> QED
  BY <1>3, <1>4 DEF z

(* The number of the type tells what a section holds, if anything.         *)
LEMMA TypeIs ==
  ASSUME NEW k, NEW c \in Classes, NEW e \in Encodings, NEW s, NEW d,
         Section(k, c, e, s, d)
  PROVE  NumberOf(s, c, e, "sh_type") = TypeNumber(k)
<1>1. CASE k = "none"
  BY <1>1, BlankSection DEF Section, Numbered, TypeNumber
<1>2. CASE k # "none"
  BY <1>2 DEF Section
<1> QED
  BY <1>1, <1>2

(* The entries of kind k that a section's contents are: the n-th one, where *)
(* a DT_NULL is, how many are counted, and all of these                    *)
EntryAt(k, c, e, d, n) ==
  EntryIn(Part(d, (n - 1) * Size[k][c], Size[k][c]), k, c, e)

Ends(k, c, e, d) ==
  {n \in 1..Len(d) \div Size[k][c] : EntryAt(k, c, e, d, n).tag = Null}

NumIn(k, c, e, d) ==
  IF k = "DYNAMIC" /\ Ends(k, c, e, d) # {} THEN Min(Ends(k, c, e, d))
  ELSE Len(d) \div Size[k][c]

EntriesIn(k, c, e, d) ==
  [n \in 1..NumIn(k, c, e, d) |-> EntryAt(k, c, e, d, n)]

LEMMA LeastIsMin ==
  ASSUME NEW S \in SUBSET Nat, S # {}
  PROVE  Min(S) \in S /\ \A n \in S : Min(S) <= n
BY LeastElement DEF Min

(* A DT_NULL is the last one that is counted.                              *)
LEMMA NumInIs ==
  ASSUME NEW k, NEW c, NEW e, NEW d, Len(d) \div Size[k][c] \in Nat
  PROVE  LET all == Len(d) \div Size[k][c]
             num == NumIn(k, c, e, d)
         IN /\ num \in Nat /\ num <= all
            /\ k # "DYNAMIC" => num = all
            /\ num < all => /\ k = "DYNAMIC" /\ num > 0
                            /\ EntryAt(k, c, e, d, num).tag = Null
<1> DEFINE all == Len(d) \div Size[k][c]
           num == NumIn(k, c, e, d)
           S == Ends(k, c, e, d)
<1>1. /\ S \subseteq 1..all /\ all \in Nat
      /\ \A n \in S : EntryAt(k, c, e, d, n).tag = Null
  BY DEF Ends
<1>2. num = IF k = "DYNAMIC" /\ S # {} THEN Min(S) ELSE all
  BY DEF NumIn
<1> HIDE DEF all, num, S
<1>3. CASE k = "DYNAMIC" /\ S # {}
  <2>1. S \in SUBSET Nat
    BY <1>1
  <2>2. num \in S
    BY <1>2, <1>3, <2>1, LeastIsMin
  <2>3. num \in 1..all /\ EntryAt(k, c, e, d, num).tag = Null
    BY <1>1, <2>2
  <2>4. num \in Nat /\ num <= all /\ num > 0
    BY <1>1, <2>3
  <2> QED
    BY <1>3, <2>3, <2>4 DEF all, num
<1>4. CASE ~(k = "DYNAMIC" /\ S # {})
  <2>1. num = all
    BY <1>2, <1>4
  <2>2. num \in Nat /\ num <= all /\ ~(num < all)
    BY <1>1, <2>1
  <2> QED
    BY <2>1, <2>2 DEF all, num
<1> QED
  BY <1>3, <1>4

LEMMA EntriesAre ==
  ASSUME host \in Encodings, NEW c, c = header[5], c \in Classes,
         NEW e, e = header[6], e \in Encodings,
         need_conversion = (e # host), Section(kind, c, e, shdr, data),
         kind # "none"
  PROVE  /\ EntrySize = Size[kind][c] /\ EntriesNum = NumIn(kind, c, e, data)
         /\ Len(data) \div Size[kind][c] \in Nat
         /\ Entries = EntriesIn(kind, c, e, data)
<1> DEFINE w == Size[kind][c]
<1>1. kind \in Kinds /\ kind \in Structures /\ data \in Strings
  BY DEF Section, Structures
<1>2. \A f \in Numbered : SectionField(f) = NumberOf(shdr, c, e, f)
  BY SectionFieldIs DEF Section
<1>3. EntrySize = w
  <2>1. CASE kind = "INIT_ARRAY"
    BY <2>1 DEF EntrySize, Class
  <2>2. CASE kind # "INIT_ARRAY"
    BY <1>2, <2>2 DEF EntrySize, Numbered, Section, DefaultEntrySize
  <2> QED
    BY <2>1, <2>2
<1>4. SectionField("sh_size") \div EntrySize = Len(data) \div w
  BY <1>2, <1>3 DEF Numbered, Section
<1>5. w \in Nat /\ w > 0 /\ Len(data) \in Nat
  BY <1>1, KindSize, LenProperties DEF Strings
<1>6. DOMAIN Place[kind][c] = Names(kind, c)
  BY <1>1, Places
<1> DEFINE m == Len(data) \div w
<1>7. ASSUME NEW n \in 1..m
      PROVE  GetEntry(n - 1) = EntryAt(kind, c, e, data, n)
  <2> DEFINE q == n - 1
             b == Part(data, q * w, w)
  <2>1. q \in Nat /\ q < m /\ m \in Nat
    <3>1. m \in Nat
      BY <1>5, WithinQuotient
    <3> HIDE DEF m
    <3> QED
      BY <3>1
  <2> HIDE DEF q
  <2>2. q * w \in Nat /\ q * w + w <= Len(data)
    <3> HIDE DEF w
    <3> QED
      BY <1>5, <2>1, WithinQuotient
  <2>3. b \in Strings /\ Len(b) = w
    <3> DEFINE p == q * w
    <3> HIDE DEF p, w
    <3> QED
      BY <1>1, <1>5, <2>2, PartTyped DEF p
  <2> HIDE DEF b
  <2>4. SubSeq(data, q * w + 1, q * w + w) = b
    BY DEF b, Part
  <2>5. \A f \in Names(kind, c) : Fetched(Field(b, kind, c, f)) = Read(b, kind, c, e, f)
    <3>1. \A f \in Names(kind, c) : Field(b, kind, c, f) \in Strings
      BY <1>1, <2>3, FieldIs
    <3> QED
      BY <3>1, FetchedIs DEF Read
  <2>6. [f \in Names(kind, c) |-> Fetched(Field(b, kind, c, f))] = Found(b, kind, c, e)
    BY <2>5 DEF Found
  <2>7. GetEntry(q) = Unpacked(kind, c, [f \in Names(kind, c) |->
                                           Fetched(Field(b, kind, c, f))])
    <3>1. Class = c
      BY DEF Class
    <3> HIDE DEF w
    <3>2. Size[kind][Class] = w
      BY <3>1 DEF w
    <3> QED
      BY <1>3, <1>6, <2>4, <3>1, <3>2 DEF GetEntry
  <2> QED
    BY <2>6, <2>7 DEF EntryAt, EntryIn, b, q, w
<1>8. m \in Nat
  BY <1>5, WithinQuotient
<1> DEFINE E == {n \in 1..m : GetEntry(n - 1).tag = Null}
           S == Ends(kind, c, e, data)
           num == NumIn(kind, c, e, data)
<1>9. EntriesNum = IF kind = "DYNAMIC" /\ E # {} THEN Min(E) ELSE m
  BY <1>4 DEF EntriesNum
<1>10. S = {n \in 1..m : EntryAt(kind, c, e, data, n).tag = Null}
  BY DEF Ends
<1>11. num = IF kind = "DYNAMIC" /\ S # {} THEN Min(S) ELSE m
  BY DEF NumIn
<1>12. EntriesNum = num
  <2>1. E = S
    <3> HIDE DEF m, S
    <3> QED
      BY <1>7, <1>10
  <2> HIDE DEF E, S, m, num
  <2> QED
    BY <1>9, <1>11, <2>1
<1>13. num \in Nat /\ num <= m
  BY <1>8, NumInIs
<1>14. Entries = [n \in 1..num |-> GetEntry(n - 1)]
  BY <1>12 DEF Entries
<1>15. EntriesIn(kind, c, e, data) = [n \in 1..num |-> EntryAt(kind, c, e, data, n)]
  BY DEF EntriesIn
<1>16. \A n \in 1..num : GetEntry(n - 1) = EntryAt(kind, c, e, data, n)
  <2>1. \A n \in 1..num : n \in 1..m
    <3> HIDE DEF num, m
    <3> QED
      BY <1>8, <1>13
  <2> HIDE DEF num, m
  <2> QED
    BY <1>7, <2>1
<1>17. Entries = EntriesIn(kind, c, e, data)
  <2> HIDE DEF num
  <2> QED
    BY <1>14, <1>15, <1>16
<1>18. Len(data) \div Size[kind][c] = m
  OBVIOUS
<1> HIDE DEF w, m, num
<1> QED
  BY <1>3, <1>8, <1>12, <1>17, <1>18 DEF w, num

(* The tag of a dynamic entry is read as DT_NULL if what the field holds   *)
(* of it is zero.                                                          *)
LEMMA SignExtendedNull ==
  ASSUME NEW v \in Strings, Len(v) \in {4, 8}
  PROVE  SignExtended(v) = Null <=> v = Zero(Len(v))
<1> DEFINE m == Len(v)
           t == [b \in 1..8 - m |-> IF v[m] >= 128 THEN 255 ELSE 0]
           r == v \o t
<1>1. m \in {4, 8} /\ 8 - m \in Nat
  <2>1. m \in {4, 8}
    OBVIOUS
  <2> HIDE DEF m, t, r
  <2> QED
    BY <2>1
<1>0. SignExtended(v) = r
  BY DEF SignExtended
<1>2. t \in Strings /\ Len(t) = 8 - m
  <2>1. t \in Bytes(8 - m)
    BY <1>1 DEF Bytes, Byte
  <2> HIDE DEF t, m
  <2> QED
    BY <1>1, <2>1, BytesAreStrings
<1>3. Zero(8) \in Strings /\ Len(Zero(8)) = 8 /\ \A b \in 1..8 : Zero(8)[b] = 0
  BY ZeroIs
<1>4. Zero(m) \in Strings /\ Len(Zero(m)) = m /\ \A b \in 1..m : Zero(m)[b] = 0
  BY <1>1, ZeroIs
<1>5. \A b \in 1..8 - m : t[b] = IF v[m] >= 128 THEN 255 ELSE 0
  OBVIOUS
<1> HIDE DEF t
<1>6. /\ r \in Strings /\ Len(r) = 8
      /\ \A b \in 1..m : r[b] = v[b]
      /\ \A b \in 1..8 - m : r[m + b] = t[b]
  <2>1. Len(r) = 8
    BY <1>1, <1>2, ConcatProperties DEF Strings
  <2>2. r \in Strings
    BY <1>2, ConcatProperties DEF Strings
  <2>3. \A b \in 1..Len(v) + Len(t) :
          r[b] = IF b <= Len(v) THEN v[b] ELSE t[b - Len(v)]
    BY <1>2, ConcatProperties DEF Strings
  <2>4. \A b \in 1..m : b \in 1..8 /\ b <= m
    BY <1>1
  <2>5. \A b \in 1..8 - m : m + b \in 1..8 /\ ~(m + b <= m) /\ m + b - m = b
    <3> HIDE DEF m, r
    <3> QED
      BY <1>1
  <2>6. Len(v) + Len(t) = 8
    BY <1>1, <1>2
  <2> HIDE DEF r
  <2> QED
    BY <2>1, <2>2, <2>3, <2>4, <2>5, <2>6
<1> HIDE DEF r
<1>7. ASSUME r = Zero(8) PROVE v = Zero(m)
  <2>1. \A b \in 1..m : v[b] = Zero(m)[b]
    <3>1. \A b \in 1..m : b \in 1..8
      BY <1>1
    <3> QED
      BY <1>3, <1>4, <1>6, <1>7, <3>1
  <2> QED
    BY <1>4, <2>1, SeqEqual DEF Strings
<1>8. ASSUME v = Zero(m) PROVE r = Zero(8)
  <2>1. v[m] = 0
    BY <1>1, <1>4, <1>8
  <2>2. \A b \in 1..8 - m : t[b] = 0
    BY <1>5, <2>1
  <2>3. \A b \in 1..8 : r[b] = 0
    <3> SUFFICES ASSUME NEW b \in 1..8 PROVE r[b] = 0
      OBVIOUS
    <3>1. CASE b <= m
      <4>1. b \in 1..m
        BY <1>1, <3>1
      <4> QED
        BY <1>4, <1>6, <1>8, <4>1
    <3>2. CASE ~(b <= m)
      <4>1. b - m \in 1..8 - m /\ m + (b - m) = b
        BY <1>1, <3>2
      <4> QED
        BY <1>6, <2>2, <4>1
    <3> QED
      BY <3>1, <3>2
  <2> DEFINE z == Zero(8)
  <2>4. z \in Seq(Byte) /\ r \in Seq(Byte) /\ Len(r) = Len(z) /\ Len(r) = 8
    BY <1>3, <1>6 DEF Strings
  <2>5. \A b \in 1..8 : r[b] = z[b]
    BY <1>3, <2>3
  <2> HIDE DEF z, m
  <2>6. r = z
    BY <2>4, <2>5, SeqEqual
  <2> QED
    BY <2>6 DEF z
<1> QED
  BY <1>0, <1>7, <1>8 DEF Null

LEMMA NullIs ==
  ASSUME NEW c \in Classes, NEW e, NEW x, IsEntry("DYNAMIC", x), NEW r,
         Inscribed(r, "DYNAMIC", c, e, x)
  PROVE  EntryIn(r, "DYNAMIC", c, e).tag = Null
           <=> Narrow(x.tag, Native(c)) = Zero(Native(c))
<1> DEFINE u == Found(r, "DYNAMIC", c, e)
           w == Native(c)
<1>1. "DYNAMIC" \in Kinds
  BY DEF Kinds
<1>2. \A f \in Names("DYNAMIC", c) :
        u[f] = Part(Packed("DYNAMIC", c, x)[f], 0, Width("DYNAMIC", c, f))
  BY <1>1, FoundIs
<1>3. EntryIn(r, "DYNAMIC", c, e) = DynEntry(u)
  BY DEF EntryIn, Unpacked
<1> HIDE DEF u
<1>4. DynEntry(u).tag = SignExtended(u["d_tag"])
  BY DEF DynEntry
<1>5. Packed("DYNAMIC", c, x)["d_tag"] = x.tag
  BY DEF Packed, DynFields
<1>6. "d_tag" \in Names("DYNAMIC", c) /\ Width("DYNAMIC", c, "d_tag") = w
  BY DynWidths
<1>7. u["d_tag"] = Part(x.tag, 0, w)
  BY <1>2, <1>5, <1>6
<1>8. x.tag \in Bytes(8)
  BY DEF IsEntry
<1>9. w \in {4, 8}
  BY DEF Native
<1> HIDE DEF w
<1>10. x.tag \in Strings /\ Len(x.tag) = 8
  BY <1>8, BytesAreStrings
<1>11. Part(x.tag, 0, w) \in Strings /\ Len(Part(x.tag, 0, w)) = w
  <2> DEFINE g == x.tag
  <2>1. g \in Strings /\ w \in Nat /\ 0 \in Nat /\ 0 + w <= Len(g)
    BY <1>9, <1>10
  <2> HIDE DEF g
  <2> QED
    BY <2>1, PartTyped DEF g
<1>12. Narrow(x.tag, w) = Part(x.tag, 0, w)
  BY <1>9 DEF Narrow, Part
<1>13. SignExtended(u["d_tag"]) = Null <=> u["d_tag"] = Zero(w)
  BY <1>7, <1>9, <1>11, SignExtendedNull
<1> QED
  BY <1>3, <1>4, <1>7, <1>12, <1>13 DEF w

(* The symbol at index 0, which add_entry() puts before the first one      *)
First(k, lg) == IF k = "SYMTAB" /\ Len(lg) > 0 THEN 1 ELSE 0

(* The entries that were added, as they are in the contents of the section *)
Logged(k, c, e, d, lg) ==
  /\ k = "none" => Len(lg) = 0
  /\ k # "none" =>
       /\ Len(d) = (Len(lg) + First(k, lg)) * Size[k][c]
       /\ \A n \in 1..Len(lg) :
            /\ IsEntry(k, lg[n])
            /\ Inscribed(Part(d, (n - 1 + First(k, lg)) * Size[k][c], Size[k][c]),
                         k, c, e, lg[n])

LEMMA Multiples ==
  ASSUME NEW a \in Nat, NEW m \in Nat, NEW n \in Nat
  PROVE  /\ m * a \in Nat /\ (m + 1) * a = m * a + a
         /\ m < n => m * a + a <= n * a
<1>1. m * a \in Nat /\ a * m = m * a /\ a * n = n * a
  OBVIOUS
<1>2. a * (m + 1) = a * m + a /\ (m + 1) * a = a * (m + 1)
  OBVIOUS
<1>3. m < n => a * (m + 1) <= a * n
  OBVIOUS
<1> QED
  BY <1>1, <1>2, <1>3

(* What is counted of the entries, in the section and in the log           *)
LEMMA CountedIs ==
  ASSUME NEW k, NEW c, NEW T, NEW lg \in Seq(T)
  PROVE  /\ Counted(k, c, lg) \in Nat /\ Counted(k, c, lg) <= Len(lg)
         /\ k # "DYNAMIC" => Counted(k, c, lg) = Len(lg)
<1> DEFINE S == {n \in DOMAIN lg : Narrow(lg[n].tag, Native(c)) = Zero(Native(c))}
           num == Counted(k, c, lg)
<1>1. num = IF k = "DYNAMIC" /\ S # {} THEN Min(S) ELSE Len(lg)
  BY DEF Counted
<1>2. Len(lg) \in Nat /\ DOMAIN lg = 1..Len(lg)
  BY LenProperties
<1>3. S \subseteq 1..Len(lg)
  BY <1>2
<1> HIDE DEF S, num
<1>4. CASE k = "DYNAMIC" /\ S # {}
  <2>1. S \in SUBSET Nat
    BY <1>3
  <2>2. num \in S
    BY <1>1, <1>4, <2>1, LeastIsMin
  <2>3. num \in 1..Len(lg)
    BY <1>3, <2>2
  <2>4. num \in Nat /\ num <= Len(lg)
    BY <1>2, <2>3
  <2> QED
    BY <1>4, <2>4 DEF num
<1>5. CASE ~(k = "DYNAMIC" /\ S # {})
  <2>1. num = Len(lg)
    BY <1>1, <1>5
  <2>2. num \in Nat /\ num <= Len(lg)
    BY <1>2, <2>1
  <2> QED
    BY <2>1, <2>2 DEF num
<1> QED
  BY <1>4, <1>5

LEMMA ReadsBack ==
  ASSUME NEW k \in Kinds, NEW c \in Classes, NEW e, NEW d \in Strings,
         NEW T, NEW lg \in Seq(T), Logged(k, c, e, d, lg)
  PROVE  /\ NumIn(k, c, e, d) = Counted(k, c, lg) + First(k, lg)
         /\ \A n \in 1..Counted(k, c, lg) : Fits(k, c, lg[n]) =>
              EntriesIn(k, c, e, d)[n + First(k, lg)] = lg[n]
<1> DEFINE w == Size[k][c]
           f == First(k, lg)
           L == Len(lg)
           m == Len(d) \div w
           num == NumIn(k, c, e, d)
           some == Counted(k, c, lg)
           It(n) == EntryAt(k, c, e, d, n)
<1>1. k # "none"
  BY DEF Kinds
<1>2. /\ w \in Nat /\ w > 0 /\ f \in {0, 1} /\ L \in Nat /\ DOMAIN lg = 1..L
      /\ (k = "DYNAMIC" => f = 0)
  BY KindSize, LenProperties DEF First
<1>3. /\ Len(d) = (L + f) * w
      /\ \A n \in 1..L : /\ IsEntry(k, lg[n])
                         /\ Inscribed(Part(d, (n - 1 + f) * w, w), k, c, e, lg[n])
  BY <1>1 DEF Logged
<1>4. \A p : It(p) = EntryIn(Part(d, (p - 1) * w, w), k, c, e)
  BY DEF EntryAt
<1>5. some \in Nat /\ some <= L /\ (k # "DYNAMIC" => some = L)
  BY CountedIs
<1> HIDE DEF w, f, L, It
<1>6. m = L + f
  <2> DEFINE q == L + f
  <2>1. q \in Nat
    BY <1>2
  <2> HIDE DEF q
  <2>2. (q * w) \div w = q
    BY <1>2, <2>1, Quotient
  <2> QED
    BY <1>3, <2>2 DEF q
<1>7. ASSUME NEW n \in 1..L
      PROVE  Inscribed(Part(d, ((n + f) - 1) * w, w), k, c, e, lg[n])
  <2>1. (n + f) - 1 = n - 1 + f
    BY <1>2
  <2> QED
    BY <1>3, <2>1
<1>8. num = some + f
  <2>1. CASE k = "DYNAMIC"
    <3> DEFINE S == Ends(k, c, e, d)
               E == {n \in DOMAIN lg :
                       Narrow(lg[n].tag, Native(c)) = Zero(Native(c))}
    <3>1. S = {n \in 1..m : It(n).tag = Null}
      BY DEF Ends, It, w
    <3>2. ASSUME NEW n \in 1..L
          PROVE  It(n).tag = Null <=> Narrow(lg[n].tag, Native(c)) = Zero(Native(c))
      <4> DEFINE r == Part(d, (n - 1) * w, w)
                 x == lg[n]
      <4>1. (n + f) - 1 = n - 1
        BY <1>2, <2>1
      <4>2. Inscribed(r, "DYNAMIC", c, e, x) /\ IsEntry("DYNAMIC", x)
        BY <1>3, <1>7, <2>1, <4>1
      <4>3. It(n) = EntryIn(r, "DYNAMIC", c, e)
        BY <1>4, <2>1
      <4> HIDE DEF r, x
      <4>4. EntryIn(r, "DYNAMIC", c, e).tag = Null
              <=> Narrow(x.tag, Native(c)) = Zero(Native(c))
        BY <4>2, NullIs
      <4> QED
        BY <4>3, <4>4 DEF x
    <3>3. m = L
      BY <1>2, <1>6, <2>1
    <3>4. S = E
      <4> HIDE DEF S, m
      <4> QED
        BY <1>2, <3>1, <3>2, <3>3
    <3>5. num = IF S # {} THEN Min(S) ELSE m
      BY <2>1 DEF NumIn, w
    <3>6. some = IF E # {} THEN Min(E) ELSE L
      BY <2>1 DEF Counted, L
    <3> HIDE DEF S, E, m, num, some
    <3>7. num = some
      BY <3>3, <3>4, <3>5, <3>6
    <3> QED
      BY <1>2, <1>5, <2>1, <3>7
  <2>2. CASE k # "DYNAMIC"
    <3>1. num = m
      BY <2>2 DEF NumIn, w
    <3> HIDE DEF num, m, some
    <3> QED
      BY <1>5, <1>6, <2>2, <3>1
  <2> QED
    BY <2>1, <2>2
<1>9. ASSUME NEW n \in 1..some, Fits(k, c, lg[n])
      PROVE  EntriesIn(k, c, e, d)[n + f] = lg[n]
  <2> DEFINE p == n + f
             r == Part(d, (p - 1) * w, w)
             x == lg[n]
  <2>1. n \in 1..L
    <3> HIDE DEF some
    <3> QED
      BY <1>2, <1>5
  <2>2. p \in 1..num
    <3> HIDE DEF some, num
    <3> QED
      BY <1>2, <1>5, <1>8
  <2>3. Inscribed(r, k, c, e, x) /\ IsEntry(k, x) /\ Fits(k, c, x)
    BY <1>3, <1>7, <1>9, <2>1
  <2>4. It(p) = EntryIn(r, k, c, e)
    BY <1>4
  <2> HIDE DEF p
  <2>5. EntriesIn(k, c, e, d)[p] = It(p)
    BY <2>2 DEF EntriesIn, It
  <2> HIDE DEF r, x
  <2>6. EntryIn(r, k, c, e) = x
    BY <2>3, RoundTrip
  <2>7. EntriesIn(k, c, e, d)[p] = lg[n]
    BY <2>4, <2>5, <2>6 DEF x
  <2> QED
    BY <2>7 DEF p
<1>10. num = some + f /\ \A n \in 1..some : Fits(k, c, lg[n]) =>
         EntriesIn(k, c, e, d)[n + f] = lg[n]
  BY <1>8, <1>9
<1> QED
  BY <1>10 DEF f

(* A new entry is the last one, and those before it stay.                  *)
LEMMA LogAppended ==
  ASSUME NEW k \in Kinds, NEW c \in Classes, NEW e, NEW d \in Strings,
         NEW T, NEW lg \in Seq(T), Logged(k, c, e, d, lg),
         NEW x \in T, IsEntry(k, x), NEW r \in Strings, Len(r) = Size[k][c],
         Inscribed(r, k, c, e, x), NEW pre,
         pre = IF k = "SYMTAB" /\ d = <<>> THEN Blank("SYMTAB", c) ELSE <<>>
  PROVE  Logged(k, c, e, d \o (pre \o r), Append(lg, x))
<1> DEFINE w == Size[k][c]
           f == First(k, lg)
           L == Len(lg)
           new == d \o (pre \o r)
           lg2 == Append(lg, x)
           g == First(k, lg2)
<1>1. k # "none" /\ k \in Structures
  BY DEF Kinds, Structures
<1>2. w \in Nat /\ w > 0 /\ f \in {0, 1} /\ L \in Nat /\ Len(d) \in Nat
  BY KindSize, LenProperties DEF First, Strings
<1>3. /\ Len(d) = (L + f) * w
      /\ \A n \in 1..L : /\ IsEntry(k, lg[n])
                         /\ Inscribed(Part(d, (n - 1 + f) * w, w), k, c, e, lg[n])
  BY <1>1 DEF Logged
<1>4. /\ Len(lg2) = L + 1 /\ lg2[L + 1] = x /\ \A n \in 1..L : lg2[n] = lg[n]
  BY AppendProperties
<1>5. g = IF k = "SYMTAB" THEN 1 ELSE 0
  BY <1>2, <1>4 DEF First
<1>6. k # "SYMTAB" => f = 0
  BY DEF First
<1>7. k = "SYMTAB" => (f = IF L > 0 THEN 1 ELSE 0)
  BY DEF First
<1> HIDE DEF f, L, g, lg2, w
<1>8. pre \in Strings /\ Len(pre) = IF k = "SYMTAB" /\ d = <<>> THEN w ELSE 0
  <2>1. CASE k = "SYMTAB" /\ d = <<>>
    <3>1. pre = Blank("SYMTAB", c)
      BY <2>1
    <3>2. "SYMTAB" \in Structures
      BY <1>1, <2>1
    <3>3. pre = Zero(w)
      BY <2>1, <3>1 DEF Blank, w
    <3> QED
      BY <1>2, <2>1, <3>3, ZeroIs
  <2>2. CASE ~(k = "SYMTAB" /\ d = <<>>)
    BY <2>2, EmptyIs
  <2> QED
    BY <2>1, <2>2
<1> DEFINE s == pre \o r
<1>9. s \in Strings /\ Len(s) = Len(pre) + w /\ Part(s, Len(pre), w) = r
  <2>1. Len(r) = w
    BY DEF w
  <2> HIDE DEF s
  <2> QED
    BY <1>8, <2>1, ConcatParts DEF s
<1> HIDE DEF s
<1>10. /\ d \o s \in Strings /\ Len(d \o s) = Len(d) + Len(s)
       /\ \A q, m \in Nat : q + m <= Len(d) => Part(d \o s, q, m) = Part(d, q, m)
       /\ \A q, m \in Nat : q + m <= Len(s) =>
            Part(d \o s, Len(d) + q, m) = Part(s, q, m)
  <2> HIDE DEF new
  <2>1. d \in Strings /\ s \in Strings
    BY <1>9
  <2>2. d \o s \in Strings /\ Len(d \o s) = Len(d) + Len(s)
    BY <2>1, ConcatParts
  <2>3. \A q, m \in Nat : q + m <= Len(d) => Part(d \o s, q, m) = Part(d, q, m)
    BY <2>1, ConcatParts
  <2>4. \A q, m \in Nat : q + m <= Len(s) =>
          Part(d \o s, Len(d) + q, m) = Part(s, q, m)
    BY <2>1, ConcatParts
  <2> QED
    BY <2>2, <2>3, <2>4
<1> DEFINE D == d \o s
<1>11. new = D
  BY DEF s
<1> HIDE DEF D, new
<1>12. Len(D) = (L + 1 + g) * w /\ Part(D, (L + g) * w, w) = r
       /\ (f = g \/ L = 0)
  <2>1. CASE k = "SYMTAB" /\ d = <<>>
    <3>1. Len(d) = 0 /\ Len(pre) = w /\ g = 1
      BY <1>5, <1>8, <2>1, EmptyIs
    <3>2. L = 0
      <4> DEFINE q == L + f
      <4>1. q \in Nat /\ q * w = 0
        <5>1. q \in Nat
          BY <1>2
        <5>2. Len(d) = q * w
          BY <1>3
        <5>3. Len(d) = 0
          BY <3>1
        <5> HIDE DEF q
        <5> QED
          BY <5>1, <5>2, <5>3
      <4>2. q = 0
        <5> HIDE DEF q
        <5>1. q # 0 => q * w > 0
          BY <1>2, <4>1
        <5> QED
          BY <4>1, <5>1
      <4> QED
        BY <1>2, <4>2
    <3>3. Len(D) = w + w /\ Part(D, Len(d) + w, w) = Part(s, w, w)
      BY <1>2, <1>9, <1>10, <3>1 DEF D
    <3>4. Len(d) + w = w /\ (L + 1 + g) * w = w + w /\ (L + g) * w = w
      BY <1>2, <3>1, <3>2
    <3> QED
      BY <1>9, <3>1, <3>2, <3>3, <3>4
  <2>2. CASE ~(k = "SYMTAB" /\ d = <<>>)
    <3>1. Len(pre) = 0
      BY <1>8, <2>2
    <3>2. f = g
      <4>1. CASE k # "SYMTAB"
        BY <1>5, <1>6, <4>1
      <4>2. CASE k = "SYMTAB"
        <5>1. Len(d) # 0
          BY <2>2, <4>2, EmptyIs
        <5>2. L = 0 => f = 0
          BY <1>7, <4>2
        <5>3. (0 + 0) * w = 0
          BY <1>2
        <5>4. L > 0
          BY <1>2, <1>3, <5>1, <5>2, <5>3
        <5> QED
          BY <1>5, <1>7, <4>2, <5>4
      <4> QED
        BY <4>1, <4>2
    <3> DEFINE q == L + f
    <3>3. q \in Nat /\ L + 1 + g = q + 1 /\ L + g = q
      BY <1>2, <3>2
    <3>4. Len(d) = q * w
      BY <1>3
    <3> HIDE DEF q
    <3>5. (q + 1) * w = q * w + w
      BY <1>2, <3>3, Multiples
    <3>6. Len(D) = Len(d) + w /\ Part(D, Len(d), w) = Part(s, 0, w)
      <4>1. Len(s) = w /\ 0 + w <= Len(s) /\ 0 \in Nat /\ Len(d) + 0 = Len(d)
        BY <1>2, <1>9, <3>1
      <4>2. Part(d \o s, Len(d) + 0, w) = Part(s, 0, w)
        BY <1>2, <1>10, <4>1
      <4> QED
        BY <1>10, <4>1, <4>2 DEF D
    <3>7. Part(s, 0, w) = r
      BY <1>9, <3>1
    <3> QED
      BY <3>2, <3>3, <3>4, <3>5, <3>6, <3>7
  <2> QED
    BY <2>1, <2>2
<1>13. ASSUME NEW n \in 1..L + 1
       PROVE  IsEntry(k, lg2[n]) /\ Inscribed(Part(D, (n - 1 + g) * w, w), k, c, e, lg2[n])
  <2>1. CASE n = L + 1
    <3>1. lg2[n] = x /\ n - 1 + g = L + g
      BY <1>2, <1>4, <1>5, <2>1
    <3>2. Part(D, (n - 1 + g) * w, w) = r
      BY <1>12, <3>1
    <3> QED
      BY <3>1, <3>2
  <2>2. CASE n # L + 1
    <3>1. n \in 1..L /\ f = g
      BY <1>2, <1>12, <2>2
    <3> DEFINE q == n - 1 + f
               p == L + f
    <3>2. q \in Nat /\ p \in Nat /\ q < p
      BY <1>2, <3>1
    <3> HIDE DEF q
    <3>3. q * w \in Nat /\ q * w + w <= Len(d)
      <4>1. Len(d) = p * w
        BY <1>3
      <4> HIDE DEF p
      <4> QED
        BY <1>2, <3>2, <4>1, Multiples
    <3>4. Part(D, q * w, w) = Part(d, q * w, w)
      <4> DEFINE y == q * w
      <4> HIDE DEF y
      <4> QED
        BY <1>2, <1>10, <3>3 DEF D, y
    <3> QED
      BY <1>3, <1>4, <3>1, <3>4 DEF q
  <2> QED
    BY <2>1, <2>2
<1>14. Logged(k, c, e, D, lg2)
  <2>1. Len(D) = (Len(lg2) + g) * w
    BY <1>4, <1>12
  <2>2. \A n \in 1..Len(lg2) :
          /\ IsEntry(k, lg2[n])
          /\ Inscribed(Part(D, (n - 1 + g) * w, w), k, c, e, lg2[n])
    BY <1>4, <1>13
  <2> QED
    BY <1>1, <2>1, <2>2 DEF Logged, g, w
<1> QED
  BY <1>11, <1>14 DEF new, lg2

(* Bytes written within a file                                             *)
LEMMA WrittenWithin ==
  ASSUME NEW file \in Strings, NEW pos \in Nat, NEW bytes \in Strings,
         pos + Len(bytes) <= Len(file)
  PROVE  LET r == Written(file, pos, bytes)
         IN /\ r \in Strings /\ Len(r) = Len(file)
            /\ Part(r, pos, Len(bytes)) = bytes
            /\ \A q, m \in Nat :
                 q + m <= Len(file) /\ (q + m <= pos \/ pos + Len(bytes) <= q) =>
                   Part(r, q, m) = Part(file, q, m)
<1> DEFINE r == Written(file, pos, bytes)
           t == Splice(file, pos, bytes)
<1>1. Len(file) \in Nat /\ Len(bytes) \in Nat
  BY LenProperties DEF Strings
<1>2. /\ r \in Strings
      /\ Len(r) = IF pos + Len(bytes) > Len(file) THEN pos + Len(bytes)
                  ELSE Len(file)
      /\ \A k \in 1..Len(r) :
           r[k] = IF pos < k /\ k <= pos + Len(bytes) THEN bytes[k - pos]
                  ELSE IF k <= Len(file) THEN file[k] ELSE 0
  BY WrittenIs
<1> HIDE DEF r
<1>3. Len(r) = Len(file)
  BY <1>1, <1>2
<1>4. /\ t \in Strings /\ Len(t) = Len(file)
      /\ \A k \in 1..Len(file) :
           t[k] = IF pos < k /\ k <= pos + Len(bytes) THEN bytes[k - pos] ELSE file[k]
  BY Spliced
<1> HIDE DEF t
<1>5. \A k \in 1..Len(r) : r[k] = t[k]
  <2>1. ASSUME NEW k \in 1..Len(file)
        PROVE  r[k] = t[k]
    <3>1. k \in 1..Len(r) /\ k <= Len(file)
      BY <1>1, <1>3
    <3> QED
      BY <1>2, <1>4, <3>1
  <2> QED
    BY <1>3, <2>1
<1>6. r = t
  BY <1>2, <1>3, <1>4, <1>5, SeqEqual DEF Strings
<1>7. /\ t \in Strings /\ Len(t) = Len(file)
      /\ Part(t, pos, Len(bytes)) = bytes
      /\ \A q, m \in Nat :
           q + m <= Len(file) /\ (q + m <= pos \/ pos + Len(bytes) <= q) =>
             Part(t, q, m) = Part(file, q, m)
  BY SpliceParts DEF t
<1> QED
  BY <1>6, <1>7 DEF r

(* An entry that is set takes the place of the one at its index.           *)
LEMMA LogSet ==
  ASSUME NEW k \in {"REL", "RELA"}, NEW c \in Classes, NEW e, NEW d \in Strings,
         NEW T, NEW lg \in Seq(T), Logged(k, c, e, d, lg),
         NEW x \in T, IsEntry(k, x), NEW r \in Strings, Len(r) = Size[k][c],
         Inscribed(r, k, c, e, x), NEW i \in Nat, i < Len(d) \div Size[k][c]
  PROVE  /\ i < Len(lg)
         /\ Logged(k, c, e, Written(d, i * Size[k][c], r), [lg EXCEPT ![i + 1] = x])
<1> DEFINE w == Size[k][c]
           L == Len(lg)
           new == Written(d, i * w, r)
           lg2 == [lg EXCEPT ![i + 1] = x]
<1>1. k \in Kinds /\ k # "none" /\ First(k, lg) = 0 /\ First(k, lg2) = 0
  BY DEF Kinds, First
<1>2. w \in Nat /\ w > 0 /\ L \in Nat
  BY <1>1, KindSize, LenProperties
<1>3. /\ Len(d) = L * w
      /\ \A n \in 1..L : /\ IsEntry(k, lg[n])
                         /\ Inscribed(Part(d, (n - 1) * w, w), k, c, e, lg[n])
  <2>1. /\ Len(d) = (L + 0) * w
        /\ \A n \in 1..L : /\ IsEntry(k, lg[n])
                           /\ Inscribed(Part(d, (n - 1 + 0) * w, w), k, c, e, lg[n])
    BY <1>1 DEF Logged
  <2> HIDE DEF L, w
  <2>2. L + 0 = L /\ \A n \in 1..L : n - 1 + 0 = n - 1
    BY <1>2
  <2> QED
    BY <2>1, <2>2
<1>4. i < L
  <2> HIDE DEF w, L
  <2>1. (L * w) \div w = L
    BY <1>2, Quotient
  <2> QED
    BY <1>3, <2>1 DEF w
<1>5. lg2 \in Seq(T) /\ Len(lg2) = L /\ lg2[i + 1] = x
      /\ \A n \in 1..L : n # i + 1 => lg2[n] = lg[n]
  <2>1. i + 1 \in 1..L
    BY <1>2, <1>4
  <2> QED
    BY <2>1, ExceptSeq
<1> HIDE DEF w, L, lg2
<1>6. i * w \in Nat /\ i * w + w <= Len(d)
  BY <1>2, <1>3, <1>4, Multiples
<1> DEFINE p == i * w
<1> HIDE DEF p
<1> DEFINE D == Written(d, p, r)
<1>7. /\ D \in Strings /\ Len(D) = Len(d) /\ Part(D, p, w) = r
      /\ \A q, m \in Nat :
           q + m <= Len(d) /\ (q + m <= p \/ p + w <= q) => Part(D, q, m) = Part(d, q, m)
  <2>1. p \in Nat /\ p + Len(r) <= Len(d) /\ Len(r) = w
    BY <1>6 DEF p, w
  <2> HIDE DEF D
  <2> QED
    BY <2>1, WrittenWithin DEF D
<1> HIDE DEF D
<1>8. ASSUME NEW n \in 1..L
      PROVE  IsEntry(k, lg2[n]) /\ Inscribed(Part(D, (n - 1) * w, w), k, c, e, lg2[n])
  <2>1. CASE n = i + 1
    <3>1. n - 1 = i
      BY <2>1
    <3> QED
      BY <1>5, <1>7, <2>1, <3>1 DEF p
  <2>2. CASE n # i + 1
    <3> DEFINE j == n - 1
    <3>1. j \in Nat /\ j < L /\ (j < i \/ i < j)
      BY <1>2, <2>2
    <3> HIDE DEF j
    <3>2. j * w \in Nat /\ j * w + w <= L * w
          /\ (j * w + w <= i * w \/ i * w + w <= j * w)
      BY <1>2, <3>1, Multiples
    <3>3. Part(D, j * w, w) = Part(d, j * w, w)
      <4> DEFINE y == j * w
      <4>1. y \in Nat /\ y + w <= Len(d) /\ (y + w <= p \/ p + w <= y)
        BY <1>3, <3>2 DEF p
      <4> HIDE DEF y
      <4> QED
        BY <1>2, <1>7, <4>1 DEF y
    <3> QED
      BY <1>3, <1>5, <2>2, <3>3 DEF j
  <2> QED
    BY <2>1, <2>2
<1>9. Logged(k, c, e, D, lg2)
  <2>1. Len(D) = (Len(lg2) + 0) * w
    BY <1>2, <1>3, <1>5, <1>7
  <2>2. \A n \in 1..Len(lg2) :
          /\ IsEntry(k, lg2[n])
          /\ Inscribed(Part(D, (n - 1 + 0) * w, w), k, c, e, lg2[n])
    <3>1. \A n \in 1..L : n - 1 + 0 = n - 1
      OBVIOUS
    <3> QED
      BY <1>5, <1>8, <3>1
  <2> QED
    BY <1>1, <2>1, <2>2 DEF Logged, w
<1> QED
  BY <1>4, <1>9 DEF D, p, w, L, lg2

-----------------------------------------------------------------------------
(* The object                                                              *)

Entry == UNION {EntriesOf(what) : what \in Kinds}

(* What an object is after at most n calls: its header, its section's      *)
(* kind, header and contents, and the entries that were added to it        *)
Object(h, k, s, d, lg, u, n) ==
  /\ Header(h) /\ Section(k, h[5], h[6], s, d)
  /\ Len(d) <= 96 * n
  /\ lg \in Seq(Entry)
  /\ ~u => Logged(k, h[5], h[6], d, lg)

ObjectInv ==
  /\ host \in Encodings /\ calls \in Nat /\ calls <= MaxCalls
  /\ need_conversion = (header[6] # host)
  /\ Object(header, kind, shdr, data, log, unlogged, calls)

LEMMA EntriesTyped ==
  ASSUME NEW what \in Kinds, NEW x \in EntriesOf(what)
  PROVE  IsEntry(what, x) /\ x \in Entry
BY ClientAssumption DEF Entry

LEMMA SmallEnough ==
  ASSUME NEW n \in Nat, n <= MaxCalls, NEW length \in Nat, length <= 96 * n,
         NEW m \in Nat, m <= 160
  PROVE  /\ length <= MaxData /\ length \in TwoBytes /\ m + length \in TwoBytes
<1>1. MaxCalls \in Nat /\ MaxCalls <= 600
  BY CallsAssumption
<1>2. length <= 96 * MaxCalls /\ length <= 57600
  BY <1>1
<1>3. length < 65536 /\ m + length < 65536 /\ m + length \in Nat
  BY <1>2
<1> QED
  BY <1>2, <1>3 DEF MaxData, TwoBytes

LEMMA HeaderIs ==
  ASSUME NEW h, Header(h)
  PROVE  /\ h \in Strings /\ Len(h) = Size["Ehdr"][h[5]] /\ h[5] \in Classes
         /\ h[6] \in Encodings /\ Part(h, 0, 4) = Magic
         /\ Len(h) \in Nat /\ Len(h) >= 16 /\ Len(h) <= 160
<1>1. h \in Strings /\ Len(h) = Size["Ehdr"][h[5]] /\ h[5] \in Classes
      /\ h[6] \in Encodings /\ Part(h, 0, 4) = Magic
  BY DEF Header, Start
<1>2. Size["Ehdr"][h[5]] >= 16 /\ IsSize(Size["Ehdr"][h[5]])
  BY <1>1, HeaderNames, Places DEF Structures
<1> QED
  BY <1>1, <1>2 DEF IsSize

LEMMA EmptyObject ==
  ASSUME NEW h, Header(h), NEW n \in Nat
  PROVE  Object(h, "none", Blank("Shdr", h[5]), <<>>, <<>>, FALSE, n)
<1>1. h[5] \in Classes /\ h[6] \in Encodings
  BY HeaderIs
<1>2. Section("none", h[5], h[6], Blank("Shdr", h[5]), <<>>)
  BY <1>1, BlankSection
<1>3. Logged("none", h[5], h[6], <<>>, <<>>)
  BY EmptyIs DEF Logged
<1>4. Len(<<>>) <= 96 * n
  BY EmptyIs
<1>5. <<>> \in Seq(Entry)
  OBVIOUS
<1> QED
  BY <1>2, <1>3, <1>4, <1>5 DEF Object

LEMMA ObjectLater ==
  ASSUME NEW h, NEW k, NEW s, NEW d, NEW lg, NEW u, NEW n \in Nat, NEW m \in Nat,
         Object(h, k, s, d, lg, u, n), n <= m
  PROVE  Object(h, k, s, d, lg, u, m)
<1>1. Len(d) \in Nat /\ Len(d) <= 96 * n
  BY LenProperties DEF Object, Section, Strings
<1>2. Len(d) <= 96 * m
  BY <1>1
<1> QED
  BY <1>2 DEF Object

LEMMA ObjectHeader ==
  ASSUME NEW h, NEW k, NEW s, NEW d, NEW lg, NEW u, NEW n,
         Object(h, k, s, d, lg, u, n), NEW g, Header(g), g[5] = h[5], g[6] = h[6]
  PROVE  Object(g, k, s, d, lg, u, n)
BY DEF Object

LEMMA ObjectInit == Init => ObjectInv
<1> SUFFICES ASSUME Init PROVE ObjectInv
  OBVIOUS
<1>1. host \in Encodings /\ calls = 0
  BY DEF Init, Encodings
<1>2. PICK f \in Formats : /\ need_conversion = NeedConversion(f[2])
                           /\ header = NewHeader(f[1], f[2], NeedConversion(f[2]))
                           /\ shdr = Blank("Shdr", f[1])
  BY DEF Init
<1>3. f[1] \in Classes /\ f[2] \in Encodings
  BY ClientAssumption DEF Encodings
<1>4. NeedConversion(f[2]) = (f[2] # host)
  BY <1>1, NeedIs
<1>5. Header(header) /\ header[5] = f[1] /\ header[6] = f[2]
  BY <1>1, <1>2, <1>3, <1>4, NewHeaderIs
<1>6. kind = "none" /\ data = <<>> /\ log = <<>> /\ unlogged = FALSE
  BY DEF Init
<1>7. Object(header, kind, shdr, data, log, unlogged, calls)
  <2>1. 0 \in Nat
    OBVIOUS
  <2>2. Object(header, "none", Blank("Shdr", header[5]), <<>>, <<>>, FALSE, 0)
    BY <1>5, <2>1, EmptyObject
  <2> QED
    BY <1>1, <1>2, <1>5, <1>6, <2>2
<1>8. calls \in Nat /\ calls <= MaxCalls
  BY <1>1, CallsAssumption
<1> QED
  BY <1>1, <1>2, <1>4, <1>5, <1>7, <1>8 DEF ObjectInv

LEMMA CalledIs ==
  ASSUME calls \in Nat, Called
  PROVE  calls' \in Nat /\ calls' <= MaxCalls /\ calls' = calls + 1 /\ calls <= calls'
BY CallsAssumption DEF Called

LEMMA CreateKeeps ==
  ASSUME ObjectInv, NEW f \in Formats, Create(f[1], f[2])
  PROVE  ObjectInv'
<1>1. host \in Encodings /\ host' = host
  BY DEF ObjectInv, Create
<1>2. f[1] \in Classes /\ f[2] \in Encodings
  BY ClientAssumption DEF Encodings
<1>3. NeedConversion(f[2]) = (f[2] # host)
  BY <1>1, NeedIs
<1>4. /\ need_conversion' = NeedConversion(f[2])
      /\ header' = NewHeader(f[1], f[2], NeedConversion(f[2]))
      /\ kind' = "none" /\ shdr' = Blank("Shdr", f[1]) /\ data' = <<>>
      /\ log' = <<>> /\ unlogged' = FALSE
  BY DEF Create, Created
<1>5. Header(header') /\ header'[5] = f[1] /\ header'[6] = f[2]
  BY <1>1, <1>2, <1>3, <1>4, NewHeaderIs
<1>6. calls' \in Nat /\ calls' <= MaxCalls
  BY CalledIs DEF ObjectInv, Create
<1>7. Object(header', "none", Blank("Shdr", header'[5]), <<>>, <<>>, FALSE, calls')
  BY <1>5, <1>6, EmptyObject
<1> QED
  BY <1>1, <1>3, <1>4, <1>5, <1>6, <1>7 DEF ObjectInv

LEMMA SetHeaderKeeps ==
  ASSUME ObjectInv, NEW v \in HeaderValues, SetHeader(v[1], v[2])
  PROVE  ObjectInv'
<1>1. /\ host \in Encodings /\ host' = host /\ calls \in Nat
      /\ need_conversion = (header[6] # host) /\ need_conversion' = need_conversion
      /\ Header(header) /\ Object(header, kind, shdr, data, log, unlogged, calls)
  BY DEF ObjectInv, Object, SetHeader
<1>2. v[1] \in Settable /\ v[2] \in Bytes(8)
  BY ClientAssumption
<1> DEFINE f == v[1]
           c == header[5]
<1>3. c \in Classes
  BY <1>1, HeaderIs
<1>4. f \in Names("Ehdr", c)
              \ {"ei_mag", "ei_class", "ei_data", "e_ehsize", "e_shentsize"}
  BY <1>2, <1>3, HeaderNames DEF Settable
<1>5. v[2] \in Strings /\ Len(v[2]) = 8
  BY <1>2, BytesAreStrings
<1>6. Width("Ehdr", c, f) <= Len(v[2])
  <2>1. Width("Ehdr", c, f) \in 1..8
    BY <1>3, <1>4, Places DEF Structures
  <2> QED
    BY <1>5, <2>1
<1>7. header' = WithField(header, "Ehdr", c, f, v[2], header[6] # host)
  BY <1>1 DEF SetHeader, Class
<1>8. Header(header') /\ header'[5] = header[5] /\ header'[6] = header[6]
  BY <1>1, <1>4, <1>5, <1>6, <1>7, HeaderSet
<1>9. calls' \in Nat /\ calls' <= MaxCalls /\ calls <= calls'
  BY <1>1, CalledIs DEF SetHeader
<1>10. Object(header, kind, shdr, data, log, unlogged, calls')
  BY <1>1, <1>9, ObjectLater
<1>11. Object(header', kind, shdr, data, log, unlogged, calls')
  BY <1>8, <1>10, ObjectHeader
<1> QED
  BY <1>1, <1>8, <1>9, <1>11 DEF ObjectInv, SetHeader

LEMMA AddSectionKeeps ==
  ASSUME ObjectInv, NEW what \in Kinds, AddSection(what)
  PROVE  ObjectInv'
<1> DEFINE c == header[5]
           e == header[6]
<1>1. /\ host \in Encodings /\ host' = host /\ calls \in Nat
      /\ need_conversion = (e # host) /\ need_conversion' = need_conversion
      /\ Header(header) /\ header' = header
      /\ Object(header, kind, shdr, data, log, unlogged, calls)
      /\ data' = data /\ log' = log /\ unlogged' = unlogged
      /\ kind = "none" /\ kind' = what
  BY DEF ObjectInv, Object, AddSection
<1>2. c \in Classes /\ e \in Encodings
  BY <1>1, HeaderIs
<1>3. /\ shdr = Blank("Shdr", c) /\ data = <<>> /\ log \in Seq(Entry)
      /\ ~unlogged => Logged("none", c, e, data, log)
  BY <1>1 DEF Object, Section
<1>4. /\ shdr \in Strings /\ Len(shdr) = Size["Shdr"][c]
      /\ NumberOf(shdr, c, e, "sh_size") = 0
  BY <1>1, <1>2, <1>3, BlankSection DEF Object, Section, Numbered
<1>5. TypeNumber(what) \in TwoBytes /\ DefaultEntrySize(what, c) \in TwoBytes
  <2>1. DefaultEntrySize(what, c) \in Nat /\ DefaultEntrySize(what, c) <= 160
    BY <1>2, KindSize DEF DefaultEntrySize
  <2> QED
    BY <2>1, TypeNumbers, SmallNumber
<1> DEFINE t == WithField(shdr, "Shdr", c, "sh_type", Number(TypeNumber(what)), e # host)
           s == WithField(t, "Shdr", c, "sh_entsize",
                          Number(DefaultEntrySize(what, c)), e # host)
<1>6. shdr' = s
  BY <1>1 DEF AddSection, WithSectionField, Class
<1>7. /\ "sh_type" \in Numbered /\ "sh_entsize" \in Numbered /\ "sh_size" \in Numbered
  BY DEF Numbered
<1> HIDE DEF c, e
<1>8. /\ t \in Strings /\ Len(t) = Size["Shdr"][c]
      /\ NumberOf(t, c, e, "sh_type") = TypeNumber(what)
      /\ NumberOf(t, c, e, "sh_size") = NumberOf(shdr, c, e, "sh_size")
  <2> DEFINE n == TypeNumber(what)
             r == WithField(shdr, "Shdr", c, "sh_type", Number(n), e # host)
  <2>1. n \in TwoBytes
    BY <1>5
  <2> HIDE DEF n
  <2>2. /\ r \in Strings /\ Len(r) = Size["Shdr"][c]
        /\ NumberOf(r, c, e, "sh_type") = n
        /\ \A g \in Numbered \ {"sh_type"} : NumberOf(r, c, e, g) = NumberOf(shdr, c, e, g)
    BY <1>1, <1>2, <1>4, <1>7, <2>1, NumbersSet
  <2>3. r = t
    BY DEF n
  <2> HIDE DEF r, t
  <2> QED
    BY <1>7, <2>2, <2>3 DEF n
<1> HIDE DEF t
<1>9. /\ s \in Strings /\ Len(s) = Size["Shdr"][c]
      /\ NumberOf(s, c, e, "sh_entsize") = DefaultEntrySize(what, c)
      /\ NumberOf(s, c, e, "sh_type") = NumberOf(t, c, e, "sh_type")
      /\ NumberOf(s, c, e, "sh_size") = NumberOf(t, c, e, "sh_size")
  <2> DEFINE n == DefaultEntrySize(what, c)
             r == WithField(t, "Shdr", c, "sh_entsize", Number(n), e # host)
  <2>1. n \in TwoBytes
    BY <1>5
  <2> HIDE DEF n
  <2>2. /\ r \in Strings /\ Len(r) = Size["Shdr"][c]
        /\ NumberOf(r, c, e, "sh_entsize") = n
        /\ \A g \in Numbered \ {"sh_entsize"} : NumberOf(r, c, e, g) = NumberOf(t, c, e, g)
    BY <1>1, <1>2, <1>7, <1>8, <2>1, NumbersSet
  <2>3. r = s
    BY DEF n
  <2> HIDE DEF r, s
  <2> QED
    BY <1>7, <2>2, <2>3 DEF n
<1> HIDE DEF s
<1>10. Section(what, c, e, s, <<>>)
  <2>1. what # "none" /\ <<>> \in Strings /\ Len(<<>>) = 0
    BY EmptyIs DEF Kinds
  <2> QED
    BY <1>4, <1>8, <1>9, <2>1 DEF Section
<1>11. ~unlogged => Logged(what, c, e, <<>>, log)
  <2> SUFFICES ASSUME ~unlogged PROVE Logged(what, c, e, <<>>, log)
    OBVIOUS
  <2>1. Len(log) = 0
    BY <1>3 DEF Logged
  <2>2. First(what, log) = 0
    BY <2>1 DEF First
  <2>3. (0 + 0) * Size[what][c] = 0
    BY <1>2, KindSize
  <2>4. \A n \in 1..0 : FALSE
    OBVIOUS
  <2> QED
    BY <2>1, <2>2, <2>3, <2>4, EmptyIs DEF Logged, Kinds
<1>12. calls' \in Nat /\ calls' <= MaxCalls
  BY <1>1, CalledIs DEF AddSection
<1>13. Len(<<>>) <= 96 * calls'
  <2> DEFINE n == calls'
  <2>1. n \in Nat
    BY <1>12
  <2> HIDE DEF n
  <2>2. 0 <= 96 * n
    BY <2>1
  <2>3. Len(<<>>) = 0
    BY EmptyIs
  <2> QED
    BY <2>2, <2>3 DEF n
<1>14. Object(header, what, s, <<>>, log, unlogged, calls')
  BY <1>1, <1>3, <1>10, <1>11, <1>13 DEF Object, c, e
<1> QED
  BY <1>1, <1>3, <1>6, <1>12, <1>14 DEF ObjectInv, e

(* The size that append_data() gives the section is that of its contents.  *)
LEMMA SectionResized ==
  ASSUME host \in Encodings, NEW c \in Classes, NEW e \in Encodings,
         NEW k \in Kinds, NEW s, NEW d, Section(k, c, e, s, d),
         NEW new \in Strings, Len(new) \in TwoBytes
  PROVE  Section(k, c, e, WithField(s, "Shdr", c, "sh_size", Number(Len(new)),
                                    e # host), new)
<1> DEFINE n == Len(new)
           r == WithField(s, "Shdr", c, "sh_size", Number(n), e # host)
<1>1. /\ s \in Strings /\ Len(s) = Size["Shdr"][c] /\ k # "none"
      /\ NumberOf(s, c, e, "sh_type") = TypeNumber(k)
      /\ NumberOf(s, c, e, "sh_entsize") = DefaultEntrySize(k, c)
  BY DEF Section, Kinds
<1>2. n \in TwoBytes /\ "sh_size" \in Numbered
  BY DEF Numbered
<1> HIDE DEF n
<1>3. /\ r \in Strings /\ Len(r) = Size["Shdr"][c]
      /\ NumberOf(r, c, e, "sh_size") = n
      /\ \A g \in Numbered \ {"sh_size"} : NumberOf(r, c, e, g) = NumberOf(s, c, e, g)
  BY <1>1, <1>2, NumbersSet
<1> HIDE DEF r
<1>4. /\ NumberOf(r, c, e, "sh_type") = TypeNumber(k)
      /\ NumberOf(r, c, e, "sh_entsize") = DefaultEntrySize(k, c)
  BY <1>1, <1>3 DEF Numbered
<1>5. Section(k, c, e, r, new)
  BY <1>1, <1>3, <1>4 DEF Section, n
<1> QED
  BY <1>5 DEF r, n

LEMMA AddEntryKeeps ==
  ASSUME ObjectInv, NEW what \in Kinds, NEW x \in EntriesOf(what), AddEntry(what, x)
  PROVE  ObjectInv'
<1> DEFINE c == header[5]
           e == header[6]
           r == Record(what, c, x)
           pre == NoSymbol
           new == data \o (pre \o r)
<1>1. /\ host \in Encodings /\ host' = host /\ calls \in Nat
      /\ need_conversion = (e # host) /\ need_conversion' = need_conversion
      /\ Header(header) /\ header' = header
      /\ Object(header, kind, shdr, data, log, unlogged, calls)
      /\ kind # "none" /\ kind' = kind
      /\ log' = Append(log, x) /\ unlogged' = (unlogged \/ what # kind)
  BY DEF ObjectInv, Object, AddEntry
<1>2. c \in Classes /\ e \in Encodings
  BY <1>1, HeaderIs
<1>3. IsEntry(what, x) /\ x \in Entry
  BY EntriesTyped
<1>4. kind \in Kinds /\ data \in Strings /\ Len(data) \in Nat /\ Len(data) <= 96 * calls
      /\ Section(kind, c, e, shdr, data) /\ log \in Seq(Entry)
      /\ (~unlogged => Logged(kind, c, e, data, log))
  BY <1>1, LenProperties DEF Object, Section, Strings
<1>5. r \in Strings /\ Len(r) = Size[what][c] /\ Inscribed(r, what, c, e, x)
  BY <1>1, <1>2, <1>3, RecordIs
<1>6. pre = IF kind = "SYMTAB" /\ data = <<>> THEN Blank("SYMTAB", c) ELSE <<>>
  BY DEF NoSymbol, Class
<1>7. pre \in Strings /\ Len(pre) \in Nat /\ Len(pre) <= 48
  <2>1. Blank("SYMTAB", c) \in Strings /\ Len(Blank("SYMTAB", c)) = Size["SYMTAB"][c]
    BY <1>2, BlankIs DEF Structures, Kinds
  <2>2. Size["SYMTAB"][c] \in Nat /\ Size["SYMTAB"][c] <= 48
    BY <1>2, KindSize DEF Kinds
  <2> HIDE DEF pre
  <2> QED
    BY <1>6, <2>1, <2>2, EmptyIs
<1>8. /\ data' = new
      /\ shdr' = WithField(shdr, "Shdr", c, "sh_size",
                           Number(Len(data) + Len(pre \o r)), e # host)
  BY <1>1 DEF AddEntry, Appended, WithSectionField, Class
<1> HIDE DEF pre, r, c, e
<1>9. pre \o r \in Strings /\ Len(pre \o r) \in Nat /\ Len(pre \o r) <= 96
  <2>1. pre \o r \in Strings /\ Len(pre \o r) = Len(pre) + Len(r)
    BY <1>5, <1>7, Joined
  <2>2. Len(r) \in Nat /\ Len(r) <= 48
    BY <1>2, <1>5, KindSize
  <2> QED
    BY <1>7, <2>1, <2>2
<1>10. new \in Strings /\ Len(new) = Len(data) + Len(pre \o r)
  <2> DEFINE y == pre \o r
  <2> HIDE DEF y
  <2>1. y \in Strings
    BY <1>9 DEF y
  <2>2. data \o y \in Strings /\ Len(data \o y) = Len(data) + Len(y)
    BY <1>4, <2>1, Joined
  <2> QED
    BY <2>2 DEF y
<1>11. calls' \in Nat /\ calls' <= MaxCalls /\ calls' = calls + 1
  BY <1>1, CalledIs DEF AddEntry
<1> HIDE DEF new
<1>12. Len(new) \in Nat /\ Len(new) <= 96 * calls'
  BY <1>1, <1>4, <1>9, <1>10, <1>11
<1>13. Len(new) \in TwoBytes
  BY <1>11, <1>12, SmallEnough
<1>14. Section(kind, c, e, shdr', new)
  BY <1>1, <1>2, <1>4, <1>8, <1>10, <1>13, SectionResized
<1>15. log' \in Seq(Entry)
  BY <1>1, <1>3, <1>4, AppendProperties
<1>16. ASSUME ~unlogged'
       PROVE  Logged(kind, c, e, new, log')
  <2>1. ~unlogged /\ what = kind
    BY <1>1, <1>16
  <2>2. Logged(kind, c, e, data, log)
    BY <1>4, <2>1
  <2>3. IsEntry(kind, x) /\ Len(r) = Size[kind][c] /\ Inscribed(r, kind, c, e, x)
    BY <1>3, <1>5, <2>1
  <2>4. Logged(kind, c, e, data \o (pre \o r), Append(log, x))
    BY <1>2, <1>3, <1>4, <1>5, <1>6, <2>2, <2>3, LogAppended
  <2> QED
    BY <1>1, <2>4 DEF new
<1>17. Object(header', kind', shdr', data', log', unlogged', calls')
  BY <1>1, <1>8, <1>12, <1>14, <1>15, <1>16 DEF Object, c, e
<1> QED
  BY <1>1, <1>11, <1>17 DEF ObjectInv, e

LEMMA SetEntryKeeps ==
  ASSUME ObjectInv, NEW n \in Nat, NEW x \in EntriesOf(kind), SetEntry(n, x)
  PROVE  ObjectInv'
<1> DEFINE c == header[5]
           e == header[6]
           w == Size[kind][c]
           r == Record(kind, c, x)
           new == Written(data, n * w, r)
<1>1. /\ host \in Encodings /\ host' = host /\ calls \in Nat
      /\ need_conversion = (e # host) /\ need_conversion' = need_conversion
      /\ Header(header) /\ header' = header
      /\ Object(header, kind, shdr, data, log, unlogged, calls)
      /\ kind \in {"REL", "RELA"} /\ kind' = kind /\ n < EntriesNum
      /\ shdr' = shdr /\ unlogged' = unlogged
      /\ log' = IF n < Len(log) THEN [log EXCEPT ![n + 1] = x] ELSE log
  BY DEF ObjectInv, Object, SetEntry
<1>2. c \in Classes /\ e \in Encodings
  BY <1>1, HeaderIs
<1>3. kind \in Kinds /\ kind # "none"
  BY <1>1 DEF Kinds
<1>4. IsEntry(kind, x) /\ x \in Entry
  BY <1>3, EntriesTyped
<1>5. data \in Strings /\ Len(data) \in Nat /\ Len(data) <= 96 * calls
      /\ Section(kind, c, e, shdr, data) /\ log \in Seq(Entry)
      /\ (~unlogged => Logged(kind, c, e, data, log))
  BY <1>1, LenProperties DEF Object, Section, Strings
<1>6. EntrySize = w /\ EntriesNum = Len(data) \div w
  <2>1. /\ EntrySize = w /\ EntriesNum = NumIn(kind, c, e, data)
        /\ Len(data) \div Size[kind][c] \in Nat
    BY <1>1, <1>2, <1>3, <1>5, EntriesAre
  <2>2. NumIn(kind, c, e, data) = Len(data) \div Size[kind][c]
    BY <1>1, <2>1, NumInIs
  <2> QED
    BY <2>1, <2>2
<1>7. r \in Strings /\ Len(r) = w /\ Inscribed(r, kind, c, e, x)
  BY <1>1, <1>2, <1>3, <1>4, RecordIs
<1>8. data' = new
  BY <1>6 DEF SetEntry, Class
<1>9. w \in Nat /\ w > 0
  BY <1>2, <1>3, KindSize
<1> HIDE DEF w, r, c, e
<1>10. n * w \in Nat /\ n * w + w <= Len(data)
  BY <1>1, <1>5, <1>6, <1>9, WithinQuotient
<1>11. new \in Strings /\ Len(new) = Len(data)
  <2> DEFINE p == n * w
  <2>1. p \in Nat /\ p + Len(r) <= Len(data)
    BY <1>7, <1>10
  <2> HIDE DEF p
  <2>2. Written(data, p, r) \in Strings /\ Len(Written(data, p, r)) = Len(data)
    BY <1>5, <1>7, <2>1, WrittenWithin
  <2> QED
    BY <2>2 DEF p
<1> HIDE DEF new
<1>12. Section(kind, c, e, shdr, new)
  BY <1>3, <1>5, <1>11 DEF Section
<1>13. calls' \in Nat /\ calls' <= MaxCalls /\ calls' = calls + 1
  BY <1>1, CalledIs DEF SetEntry
<1>14. Len(new) <= 96 * calls'
  BY <1>1, <1>5, <1>11, <1>13
<1>15. log' \in Seq(Entry)
  <2>1. CASE n < Len(log)
    <3>1. n + 1 \in 1..Len(log)
      BY <1>5, <2>1, LenProperties
    <3> QED
      BY <1>1, <1>4, <1>5, <2>1, <3>1, ExceptSeq
  <2>2. CASE ~(n < Len(log))
    BY <1>1, <1>5, <2>2
  <2> QED
    BY <2>1, <2>2
<1>16. ASSUME ~unlogged
       PROVE  Logged(kind, c, e, new, log')
  <2>1. Logged(kind, c, e, data, log)
    BY <1>5, <1>16
  <2>2. /\ n < Len(log)
        /\ Logged(kind, c, e, Written(data, n * w, r), [log EXCEPT ![n + 1] = x])
    BY <1>1, <1>2, <1>4, <1>5, <1>6, <1>7, <2>1, LogSet DEF w
  <2> QED
    BY <1>1, <2>2 DEF new
<1>17. Object(header', kind', shdr', data', log', unlogged', calls')
  BY <1>1, <1>5, <1>8, <1>12, <1>14, <1>15, <1>16 DEF Object, c, e
<1> QED
  BY <1>1, <1>13, <1>17 DEF ObjectInv, e

LEMMA LoadFailsKeeps ==
  ASSUME ObjectInv, LoadFails
  PROVE  ObjectInv'
<1>1. /\ host' = host /\ calls' = calls /\ header' = header
      /\ need_conversion' = need_conversion
      /\ kind' = "none" /\ shdr' = Blank("Shdr", header[5]) /\ data' = <<>>
      /\ log' = <<>> /\ unlogged' = FALSE
  BY DEF LoadFails, Class
<1>2. Header(header) /\ calls \in Nat
  BY DEF ObjectInv, Object
<1>3. Object(header, "none", Blank("Shdr", header[5]), <<>>, <<>>, FALSE, calls)
  BY <1>2, EmptyObject
<1> QED
  BY <1>1, <1>3 DEF ObjectInv

-----------------------------------------------------------------------------
(* The file                                                                *)

Told(h, f) == Read(h, "Ehdr", h[5], h[6], f)

(* What the getters of an object with the header h return                  *)
GettersOf(h) ==
  [f \in Names("Ehdr", h[5]) \ {"ei_mag", "ei_pad"} |-> Told(h, f)]

PiecesOf(k, c, d) ==
  {<<0, Size["Ehdr"][c]>>} \cup
  (IF k = "none" THEN {}
   ELSE {<<Size["Ehdr"][c], Len(d)>>,
         <<Size["Ehdr"][c] + Len(d), Size["Shdr"][c]>>})

FileOf(h, k, s, d) == IF k = "none" THEN h ELSE h \o d \o s

(* The record v is of a saved object: its header h, its section's kind,    *)
(* header and contents.                                                    *)
Image(v, h, k, s, d, n) ==
  /\ Object(h, k, s, d, v.log, v.unlogged, n)
  /\ v.kind = k
  /\ Value(Told(h, "e_shnum")) = IF k = "none" THEN 0 ELSE 1
  /\ Value(Told(h, "e_shoff")) = Size["Ehdr"][h[5]] + Len(d)
  /\ k # "none" => NumberOf(s, h[5], h[6], "sh_offset") = Size["Ehdr"][h[5]]
  /\ v.getters = GettersOf(h)
  /\ v.entries = IF k = "none" THEN <<>> ELSE EntriesIn(k, h[5], h[6], d)
  /\ v.pieces = PiecesOf(k, h[5], d)

(* Its file, or a dump of it, is in the stream; and an object that was     *)
(* loaded from it is the object that was saved.                            *)
Kept(h, k, s, d) ==
  /\ Holds(FileOf(h, k, s, d), h[5])
  /\ (loaded /\ AllWhole) =>
       need_conversion = (h[6] # host) /\ header = h /\ kind = k /\ shdr = s
         /\ data = d

(* A file that was not saved at position 0 cannot be loaded.               *)
Unloadable(bytes) ==
  bytes = <<>> \/ (bytes \in Strings /\ Len(bytes) >= 4 /\ bytes[1] = 0)

SavedInv ==
  \/ /\ saved = <<>> /\ loaded = FALSE /\ stream.ranges = {}
     /\ Unloadable(stream.bytes)
  \/ \E h, k, s, d : Image(saved, h, k, s, d, calls) /\ Kept(h, k, s, d)

Ranges(ranges) ==
  \A t \in ranges : t.start \in Nat /\ t.size \in Nat /\ t.mapped \in Nat

LEMMA GettersAre ==
  ASSUME host \in Encodings, Header(header), need_conversion = (header[6] # host)
  PROVE  Getters = GettersOf(header)
<1> DEFINE c == header[5]
           e == header[6]
<1>1. /\ c \in Classes /\ e \in Encodings /\ header \in Strings
      /\ Len(header) = Size["Ehdr"][c]
  BY HeaderIs
<1>2. "Ehdr" \in Structures
  BY DEF Structures
<1>3. DOMAIN Place["Ehdr"][c] = Names("Ehdr", c)
  BY <1>1, <1>2, Places
<1>4. \A f \in Names("Ehdr", c) :
        Fetched(Field(header, "Ehdr", c, f)) = Told(header, f)
  <2>1. \A f \in Names("Ehdr", c) : Field(header, "Ehdr", c, f) \in Strings
    BY <1>1, <1>2, FieldIs
  <2> QED
    BY <1>1, <2>1, FetchedIs DEF Told, Read
<1>5. Getters = [f \in Names("Ehdr", c) \ {"ei_mag", "ei_pad"} |->
                   Fetched(Field(header, "Ehdr", c, f))]
  BY <1>3 DEF Getters, Class
<1> QED
  BY <1>4, <1>5 DEF GettersOf

LEMMA GettersAreThen ==
  ASSUME host \in Encodings, host' = host, Header(header'),
         need_conversion' = (header'[6] # host)
  PROVE  Getters' = GettersOf(header')
<1> DEFINE h == header'
           c == h[5]
           e == h[6]
<1>1. /\ c \in Classes /\ e \in Encodings /\ h \in Strings
      /\ Len(h) = Size["Ehdr"][c]
  BY HeaderIs
<1>2. "Ehdr" \in Structures
  BY DEF Structures
<1>3. DOMAIN Place["Ehdr"][c] = Names("Ehdr", c)
  BY <1>1, <1>2, Places
<1>4. Getters' = [f \in DOMAIN Place["Ehdr"][c] \ {"ei_mag", "ei_pad"} |->
                    Convert(e # host, IF host = LSB THEN Field(h, "Ehdr", c, f)
                                      ELSE Reverse(Field(h, "Ehdr", c, f)))]
  BY DEF Getters, Class, Fetched, InMemory
<1> HIDE DEF h
<1>5. \A f \in Names("Ehdr", c) :
        Convert(e # host, InMemory(Field(h, "Ehdr", c, f))) = Told(h, f)
  <2>1. \A f \in Names("Ehdr", c) : Field(h, "Ehdr", c, f) \in Strings
    BY <1>1, <1>2, FieldIs
  <2>2. \A f \in Names("Ehdr", c) :
          Convert(e # host, InMemory(Field(h, "Ehdr", c, f)))
            = Decode(e, Field(h, "Ehdr", c, f))
    BY <1>1, <2>1, Conversions
  <2> QED
    BY <2>2 DEF Told, Read
<1>6. Getters' = [f \in Names("Ehdr", c) \ {"ei_mag", "ei_pad"} |->
                    Convert(e # host, InMemory(Field(h, "Ehdr", c, f)))]
  BY <1>3, <1>4 DEF InMemory
<1> QED
  BY <1>5, <1>6 DEF GettersOf, h

(* Before the position where the header is written there are only zeros.   *)
LEMMA NoMagicWritten ==
  ASSUME NEW pos \in Nat, pos > 0, NEW h \in Strings, Len(h) >= 4,
         NEW q \in Nat, q > 0, NEW s \in Strings,
         NEW p \in Nat, p > 0, NEW d \in Strings
  PROVE  /\ Unloadable(Written(<<>>, pos, h))
         /\ Unloadable(Written(Written(Written(<<>>, pos, h), q, s), p, d))
<1> DEFINE Blunt(b) == b \in Strings /\ Len(b) >= 4 /\ b[1] = 0
<1>1. ASSUME NEW file \in Strings, NEW i \in Nat, i > 0, NEW b \in Strings,
             \/ Len(file) >= 4 /\ file[1] = 0
             \/ file = <<>> /\ Len(b) >= 4
      PROVE  Blunt(Written(file, i, b))
  <2> DEFINE r == Written(file, i, b)
  <2>1. Len(file) \in Nat /\ Len(b) \in Nat
    BY LenProperties DEF Strings
  <2>2. /\ r \in Strings
        /\ Len(r) = IF i + Len(b) > Len(file) THEN i + Len(b) ELSE Len(file)
        /\ \A k \in 1..Len(r) :
             r[k] = IF i < k /\ k <= i + Len(b) THEN b[k - i]
                    ELSE IF k <= Len(file) THEN file[k] ELSE 0
    BY <1>1, WrittenIs
  <2> HIDE DEF r
  <2>3. Len(r) >= 4 /\ 1 \in 1..Len(r) /\ ~(i < 1)
    <3>1. Len(r) >= 4 /\ ~(i < 1)
      BY <1>1, <2>1, <2>2, EmptyIs
    <3> QED
      BY <2>1, <2>2, <3>1
  <2>4. r[1] = IF 1 <= Len(file) THEN file[1] ELSE 0
    BY <2>2, <2>3
  <2>5. r[1] = 0
    BY <1>1, <2>1, <2>4, EmptyIs
  <2> QED
    BY <2>2, <2>3, <2>5 DEF r
<1> DEFINE a == Written(<<>>, pos, h)
           b == Written(a, q, s)
<1>2. Blunt(a)
  BY <1>1, EmptyIs
<1> HIDE DEF a
<1>3. Blunt(b)
  BY <1>1, <1>2
<1> HIDE DEF b
<1>4. Blunt(Written(b, p, d))
  BY <1>1, <1>3
<1> QED
  BY <1>2, <1>4 DEF Unloadable, a, b

LEMMA TranslateFirst ==
  ASSUME Ranges(translations)
  PROVE  Translate(0) \in Nat
<1> DEFINE hits == {t \in translations : t.start <= 0 /\ 0 - t.start < t.size}
           first == CHOOSE t \in hits : \A u \in hits : t.start <= u.start
<1>1. CASE hits = {}
  BY <1>1 DEF Translate
<1>2. CASE hits # {}
  <2>1. \A t \in hits : t.start = 0 /\ t.mapped \in Nat
    BY DEF Ranges
  <2>2. \E t \in hits : \A u \in hits : t.start <= u.start
    <3> HIDE DEF hits
    <3> QED
      BY <1>2, <2>1
  <2>3. Translate(0) = 0 - first.start + first.mapped
    BY <1>2 DEF Translate
  <2> HIDE DEF hits
  <2>4. first \in hits
    BY <2>2
  <2> HIDE DEF first
  <2> QED
    BY <2>1, <2>3, <2>4
<1> QED
  BY <1>1, <1>2

(* save() leaves an object whose file is in the stream.                    *)
LEMMA SaveKeeps ==
  ASSUME ObjectInv, Ranges(translations), Save
  PROVE  ObjectInv' /\ SavedInv'
<1> DEFINE h == header'
           s == shdr'
           c == header[5]
           e == header[6]
           size == Size["Ehdr"][c]
           L == Len(data)
<1>1. /\ host \in Encodings /\ host' = host /\ calls \in Nat /\ calls' = calls
      /\ calls <= MaxCalls
      /\ need_conversion = (e # host) /\ need_conversion' = need_conversion
      /\ kind' = kind /\ data' = data /\ log' = log /\ unlogged' = unlogged
      /\ loaded' = FALSE
      /\ Header(header) /\ Object(header, kind, shdr, data, log, unlogged, calls)
  BY DEF ObjectInv, Object, Save
<1>2. c \in Classes /\ e \in Encodings /\ Len(header) = size /\ size \in Nat
      /\ size >= 16 /\ size <= 160
  BY <1>1, HeaderIs
<1>3. /\ Section(kind, c, e, shdr, data) /\ data \in Strings /\ L \in Nat
      /\ L <= 96 * calls
  BY <1>1, LenProperties DEF Object, Section, Strings
<1>4. size \in TwoBytes /\ size + L \in TwoBytes /\ size + L \in Nat
  <2> HIDE DEF size, L, c, e, h, s
  <2>1. size \in TwoBytes
    BY <1>2, SmallNumber
  <2>2. size + L \in TwoBytes
    BY <1>1, <1>2, <1>3, SmallEnough
  <2> QED
    BY <1>2, <1>3, <2>1, <2>2
<1>5. /\ Header(h) /\ h[5] = c /\ h[6] = e
      /\ Value(Told(h, "e_shnum")) = IF kind = "none" THEN 0 ELSE 1
      /\ Value(Told(h, "e_shoff")) = size + L
  <2> DEFINE n == size + L
             r == Laid(header)
  <2>1. h = r
    BY DEF Save
  <2>2. n = Size["Ehdr"][header[5]] + Len(data) /\ n \in TwoBytes
    BY <1>4
  <2> HIDE DEF n
  <2>3. /\ Header(r) /\ r[5] = header[5] /\ r[6] = header[6]
        /\ Value(Read(r, "Ehdr", r[5], r[6], "e_shnum"))
             = IF kind = "none" THEN 0 ELSE 1
        /\ Value(Read(r, "Ehdr", r[5], r[6], "e_shoff")) = n
    BY <1>1, <2>2, LaidIs
  <2> HIDE DEF r
  <2> QED
    BY <2>1, <2>3 DEF Told, n
<1>6. /\ Section(kind, c, e, s, data)
      /\ kind # "none" => NumberOf(s, c, e, "sh_offset") = size
  <2>1. CASE kind = "none"
    <3>1. s = shdr
      BY <2>1 DEF Save
    <3> QED
      BY <1>3, <2>1, <3>1
  <2>2. CASE kind # "none"
    <3> DEFINE r == WithField(shdr, "Shdr", c, "sh_offset", Number(size), e # host)
    <3>1. s = r
      BY <1>1, <2>2 DEF Save, WithSectionField, Class
    <3>2. shdr \in Strings /\ Len(shdr) = Size["Shdr"][c] /\ "sh_offset" \in Numbered
      BY <1>3 DEF Section, Numbered
    <3> HIDE DEF size, c, e
    <3>3. /\ r \in Strings /\ Len(r) = Size["Shdr"][c]
          /\ NumberOf(r, c, e, "sh_offset") = size
          /\ \A g \in Numbered \ {"sh_offset"} :
               NumberOf(r, c, e, g) = NumberOf(shdr, c, e, g)
      BY <1>1, <1>2, <1>4, <3>2, NumbersSet
    <3> HIDE DEF r
    <3>4. /\ NumberOf(r, c, e, "sh_type") = NumberOf(shdr, c, e, "sh_type")
          /\ NumberOf(r, c, e, "sh_size") = NumberOf(shdr, c, e, "sh_size")
          /\ NumberOf(r, c, e, "sh_entsize") = NumberOf(shdr, c, e, "sh_entsize")
      BY <3>3 DEF Numbered
    <3> QED
      BY <1>3, <2>2, <3>1, <3>3, <3>4 DEF Section
  <2> QED
    BY <2>1, <2>2
<1> HIDE DEF h, s
<1>7. Object(h, kind, s, data, log, unlogged, calls)
  BY <1>1, <1>5, <1>6 DEF Object
<1>8. ObjectInv'
  BY <1>1, <1>5, <1>7 DEF ObjectInv, h, s
<1>9. h \in Strings /\ Len(h) = size /\ s \in Strings /\ Len(s) = Size["Shdr"][c]
  BY <1>5, <1>6, HeaderIs DEF Section
<1> HIDE DEF c, e, size, L
<1>10. /\ stream'.ranges = {}
       /\ stream'.bytes =
            IF kind = "none" THEN Written(<<>>, Translate(0), h)
            ELSE Written(Written(Written(<<>>, Translate(0), h), size + L, s), size, data)
  <2> DEFINE top == Written(<<>>, Translate(0), h)
             table == Written(top, size + L, s)
             all == Written(table, size, data)
  <2>1. stream' = [bytes |-> IF kind = "none" THEN top ELSE all, ranges |-> {}]
    BY DEF Save, h, s, size, c, L, Class
  <2> HIDE DEF top, table, all
  <2>2. stream'.ranges = {} /\ stream'.bytes = IF kind = "none" THEN top ELSE all
    BY <2>1
  <2> QED
    BY <2>2 DEF top, table, all
<1>11. CASE Translate(0) = 0
  <2>1. stream'.bytes = FileOf(h, kind, s, data)
    <3>1. Written(<<>>, 0, h) = h
      BY <1>3, <1>9, SavedFile
    <3>2. Written(Written(h, Len(h) + Len(data), s), Len(h), data) = h \o data \o s
      BY <1>3, <1>9, SavedFile
    <3>3. CASE kind = "none"
      BY <1>10, <1>11, <3>1, <3>3 DEF FileOf
    <3>4. CASE kind # "none"
      <4> DEFINE x == h \o data \o s
      <4>1. Written(Written(h, size + L, s), size, data) = x
        BY <1>9, <3>2 DEF L
      <4>2. FileOf(h, kind, s, data) = x
        BY <3>4 DEF FileOf
      <4> HIDE DEF x
      <4>3. stream'.bytes = Written(Written(h, size + L, s), size, data)
        BY <1>10, <1>11, <3>1, <3>4
      <4> QED
        BY <4>1, <4>2, <4>3
    <3> QED
      BY <3>3, <3>4
  <2> DEFINE entries == IF kind = "none" THEN <<>> ELSE Entries
             pieces == Pieces
             getters == Getters'
  <2>2. saved' = [getters |-> getters, kind |-> kind, log |-> log,
                  unlogged |-> unlogged, entries |-> entries, pieces |-> pieces]
    BY <1>11 DEF Save
  <2>3. getters = GettersOf(h)
    BY <1>1, <1>5, GettersAreThen DEF h, e
  <2>4. entries = IF kind = "none" THEN <<>> ELSE EntriesIn(kind, c, e, data)
    BY <1>1, <1>2, <1>3, EntriesAre DEF c, e
  <2>5. pieces = PiecesOf(kind, c, data)
    BY DEF Pieces, PiecesOf, Class, c
  <2> HIDE DEF entries, pieces, getters
  <2>6. /\ saved'.getters = getters /\ saved'.kind = kind /\ saved'.log = log
        /\ saved'.unlogged = unlogged /\ saved'.entries = entries
        /\ saved'.pieces = pieces
    BY <2>2
  <2>7. Image(saved', h, kind, s, data, calls)
    <3> DEFINE v == saved'
    <3>1. /\ v.getters = getters /\ v.kind = kind /\ v.log = log
          /\ v.unlogged = unlogged /\ v.entries = entries /\ v.pieces = pieces
      BY <2>6
    <3> HIDE DEF v
    <3>2. Object(h, kind, s, data, v.log, v.unlogged, calls)
      BY <1>7, <3>1
    <3>3. /\ Value(Told(h, "e_shnum")) = IF kind = "none" THEN 0 ELSE 1
          /\ Value(Told(h, "e_shoff")) = Size["Ehdr"][h[5]] + Len(data)
      BY <1>5 DEF size, L
    <3>4. kind # "none" => NumberOf(s, h[5], h[6], "sh_offset") = Size["Ehdr"][h[5]]
      BY <1>5, <1>6 DEF size
    <3>5. /\ v.getters = GettersOf(h)
          /\ v.entries = IF kind = "none" THEN <<>> ELSE EntriesIn(kind, h[5], h[6], data)
          /\ v.pieces = PiecesOf(kind, h[5], data)
      BY <1>5, <2>3, <2>4, <2>5, <3>1
    <3> QED
      BY <3>1, <3>2, <3>3, <3>4, <3>5 DEF Image, v
  <2>8. PICK h0, k0, s0, d0 : h0 = h /\ k0 = kind /\ s0 = s /\ d0 = data
    OBVIOUS
  <2>9. Image(saved', h0, k0, s0, d0, calls')
    BY <1>1, <2>7, <2>8
  <2>10. Kept(h0, k0, s0, d0)'
    <3>1. stream'.bytes = FileOf(h0, k0, s0, d0)
      BY <2>1, <2>8
    <3>2. Holds(FileOf(h0, k0, s0, d0), h0[5])'
      BY <1>10, <3>1 DEF Holds
    <3> QED
      BY <1>1, <3>2 DEF Kept
  <2>11. SavedInv'
    BY <2>9, <2>10 DEF SavedInv
  <2> QED
    BY <1>8, <2>11
<1>12. CASE Translate(0) # 0
  <2>1. Translate(0) \in Nat
    BY TranslateFirst
  <2>2. saved' = <<>>
    BY <1>12 DEF Save
  <2>3. Unloadable(stream'.bytes)
    <3> DEFINE pos == Translate(0)
    <3>1. pos \in Nat /\ pos > 0
      BY <1>12, <2>1
    <3> HIDE DEF pos
    <3>2. /\ Unloadable(Written(<<>>, pos, h))
          /\ Unloadable(Written(Written(Written(<<>>, pos, h), size + L, s), size, data))
      <4> DEFINE q == size + L
      <4>1. q \in Nat /\ q > 0 /\ size \in Nat /\ size > 0 /\ Len(h) >= 4
        BY <1>2, <1>3, <1>4, <1>9
      <4> HIDE DEF q
      <4>2. /\ Unloadable(Written(<<>>, pos, h))
            /\ Unloadable(Written(Written(Written(<<>>, pos, h), q, s), size, data))
        BY <1>3, <1>9, <3>1, <4>1, NoMagicWritten
      <4> QED
        BY <4>2 DEF q
    <3> QED
      BY <1>10, <3>2 DEF pos
  <2>4. SavedInv'
    BY <1>1, <1>10, <2>2, <2>3 DEF SavedInv
  <2> QED
    BY <1>8, <2>4
<1> QED
  BY <1>11, <1>12

(* What the structures of a saved file are                                 *)
LEMMA FileOfIs ==
  ASSUME NEW h, Header(h), NEW k, NEW s, NEW d, Section(k, h[5], h[6], s, d)
  PROVE  LET file == FileOf(h, k, s, d)
             size == Size["Ehdr"][h[5]]
         IN /\ file \in Strings
            /\ Len(file) = IF k = "none" THEN size
                           ELSE size + Len(d) + Size["Shdr"][h[5]]
            /\ \A q, m \in Nat : q + m <= size => Part(file, q, m) = Part(h, q, m)
            /\ k # "none" =>
                 /\ Part(file, size, Len(d)) = d
                 /\ Part(file, size + Len(d), Size["Shdr"][h[5]]) = s
<1> DEFINE file == FileOf(h, k, s, d)
           size == Size["Ehdr"][h[5]]
<1>1. h \in Strings /\ Len(h) = size
  BY HeaderIs
<1>2. s \in Strings /\ Len(s) = Size["Shdr"][h[5]] /\ d \in Strings
  BY DEF Section
<1> HIDE DEF size
<1>3. CASE k = "none"
  <2>1. file = h
    BY <1>3 DEF FileOf
  <2> HIDE DEF file
  <2> QED
    BY <1>1, <1>3, <2>1 DEF file, size
<1>4. CASE k # "none"
  <2> DEFINE x == h \o d \o s
  <2>1. file = x
    BY <1>4 DEF FileOf
  <2>2. IsFile(x, h, d, s)
    BY <1>1, <1>2, FileParts
  <2> HIDE DEF file, x
  <2>3. /\ x \in Strings /\ Len(x) = Len(h) + Len(d) + Len(s)
        /\ Part(x, Len(h), Len(d)) = d
        /\ Part(x, Len(h) + Len(d), Len(s)) = s
        /\ \A q, m \in Nat : q + m <= Len(h) => Part(x, q, m) = Part(h, q, m)
    BY <2>2 DEF IsFile
  <2>4. /\ x \in Strings /\ Len(x) = size + Len(d) + Size["Shdr"][h[5]]
        /\ Part(x, size, Len(d)) = d
        /\ Part(x, size + Len(d), Size["Shdr"][h[5]]) = s
        /\ \A q, m \in Nat : q + m <= size => Part(x, q, m) = Part(h, q, m)
    BY <1>1, <1>2, <2>3
  <2> QED
    BY <1>4, <2>1, <2>4 DEF file, size
<1> QED
  BY <1>3, <1>4

(* A header table is never cut.                                            *)
LEMMA TablesWhole ==
  ASSUME NEW file \in Strings, NEW c \in Classes, Holds(file, c)
  PROVE  /\ \A m \in Nat : m <= Size["Ehdr"][c] => Whole(stream.ranges, 0, m)
         /\ (Len(file) > Size["Ehdr"][c] /\ Size["Shdr"][c] <= Len(file)) =>
              Whole(stream.ranges, Len(file) - Size["Shdr"][c], Size["Shdr"][c])
         /\ Ranges(stream.ranges)
         /\ stream.ranges = {} => stream.bytes = file
<1>1. Len(file) \in Nat
  BY LenProperties DEF Strings
<1>2. Size["Ehdr"][c] \in Nat /\ Size["Shdr"][c] \in Nat
  BY Places DEF Structures, IsSize
<1>3. CASE stream.ranges = {} /\ stream.bytes = file
  BY <1>3 DEF Whole, Ranges
<1>4. CASE IsDump(stream.ranges, c, Len(file))
  <2> DEFINE ranges == stream.ranges
             n == Len(file)
  <2>1. /\ \A t \in ranges : /\ t.start \in Nat /\ t.size \in Nat /\ t.mapped \in Nat
                             /\ t.size > 0 /\ t.start + t.size <= n
        /\ \E t \in ranges : t.start = 0 /\ Size["Ehdr"][c] <= t.size
        /\ n > Size["Ehdr"][c] =>
             \E t \in ranges : /\ t.start <= n - Size["Shdr"][c]
                               /\ n <= t.start + t.size
    BY <1>1, <1>4, DumpOrder
  <2> HIDE DEF ranges, n
  <2>2. Ranges(ranges) /\ ranges # {}
    BY <2>1 DEF Ranges
  <2>3. \A m \in Nat : m <= Size["Ehdr"][c] => Whole(ranges, 0, m)
    <3> SUFFICES ASSUME NEW m \in Nat, m <= Size["Ehdr"][c] PROVE Whole(ranges, 0, m)
      OBVIOUS
    <3>1. PICK t \in ranges : t.start = 0 /\ Size["Ehdr"][c] <= t.size
      BY <2>1
    <3>2. t.start <= 0 /\ 0 + m <= t.start + t.size
      BY <1>2, <2>1, <3>1
    <3> QED
      BY <3>2 DEF Whole
  <2>4. (n > Size["Ehdr"][c] /\ Size["Shdr"][c] <= n) =>
          Whole(ranges, n - Size["Shdr"][c], Size["Shdr"][c])
    <3> SUFFICES ASSUME n > Size["Ehdr"][c], Size["Shdr"][c] <= n
                 PROVE  Whole(ranges, n - Size["Shdr"][c], Size["Shdr"][c])
      OBVIOUS
    <3>1. PICK t \in ranges : t.start <= n - Size["Shdr"][c] /\ n <= t.start + t.size
      BY <2>1
    <3>2. (n - Size["Shdr"][c]) + Size["Shdr"][c] = n
      BY <1>1, <1>2 DEF n
    <3> QED
      BY <3>1, <3>2 DEF Whole
  <2> QED
    BY <2>2, <2>3, <2>4 DEF ranges, n
<1> QED
  BY <1>3, <1>4 DEF Holds

(* load() by the translations that describe the stream: the header ...     *)
LEMMA StartLoaded ==
  ASSUME NEW h, Header(h), NEW k, NEW s, NEW d, Section(k, h[5], h[6], s, d),
         Holds(FileOf(h, k, s, d), h[5]), translations = stream.ranges,
         NEW m \in Nat, m > 0, m <= Size["Ehdr"][h[5]]
  PROVE  ReadAt(Translate(0), m) = Part(h, 0, m)
<1> DEFINE file == FileOf(h, k, s, d)
<1>1. /\ h[5] \in Classes /\ Size["Ehdr"][h[5]] \in Nat /\ Size["Ehdr"][h[5]] >= 16
  BY HeaderIs
<1>2. /\ file \in Strings /\ Len(file) \in Nat /\ Size["Ehdr"][h[5]] <= Len(file)
      /\ \A q, n \in Nat : q + n <= Size["Ehdr"][h[5]] => Part(file, q, n) = Part(h, q, n)
  <2>1. /\ file \in Strings
        /\ Len(file) = IF k = "none" THEN Size["Ehdr"][h[5]]
                       ELSE Size["Ehdr"][h[5]] + Len(d) + Size["Shdr"][h[5]]
        /\ \A q, n \in Nat : q + n <= Size["Ehdr"][h[5]] =>
             Part(file, q, n) = Part(h, q, n)
    BY FileOfIs
  <2>2. Size["Shdr"][h[5]] \in Nat /\ Len(d) \in Nat
    BY <1>1, Places, LenProperties DEF Structures, IsSize, Section, Strings
  <2> HIDE DEF file
  <2> DEFINE a == Size["Ehdr"][h[5]]
             b == Size["Shdr"][h[5]]
             n == Len(d)
  <2>3. /\ a \in Nat /\ b \in Nat /\ n \in Nat
        /\ Len(file) = IF k = "none" THEN a ELSE a + n + b
    BY <1>1, <2>1, <2>2
  <2> HIDE DEF a, b, n
  <2>4. Len(file) \in Nat /\ a <= Len(file)
    BY <2>3
  <2> QED
    BY <2>1, <2>4 DEF a
<1>3. Holds(file, h[5])
  OBVIOUS
<1> HIDE DEF file
<1>4. Whole(stream.ranges, 0, m)
  BY <1>1, <1>2, <1>3, TablesWhole
<1>5. ReadAt(Translate(0), m) = Part(file, 0, m)
  <2> DEFINE a == Size["Ehdr"][h[5]]
             n == Len(file)
  <2>1. 0 \in Nat /\ 0 < n /\ 0 + m <= n
    <3>1. a \in Nat /\ n \in Nat /\ a <= n /\ m <= a
      BY <1>1, <1>2
    <3> HIDE DEF a, n
    <3> QED
      BY <3>1
  <2> QED
    BY <1>2, <1>3, <1>4, <2>1, StreamReads
<1>6. Part(file, 0, m) = Part(h, 0, m)
  BY <1>1, <1>2
<1> QED
  BY <1>5, <1>6

LEMMA ToldIs ==
  ASSUME host \in Encodings, NEW h, Header(h), NEW f \in Names("Ehdr", h[5])
  PROVE  Convert(h[6] # host, InMemory(Field(h, "Ehdr", h[5], f))) = Told(h, f)
<1>1. h[5] \in Classes /\ h[6] \in Encodings /\ h \in Strings
      /\ Len(h) = Size["Ehdr"][h[5]]
  BY HeaderIs
<1>2. Field(h, "Ehdr", h[5], f) \in Strings
  BY <1>1, FieldIs DEF Structures
<1> QED
  BY <1>1, <1>2, Conversions DEF Told, Read

LEMMA NumberIn ==
  ASSUME host \in Encodings, NEW c \in Classes, NEW e \in Encodings,
         NEW s \in Strings, Len(s) = Size["Shdr"][c], NEW f \in Numbered
  PROVE  Value(Convert(e # host, InMemory(Field(s, "Shdr", c, f)))) = NumberOf(s, c, e, f)
<1>1. "Shdr" \in Structures /\ f \in Names("Shdr", c)
  BY HeaderNames DEF Structures, Numbered
<1>2. Field(s, "Shdr", c, f) \in Strings
  BY <1>1, FieldIs
<1> QED
  BY <1>2, Conversions DEF NumberOf, Read

(* ... the section's header ...                                            *)
LEMMA HeaderLoaded ==
  ASSUME host \in Encodings,
         NEW h, Header(h), NEW k, NEW s, NEW d, Section(k, h[5], h[6], s, d),
         Holds(FileOf(h, k, s, d), h[5]), translations = stream.ranges,
         Value(Told(h, "e_shnum")) = IF k = "none" THEN 0 ELSE 1,
         Value(Told(h, "e_shoff")) = Size["Ehdr"][h[5]] + Len(d)
  PROVE  LoadedHeader(h, h[5], h[6] # host) = s
<1> DEFINE file == FileOf(h, k, s, d)
           c == h[5]
           number(f) == Value(Convert(h[6] # host, InMemory(Field(h, "Ehdr", c, f))))
           size == Size["Ehdr"][c]
           w == Size["Shdr"][c]
           pos == size + Len(d)
<1>1. /\ c \in Classes /\ size \in Nat
  BY HeaderIs
<1>2. {"e_shnum", "e_shoff"} \subseteq Names("Ehdr", c)
  BY <1>1, HeaderNames DEF Settable
<1>3. number("e_shnum") = Value(Told(h, "e_shnum"))
      /\ number("e_shoff") = Value(Told(h, "e_shoff"))
  BY <1>2, ToldIs
<1>4. LoadedHeader(h, c, h[6] # host)
        = IF number("e_shnum") = 0 THEN Blank("Shdr", c)
          ELSE ReadAt(Translate(number("e_shoff")), w)
  BY DEF LoadedHeader
<1> HIDE DEF number
<1>5. CASE k = "none"
  BY <1>3, <1>4, <1>5 DEF Section
<1>6. CASE k # "none"
  <2>1. LoadedHeader(h, c, h[6] # host) = ReadAt(Translate(pos), w)
    BY <1>3, <1>4, <1>6
  <2>2. /\ file \in Strings /\ Len(file) = size + Len(d) + w
        /\ Part(file, size + Len(d), w) = s
    BY <1>6, FileOfIs
  <2>3. w \in Nat /\ w > 0 /\ Len(d) \in Nat
    BY <1>1, Places, LenProperties DEF Structures, IsSize, Section, Strings
  <2>4. size > 0
    <3>1. Len(h) = size /\ Len(h) \in Nat /\ Len(h) >= 16
      BY HeaderIs
    <3> HIDE DEF size
    <3> QED
      BY <3>1
  <2>5. Holds(file, c)
    OBVIOUS
  <2> HIDE DEF file, w, size, c
  <2>6. /\ pos \in Nat /\ pos < Len(file) /\ pos + w <= Len(file)
        /\ Len(file) - w = pos /\ Len(file) > size /\ w <= Len(file)
    BY <1>1, <2>2, <2>3
  <2>7. Whole(stream.ranges, pos, w)
    <3>1. Whole(stream.ranges, Len(file) - w, w)
      BY <1>1, <2>2, <2>5, <2>6, TablesWhole DEF w, size
    <3> QED
      BY <2>6, <3>1
  <2>8. Part(file, pos, w) = s
    BY <2>2
  <2> HIDE DEF pos
  <2>9. ReadAt(Translate(pos), w) = Part(file, pos, w)
    BY <2>2, <2>3, <2>5, <2>6, <2>7, StreamReads
  <2> QED
    BY <2>1, <2>8, <2>9 DEF c
<1> QED
  BY <1>5, <1>6

(* ... and its contents, as many bytes as there were, and the same ones if *)
(* no range cuts them                                                      *)
LEMMA DataLoaded ==
  ASSUME NEW h, Header(h), NEW k, k # "none", NEW s, NEW d,
         Section(k, h[5], h[6], s, d),
         Holds(FileOf(h, k, s, d), h[5]), translations = stream.ranges
  PROVE  LET r == LoadedData(Translate(Size["Ehdr"][h[5]]), Len(d))
         IN /\ r \in Strings /\ Len(r) = Len(d)
            /\ Whole(stream.ranges, Size["Ehdr"][h[5]], Len(d)) => r = d
<1> DEFINE file == FileOf(h, k, s, d)
           c == h[5]
           size == Size["Ehdr"][c]
           w == Size["Shdr"][c]
           n == Len(d)
           r == LoadedData(Translate(size), n)
<1>1. /\ c \in Classes /\ size \in Nat
  BY HeaderIs
<1>2. /\ file \in Strings /\ Len(file) = size + n + w /\ Part(file, size, n) = d
  BY FileOfIs
<1>3. w \in Nat /\ w > 0 /\ n \in Nat /\ d \in Strings
  BY <1>1, Places, LenProperties DEF Structures, IsSize, Section, Strings
<1>4. Holds(file, c)
  OBVIOUS
<1> HIDE DEF file, w, size, c
<1>5. size < Len(file) /\ size + n <= Len(file)
  BY <1>1, <1>2, <1>3
<1>6. n = Len(d)
  OBVIOUS
<1> HIDE DEF n
<1>7. /\ stream.bytes \in Strings
      /\ Translate(size) \in Nat /\ Translate(size) + n <= Len(stream.bytes)
      /\ ReadAt(Translate(size), n) \in Strings
      /\ Len(ReadAt(Translate(size), n)) = n
      /\ (n > 0 /\ Whole(stream.ranges, size, n)) =>
           ReadAt(Translate(size), n) = Part(file, size, n)
  BY <1>1, <1>2, <1>3, <1>4, <1>5, StreamReads
<1> DEFINE a == ReadAt(Translate(size), n)
<1>8. r = a
  <2>1. Len(stream.bytes) \in Nat
    BY <1>7, LenProperties DEF Strings
  <2>2. ~(Translate(size) + n > Len(stream.bytes))
    BY <1>3, <1>7, <2>1
  <2> QED
    BY <2>2 DEF LoadedData
<1> HIDE DEF r
<1>9. r \in Strings /\ Len(r) = n
  BY <1>7, <1>8
<1>10. ASSUME Whole(stream.ranges, size, n)
       PROVE  r = d
  <2>1. CASE n = 0
    BY <1>3, <1>6, <1>9, <2>1, EmptyIs
  <2>2. CASE n > 0
    BY <1>2, <1>7, <1>8, <1>10, <2>2
  <2> QED
    BY <1>3, <2>1, <2>2
<1> QED
  BY <1>6, <1>9, <1>10 DEF r, size, c, n

(* What cannot be loaded has no magic number.                              *)
LEMMA NoMagicThere ==
  ASSUME Unloadable(stream.bytes), stream.bytes # <<>>, translations = {}
  PROVE  NoMagic
<1> DEFINE b == stream.bytes
<1>1. b \in Strings /\ Len(b) >= 4 /\ b[1] = 0 /\ Len(b) \in Nat
  BY LenProperties DEF Unloadable, Strings
<1>2. Translate(0) = 0
  BY DEF Translate
<1>3. ReadAt(0, 4) = Part(b, 0, 4)
  BY DEF ReadAt, Part
<1> HIDE DEF b
<1>4. \A k \in 1..4 : Part(b, 0, 4)[k] = b[k]
  BY <1>1, Prefix
<1>5. Part(b, 0, 4)[1] = 0
  BY <1>1, <1>4
<1>6. Magic[1] = 127
  BY DEF Magic
<1> QED
  BY <1>2, <1>3, <1>5, <1>6 DEF NoMagic

LEMMA LoadKeeps ==
  ASSUME ObjectInv, SavedInv, Load
  PROVE  ObjectInv' /\ SavedInv'
<1>1. /\ host \in Encodings /\ host' = host /\ calls \in Nat /\ calls' = calls
      /\ calls <= MaxCalls /\ stream' = stream /\ saved' = saved
      /\ translations = stream.ranges /\ stream.bytes # <<>> /\ ~NoMagic
      /\ log' = saved.log /\ unlogged' = (saved.unlogged \/ ~AllWhole)
  BY DEF ObjectInv, Load
<1>2. \E h, k, s, d : Image(saved, h, k, s, d, calls) /\ Kept(h, k, s, d)
  BY <1>1, NoMagicThere DEF SavedInv
<1>3. PICK h, k, s, d : Image(saved, h, k, s, d, calls) /\ Kept(h, k, s, d)
  BY <1>2
<1> DEFINE c == h[5]
           e == h[6]
           size == Size["Ehdr"][c]
<1>4. /\ Object(h, k, s, d, saved.log, saved.unlogged, calls)
      /\ Header(h) /\ Section(k, c, e, s, d)
      /\ Value(Told(h, "e_shnum")) = IF k = "none" THEN 0 ELSE 1
      /\ Value(Told(h, "e_shoff")) = Size["Ehdr"][c] + Len(d)
      /\ k # "none" => NumberOf(s, c, e, "sh_offset") = Size["Ehdr"][c]
      /\ saved.pieces = PiecesOf(k, c, d)
      /\ Holds(FileOf(h, k, s, d), c)
  BY <1>3 DEF Image, Object, Kept
<1>5. /\ h \in Strings /\ Len(h) = size /\ c \in Classes /\ e \in Encodings
      /\ size \in Nat /\ size >= 16
  BY <1>4, HeaderIs
<1>6. /\ k \in Kinds \cup {"none"} /\ s \in Strings /\ Len(s) = Size["Shdr"][c]
      /\ d \in Strings
  BY <1>4 DEF Section
<1> DEFINE ident == ReadAt(Translate(0), 16)
<1>7. ident[5] = c /\ ident[6] = e
  <2>1. ident = Part(h, 0, 16)
    <3>1. 16 \in Nat /\ 16 > 0 /\ 16 <= Size["Ehdr"][h[5]]
      BY <1>5
    <3> QED
      BY <1>1, <1>4, <3>1, StartLoaded
  <2>2. \A i \in 1..16 : Part(h, 0, 16)[i] = h[i]
    BY <1>5, Prefix
  <2>3. Part(h, 0, 16)[5] = h[5] /\ Part(h, 0, 16)[6] = h[6]
    BY <2>2
  <2> QED
    BY <2>1, <2>3
<1>8. ReadAt(Translate(0), size) = h
  <2>1. size \in Nat /\ size > 0 /\ size <= Size["Ehdr"][h[5]]
    BY <1>5
  <2>2. ReadAt(Translate(0), size) = Part(h, 0, size)
    <3> DEFINE m == size
    <3>1. m \in Nat /\ m > 0 /\ m <= Size["Ehdr"][h[5]]
      BY <2>1
    <3> HIDE DEF m
    <3>2. ReadAt(Translate(0), m) = Part(h, 0, m)
      BY <1>1, <1>4, <3>1, StartLoaded
    <3> QED
      BY <3>2 DEF m
  <2> QED
    BY <1>5, <2>2, WholePart
<1>9. NeedConversion(e) = (e # host)
  BY <1>1, NeedIs
<1>10. LoadedHeader(h, c, e # host) = s
  BY <1>1, <1>4, HeaderLoaded
<1> DEFINE number(f) == Value(Convert(e # host, InMemory(Field(s, "Shdr", c, f))))
<1>11. /\ need_conversion' = (e # host) /\ header' = h /\ shdr' = s
       /\ kind' = CHOOSE what \in Kinds \cup {"none"} :
                    TypeNumber(what) = number("sh_type")
       /\ data' = IF kind' = "none" THEN <<>>
                  ELSE LoadedData(Translate(number("sh_offset")), number("sh_size"))
       /\ loaded' = TRUE
  <2> DEFINE need == NeedConversion(ident[6])
             top == ReadAt(Translate(0), Size["Ehdr"][ident[5]])
             table == LoadedHeader(top, ident[5], need)
             num(f) == Value(Convert(need, InMemory(Field(table, "Shdr", ident[5], f))))
  <2>1. /\ need_conversion' = need /\ header' = top /\ shdr' = table
        /\ kind' = CHOOSE what \in Kinds \cup {"none"} :
                     TypeNumber(what) = num("sh_type")
        /\ data' = IF kind' = "none" THEN <<>>
                   ELSE LoadedData(Translate(num("sh_offset")), num("sh_size"))
        /\ loaded' = TRUE
    BY DEF Load
  <2>2. need = (e # host) /\ top = h
    BY <1>7, <1>8, <1>9
  <2>3. table = s
    BY <1>7, <1>10, <2>2
  <2>4. num("sh_type") = number("sh_type") /\ num("sh_offset") = number("sh_offset")
        /\ num("sh_size") = number("sh_size")
    <3> HIDE DEF table, need, ident
    <3> QED
      BY <1>7, <2>2, <2>3
  <2> HIDE DEF need, top, table, num
  <2> QED
    BY <2>1, <2>2, <2>3, <2>4
<1>12. \A f \in Numbered : number(f) = NumberOf(s, c, e, f)
  BY <1>1, <1>5, <1>6, NumberIn
<1> HIDE DEF ident, number
<1>13. kind' = k
  <2>1. number("sh_type") = TypeNumber(k)
    BY <1>4, <1>5, <1>12, TypeIs DEF Numbered
  <2>2. kind' \in Kinds \cup {"none"} /\ TypeNumber(kind') = TypeNumber(k)
    BY <1>6, <1>11, <2>1
  <2> QED
    BY <1>6, <2>2, TypeNumbers
<1>14. /\ data' \in Strings /\ Len(data') = Len(d) /\ (k = "none" => data' = d)
       /\ AllWhole => data' = d
  <2>1. CASE k = "none"
    <3>1. data' = <<>> /\ d = <<>>
      BY <1>4, <1>11, <1>13, <2>1 DEF Section
    <3> QED
      BY <3>1, EmptyIs
  <2>2. CASE k # "none"
    <3>1. number("sh_offset") = size /\ number("sh_size") = Len(d)
      BY <1>4, <1>12, <2>2 DEF Numbered, Section
    <3>2. data' = LoadedData(Translate(Size["Ehdr"][h[5]]), Len(d))
      BY <1>11, <1>13, <2>2, <3>1
    <3> DEFINE r == LoadedData(Translate(Size["Ehdr"][h[5]]), Len(d))
    <3>3. /\ r \in Strings /\ Len(r) = Len(d)
          /\ Whole(stream.ranges, Size["Ehdr"][h[5]], Len(d)) => r = d
      BY <1>1, <1>4, <2>2, DataLoaded
    <3>4. AllWhole => Whole(stream.ranges, Size["Ehdr"][h[5]], Len(d))
      <4> DEFINE p == <<size, Len(d)>>
      <4>1. p \in saved.pieces
        BY <1>4, <2>2 DEF PiecesOf
      <4>2. p[1] = size /\ p[2] = Len(d)
        OBVIOUS
      <4> HIDE DEF p
      <4> QED
        BY <4>1, <4>2 DEF AllWhole, Whole
    <3> HIDE DEF r
    <3> QED
      BY <2>2, <3>2, <3>3, <3>4 DEF r
  <2> QED
    BY <2>1, <2>2
<1>15. Section(k, c, e, s, data')
  BY <1>4, <1>14 DEF Section
<1>16. /\ saved.log \in Seq(Entry) /\ Len(d) <= 96 * calls
       /\ ~saved.unlogged => Logged(k, c, e, d, saved.log)
  BY <1>4 DEF Object
<1>17. ~unlogged' => Logged(k, c, e, data', log')
  <2> SUFFICES ASSUME ~unlogged' PROVE Logged(k, c, e, data', log')
    OBVIOUS
  <2>1. ~saved.unlogged /\ AllWhole
    BY <1>1
  <2> QED
    BY <1>1, <1>14, <1>16, <2>1
<1>18. Object(header', kind', shdr', data', log', unlogged', calls')
  BY <1>1, <1>4, <1>11, <1>13, <1>14, <1>15, <1>16, <1>17 DEF Object
<1>19. ObjectInv'
  BY <1>1, <1>11, <1>18 DEF ObjectInv
<1>20. Kept(h, k, s, d)'
  <2>1. Holds(FileOf(h, k, s, d), h[5])'
    BY <1>1, <1>4 DEF Holds
  <2>2. AllWhole' <=> AllWhole
    BY <1>1 DEF AllWhole
  <2> QED
    BY <1>1, <1>11, <1>13, <1>14, <2>1, <2>2 DEF Kept
<1>21. SavedInv'
  BY <1>1, <1>3, <1>20 DEF SavedInv
<1> QED
  BY <1>19, <1>21

(* Calls that leave the stream alone                                       *)
LEMMA SavedStays ==
  ASSUME SavedInv, saved' = saved, stream' = stream, loaded' = FALSE,
         calls \in Nat, calls' \in Nat, calls <= calls'
  PROVE  SavedInv'
<1>1. CASE /\ saved = <<>> /\ loaded = FALSE /\ stream.ranges = {}
           /\ Unloadable(stream.bytes)
  BY <1>1 DEF SavedInv
<1>2. CASE \E h, k, s, d : Image(saved, h, k, s, d, calls) /\ Kept(h, k, s, d)
  <2>1. PICK h, k, s, d : Image(saved, h, k, s, d, calls) /\ Kept(h, k, s, d)
    BY <1>2
  <2>2. Image(saved', h, k, s, d, calls')
    <3> DEFINE v == saved
               n == calls
               m == calls'
    <3>1. n \in Nat /\ m \in Nat /\ n <= m /\ Image(v, h, k, s, d, n)
      BY <2>1
    <3> HIDE DEF v, n, m
    <3>2. Object(h, k, s, d, v.log, v.unlogged, m)
      BY <3>1, ObjectLater DEF Image
    <3>3. Image(v, h, k, s, d, m)
      BY <3>1, <3>2 DEF Image
    <3> QED
      BY <3>3 DEF v, m
  <2>3. Kept(h, k, s, d)'
    BY <2>1 DEF Kept, Holds
  <2> QED
    BY <2>2, <2>3 DEF SavedInv
<1> QED
  BY <1>1, <1>2 DEF SavedInv

LEMMA ClassTold ==
  ASSUME NEW h, Header(h)
  PROVE  GettersOf(h).ei_class[1] = h[5]
<1> DEFINE c == h[5]
           v == Field(h, "Ehdr", c, "ei_class")
<1>1. /\ c \in Classes /\ h[6] \in Encodings /\ h \in Strings
      /\ Len(h) = Size["Ehdr"][c] /\ Len(h) >= 16
  BY HeaderIs
<1>2. "ei_class" \in Names("Ehdr", c) /\ At("Ehdr", c, "ei_class") = 4
      /\ Width("Ehdr", c, "ei_class") = 1
  BY <1>1, HeaderNames
<1>3. v = Part(h, 4, 1)
  BY <1>1, <1>2, FieldIs DEF Structures
<1>4. v \in Strings /\ Len(v) = 1 /\ v[1] = h[5]
  <2>1. 4 + 1 <= Len(h) /\ 4 \in Nat /\ 1 \in Nat
    <3>1. Len(h) \in Nat
      BY HeaderIs
    <3> QED
      BY <1>1, <3>1
  <2>2. /\ Part(h, 4, 1) \in Strings /\ Len(Part(h, 4, 1)) = 1
        /\ \A i \in 1..1 : Part(h, 4, 1)[i] = h[4 + i]
    BY <1>1, <2>1, PartTyped
  <2>3. Part(h, 4, 1)[1] = h[4 + 1]
    BY <2>2
  <2> QED
    BY <1>3, <2>2, <2>3
<1>5. GettersOf(h).ei_class = Decode(h[6], v)
  BY <1>2 DEF GettersOf, Told, Read
<1> HIDE DEF v
<1>6. Decode(h[6], v)[1] = v[1]
  <2>1. CASE h[6] = LSB
    BY <2>1 DEF Decode
  <2>2. CASE h[6] # LSB
    <3>1. Reverse(v)[1] = v[Len(v) - 1 + 1]
      <4>1. \A i \in 1..Len(v) : Reverse(v)[i] = v[Len(v) - i + 1]
        BY <1>4, ReverseTwice DEF Strings
      <4> QED
        BY <1>4, <4>1
    <3> QED
      BY <1>4, <2>2, <3>1 DEF Decode
  <2> QED
    BY <2>1, <2>2
<1> QED
  BY <1>4, <1>5, <1>6

LEMMA DumpKeeps ==
  ASSUME ObjectInv, SavedInv, NEW ranges \in DumpsNow, Dump(ranges)
  PROVE  ObjectInv' /\ SavedInv'
<1>1. /\ UNCHANGED <<host, object, translations, calls, saved>> /\ loaded' = FALSE
      /\ stream.ranges = {} /\ ranges # {}
      /\ stream' = [bytes |-> Dumped(stream.bytes, ranges), ranges |-> ranges]
  BY DEF Dump
<1>2. ObjectInv'
  BY <1>1 DEF ObjectInv, object
<1>3. saved # <<>> /\ ranges \in Dumps(saved.getters.ei_class[1], Len(stream.bytes))
  BY DEF DumpsNow
<1>4. PICK h, k, s, d : Image(saved, h, k, s, d, calls) /\ Kept(h, k, s, d)
  BY <1>3 DEF SavedInv
<1> DEFINE c == h[5]
           file == FileOf(h, k, s, d)
           n == Len(d)
           size == Size["Ehdr"][c]
           w == Size["Shdr"][c]
<1>5. /\ Header(h) /\ Section(k, c, h[6], s, d) /\ Holds(file, c)
      /\ saved.getters = GettersOf(h) /\ n <= 96 * calls
  BY <1>4 DEF Image, Object, Kept
<1>6. saved.getters.ei_class[1] = c
  BY <1>5, ClassTold
<1>7. /\ file \in Strings /\ Len(file) = IF k = "none" THEN size ELSE size + n + w
  BY <1>5, FileOfIs
<1>8. c \in Classes /\ n \in Nat
  BY <1>5, HeaderIs, LenProperties DEF Section, Strings
<1>9. n \in 0..MaxData
  <2>1. calls \in Nat /\ calls <= MaxCalls
    BY DEF ObjectInv
  <2> HIDE DEF n
  <2>2. 0 \in Nat /\ 0 <= 160
    OBVIOUS
  <2>3. n <= MaxData
    BY <1>5, <1>8, <2>1, <2>2, SmallEnough
  <2>4. MaxData \in Nat
    BY CallsAssumption DEF MaxData
  <2> QED
    BY <1>8, <2>3, <2>4
<1>10. stream.bytes = file
  BY <1>1, <1>5, <1>7, <1>8, TablesWhole
<1>11. IsDump(ranges, c, Len(file))
  <2>1. /\ \A t \in Dumps(c, size) : IsDump(t, c, size)
        /\ \A t \in Dumps(c, size + n + w) : IsDump(t, c, size + n + w)
    BY <1>8, <1>9, DumpsAssumption
  <2>2. ranges \in Dumps(c, Len(file))
    BY <1>3, <1>6, <1>10
  <2> HIDE DEF file, size, w, n
  <2> QED
    BY <1>7, <2>1, <2>2
<1>12. stream'.bytes = Dumped(file, ranges) /\ stream'.ranges = ranges
  BY <1>1, <1>10
<1>13. Kept(h, k, s, d)'
  <2>1. Holds(file, c)'
    BY <1>11, <1>12 DEF Holds
  <2> QED
    BY <1>1, <2>1 DEF Kept
<1>14. SavedInv'
  BY <1>1, <1>4, <1>13 DEF SavedInv
<1> QED
  BY <1>2, <1>14

-----------------------------------------------------------------------------
(* The inductive invariant                                                 *)

EncodingInv == ObjectInv /\ SavedInv /\ Ranges(translations)

LEMMA StreamRanges ==
  ASSUME SavedInv
  PROVE  Ranges(stream.ranges)
<1>1. CASE stream.ranges = {}
  BY <1>1 DEF Ranges
<1>2. CASE stream.ranges # {}
  <2>1. PICK h, k, s, d : Image(saved, h, k, s, d, calls) /\ Kept(h, k, s, d)
    BY <1>2 DEF SavedInv
  <2>2. Header(h) /\ Section(k, h[5], h[6], s, d) /\ Holds(FileOf(h, k, s, d), h[5])
    BY <2>1 DEF Image, Object, Kept
  <2>3. FileOf(h, k, s, d) \in Strings /\ h[5] \in Classes
    BY <2>2, FileOfIs, HeaderIs
  <2> QED
    BY <2>2, <2>3, TablesWhole
<1> QED
  BY <1>1, <1>2

LEMMA InitInv == Init => EncodingInv
<1> SUFFICES ASSUME Init PROVE EncodingInv
  OBVIOUS
<1>1. /\ translations = {} /\ saved = <<>> /\ loaded = FALSE
      /\ stream = [bytes |-> <<>>, ranges |-> {}]
  BY DEF Init
<1>2. stream.bytes = <<>> /\ stream.ranges = {}
  BY <1>1
<1>3. SavedInv
  BY <1>1, <1>2 DEF SavedInv, Unloadable
<1>4. Ranges(translations)
  BY <1>1 DEF Ranges
<1> QED
  BY <1>3, <1>4, ObjectInit DEF EncodingInv

LEMMA NextInv == EncodingInv /\ [Next]_vars => EncodingInv'
<1> SUFFICES ASSUME EncodingInv, [Next]_vars PROVE EncodingInv'
  OBVIOUS
<1>1. ObjectInv /\ SavedInv /\ Ranges(translations) /\ calls \in Nat
  BY DEF EncodingInv, ObjectInv
<1>2. ASSUME NEW f \in Formats, Create(f[1], f[2])
      PROVE  EncodingInv'
  <2>1. ObjectInv'
    BY <1>1, <1>2, CreateKeeps
  <2>2. /\ UNCHANGED <<translations, stream, saved>> /\ loaded' = FALSE /\ Called
    BY <1>2 DEF Create
  <2>3. SavedInv'
    BY <1>1, <2>2, CalledIs, SavedStays
  <2> QED
    BY <1>1, <2>1, <2>2, <2>3 DEF EncodingInv, Ranges
<1>3. ASSUME NEW v \in HeaderValues, SetHeader(v[1], v[2])
      PROVE  EncodingInv'
  <2>1. ObjectInv'
    BY <1>1, <1>3, SetHeaderKeeps
  <2>2. /\ UNCHANGED <<translations, stream, saved>> /\ loaded' = FALSE /\ Called
    BY <1>3 DEF SetHeader
  <2>3. SavedInv'
    BY <1>1, <2>2, CalledIs, SavedStays
  <2> QED
    BY <1>1, <2>1, <2>2, <2>3 DEF EncodingInv, Ranges
<1>4. ASSUME NEW what \in Kinds, AddSection(what)
      PROVE  EncodingInv'
  <2>1. ObjectInv'
    BY <1>1, <1>4, AddSectionKeeps
  <2>2. /\ UNCHANGED <<translations, stream, saved>> /\ loaded' = FALSE /\ Called
    BY <1>4 DEF AddSection
  <2>3. SavedInv'
    BY <1>1, <2>2, CalledIs, SavedStays
  <2> QED
    BY <1>1, <2>1, <2>2, <2>3 DEF EncodingInv, Ranges
<1>5. ASSUME NEW what \in Kinds, NEW x \in EntriesOf(what), AddEntry(what, x)
      PROVE  EncodingInv'
  <2>1. ObjectInv'
    BY <1>1, <1>5, AddEntryKeeps
  <2>2. /\ UNCHANGED <<translations, stream, saved>> /\ loaded' = FALSE /\ Called
    BY <1>5 DEF AddEntry
  <2>3. SavedInv'
    BY <1>1, <2>2, CalledIs, SavedStays
  <2> QED
    BY <1>1, <2>1, <2>2, <2>3 DEF EncodingInv, Ranges
<1>6. ASSUME NEW n \in 0..MaxCalls, NEW x \in EntriesOf(kind), SetEntry(n, x)
      PROVE  EncodingInv'
  <2>1. n \in Nat
    OBVIOUS
  <2>2. ObjectInv'
    BY <1>1, <1>6, <2>1, SetEntryKeeps
  <2>3. /\ UNCHANGED <<translations, stream, saved>> /\ loaded' = FALSE /\ Called
    BY <1>6 DEF SetEntry
  <2>4. SavedInv'
    BY <1>1, <2>3, CalledIs, SavedStays
  <2> QED
    BY <1>1, <2>2, <2>3, <2>4 DEF EncodingInv, Ranges
<1>7. CASE Save
  <2>1. translations' = translations
    BY <1>7 DEF Save
  <2> QED
    BY <1>1, <1>7, <2>1, SaveKeeps DEF EncodingInv, Ranges
<1>8. CASE Load
  <2>1. translations' = translations
    BY <1>8 DEF Load
  <2> QED
    BY <1>1, <1>8, <2>1, LoadKeeps DEF EncodingInv, Ranges
<1>9. CASE LoadFails
  <2>1. ObjectInv'
    BY <1>1, <1>9, LoadFailsKeeps
  <2>2. /\ UNCHANGED <<translations, stream, saved, calls>> /\ loaded' = FALSE
    BY <1>9 DEF LoadFails
  <2>3. SavedInv'
    <3>1. calls' \in Nat /\ calls <= calls'
      BY <1>1, <2>2
    <3> QED
      BY <1>1, <2>2, <3>1, SavedStays
  <2> QED
    BY <1>1, <2>1, <2>2, <2>3 DEF EncodingInv, Ranges
<1>10. ASSUME NEW ranges \in DumpsNow, Dump(ranges)
       PROVE  EncodingInv'
  <2>1. translations' = translations
    BY <1>10 DEF Dump
  <2> QED
    BY <1>1, <1>10, <2>1, DumpKeeps DEF EncodingInv, Ranges
<1>11. ASSUME NEW t \in {{}, stream.ranges}, SetAddressTranslation(t)
       PROVE  EncodingInv'
  <2>1. /\ UNCHANGED <<host, object, stream, calls, saved, loaded>>
        /\ translations' = t
    BY <1>11 DEF SetAddressTranslation
  <2>2. Ranges(t)
    BY <1>1, StreamRanges DEF Ranges
  <2>3. ObjectInv'
    BY <1>1, <2>1 DEF ObjectInv, object
  <2>4. SavedInv'
    BY <1>1, <2>1 DEF SavedInv, Kept, Holds, AllWhole, object
  <2>5. Ranges(translations)'
    BY <2>1, <2>2 DEF Ranges
  <2> QED
    BY <2>3, <2>4, <2>5 DEF EncodingInv
<1>12. CASE UNCHANGED vars
  <2>1. UNCHANGED <<host, object, translations, stream, calls, saved, loaded>>
    BY <1>12 DEF vars
  <2>2. ObjectInv'
    BY <1>1, <2>1 DEF ObjectInv, object
  <2>3. SavedInv'
    BY <1>1, <2>1 DEF SavedInv, Kept, Holds, AllWhole, object
  <2> QED
    BY <1>1, <2>1, <2>2, <2>3 DEF EncodingInv, Ranges
<1> QED
  BY <1>2, <1>3, <1>4, <1>5, <1>6, <1>7, <1>8, <1>9, <1>10, <1>11, <1>12 DEF Next

(* The inductive invariant: in memory, and in the stream if it was saved   *)
(* to position 0, an object is its header, its section's header and its    *)
(* entries, each number inscribed in the encoding that the header states.  *)
THEOREM Invariance == Spec => []EncodingInv
<1>1. Init => EncodingInv
  BY InitInv
<1>2. EncodingInv /\ [Next]_vars => EncodingInv'
  BY NextInv
<1> QED
  BY <1>1, <1>2, PTL DEF Spec

-----------------------------------------------------------------------------
(* The properties                                                          *)

LEMMA InvTypeOK == EncodingInv => EncodingTypeOK
<1> SUFFICES ASSUME EncodingInv PROVE EncodingTypeOK
  OBVIOUS
<1> DEFINE c == header[5]
           e == header[6]
<1>1. /\ host \in Encodings /\ need_conversion = (e # host) /\ Header(header)
      /\ Section(kind, c, e, shdr, data)
  BY DEF EncodingInv, ObjectInv, Object
<1>2. c \in Classes /\ e \in Encodings /\ header \in Strings /\ Len(header) = Size["Ehdr"][c]
  BY <1>1, HeaderIs
<1>3. /\ kind \in Kinds \cup {"none"} /\ shdr \in Strings
      /\ Len(shdr) = Size["Shdr"][c]
      /\ kind # "none" => NumberOf(shdr, c, e, "sh_size") = Len(data)
  BY <1>1 DEF Section
<1>4. SectionField("sh_size") = NumberOf(shdr, c, e, "sh_size")
  BY <1>1, <1>2, <1>3, SectionFieldIs DEF Numbered
<1>5. header \in Seq(0..255) /\ shdr \in Seq(0..255)
  BY <1>2, <1>3 DEF Strings, Byte
<1> QED
  BY <1>1, <1>2, <1>3, <1>4, <1>5 DEF EncodingTypeOK, Class

(* Every field has the width that its file class gives it, the conversion  *)
(* follows the header in use and the section's size is that of its bytes.  *)
THEOREM TypeCorrect == Spec => []EncodingTypeOK
BY Invariance, InvTypeOK, PTL

LEMMA InvReadBack == EncodingInv => EntriesReadBack
<1> SUFFICES ASSUME EncodingInv, kind # "none", ~unlogged
             PROVE  LET first == IF kind = "SYMTAB" /\ log # <<>> THEN 1 ELSE 0
                        counted == Counted(kind, Class, log)
                    IN
                    /\ EntriesNum = counted + first
                    /\ \A n \in 1..counted :
                         Fits(kind, Class, log[n]) => Entries[n + first] = log[n]
  BY DEF EntriesReadBack
<1> DEFINE c == header[5]
           e == header[6]
           first == IF kind = "SYMTAB" /\ log # <<>> THEN 1 ELSE 0
<1>1. /\ host \in Encodings /\ need_conversion = (e # host) /\ Header(header)
      /\ Section(kind, c, e, shdr, data) /\ log \in Seq(Entry)
      /\ Logged(kind, c, e, data, log)
  BY DEF EncodingInv, ObjectInv, Object
<1>2. c \in Classes /\ e \in Encodings
  BY <1>1, HeaderIs
<1>3. kind \in Kinds /\ data \in Strings
  BY <1>1 DEF Section
<1>4. /\ EntriesNum = NumIn(kind, c, e, data)
      /\ Entries = EntriesIn(kind, c, e, data)
  BY <1>1, <1>2, EntriesAre
<1>5. /\ NumIn(kind, c, e, data) = Counted(kind, c, log) + First(kind, log)
      /\ \A n \in 1..Counted(kind, c, log) : Fits(kind, c, log[n]) =>
           EntriesIn(kind, c, e, data)[n + First(kind, log)] = log[n]
  <2> DEFINE T == Entry
             lg == log
             K == kind
             D == data
  <2>1. K \in Kinds /\ D \in Strings /\ lg \in Seq(T) /\ Logged(K, c, e, D, lg)
    BY <1>1, <1>3
  <2> HIDE DEF T, lg, K, D, c, e
  <2>2. /\ NumIn(K, c, e, D) = Counted(K, c, lg) + First(K, lg)
        /\ \A n \in 1..Counted(K, c, lg) : Fits(K, c, lg[n]) =>
             EntriesIn(K, c, e, D)[n + First(K, lg)] = lg[n]
    BY <1>2, <2>1, ReadsBack
  <2> QED
    BY <2>2 DEF lg, K, D
<1>6. first = First(kind, log) /\ DOMAIN log = 1..Len(log)
  <2>1. /\ DOMAIN log = 1..Len(log) /\ Len(log) \in Nat
        /\ (Len(log) = 0 <=> log = <<>>)
    BY <1>1, LenProperties, EmptySeq
  <2> QED
    BY <2>1 DEF First
<1> HIDE DEF first
<1> QED
  BY <1>4, <1>5, <1>6 DEF first, Class

(* Entries that fit the fields of the class are read as they were added or *)
(* last set, in either class and encoding, through saves and loads.        *)
THEOREM EntriesAreReadBack == Spec => []EntriesReadBack
BY Invariance, InvReadBack, PTL

LEMMA InvLoadsAlike == EncodingInv => LoadsAlike
<1> SUFFICES ASSUME EncodingInv, loaded, AllWhole
             PROVE  /\ Getters = saved.getters /\ kind = saved.kind
                    /\ kind # "none" => Entries = saved.entries
  BY DEF LoadsAlike
<1>1. PICK h, k, s, d : Image(saved, h, k, s, d, calls) /\ Kept(h, k, s, d)
  BY DEF EncodingInv, SavedInv
<1>2. header = h /\ kind = k /\ shdr = s /\ data = d
  BY <1>1 DEF Kept
<1>3. /\ host \in Encodings /\ need_conversion = (header[6] # host) /\ Header(header)
      /\ Section(kind, header[5], header[6], shdr, data)
  BY DEF EncodingInv, ObjectInv, Object
<1>4. Getters = GettersOf(header)
  BY <1>3, GettersAre
<1>5. kind # "none" => Entries = EntriesIn(kind, header[5], header[6], data)
  BY <1>3, HeaderIs, EntriesAre
<1>6. /\ saved.getters = GettersOf(h) /\ saved.kind = k
      /\ saved.entries = IF k = "none" THEN <<>> ELSE EntriesIn(k, h[5], h[6], d)
  BY <1>1 DEF Image
<1> QED
  BY <1>2, <1>4, <1>5, <1>6

(* What is loaded from a file, or from a dump that cuts no structure, is   *)
(* the object that was saved.                                              *)
THEOREM LoadedAlike == Spec => []LoadsAlike
BY Invariance, InvLoadsAlike, PTL

LEMMA InvDecodes == EncodingInv => FileDecodes
<1> DEFINE C == stream.bytes[5]
           Decoded(bytes) == IF stream.bytes[6] = LSB THEN bytes ELSE Reverse(bytes)
           top(f) == Decoded(Field(stream.bytes, "Ehdr", C, f))
           shdr_bytes == ReadAt(Value(top("e_shoff")), Size["Shdr"][C])
           table(f) == Value(Decoded(Field(shdr_bytes, "Shdr", C, f)))
           at(n) == table("sh_offset") + (n - 1) * table("sh_entsize")
           Top == /\ Value(top("e_ehsize")) = Size["Ehdr"][C]
                  /\ Value(top("e_shentsize")) = Size["Shdr"][C]
                  /\ \A f \in DOMAIN saved.getters : top(f) = saved.getters[f]
           Rest == saved.kind \notin {"none", "INIT_ARRAY"} =>
              /\ table("sh_type") = TypeNumber(saved.kind)
              /\ table("sh_entsize") = Size[saved.kind][C]
              /\ LET all == table("sh_size") \div table("sh_entsize")
                     seen == Len(saved.entries)
                 IN /\ seen <= all
                    /\ seen < all => /\ saved.kind = "DYNAMIC" /\ seen > 0
                                     /\ saved.entries[seen].tag = Null
              /\ \A n \in DOMAIN saved.entries :
                   LET bytes == ReadAt(at(n), table("sh_entsize"))
                   IN saved.entries[n] =
                        Unpacked(saved.kind, C,
                          [f \in DOMAIN Place[saved.kind][C] |->
                             Decoded(Field(bytes, saved.kind, C, f))])
<1>0. FileDecodes <=> ((saved # <<>> /\ stream.ranges = {}) => (Top /\ Rest))
  BY DEF FileDecodes
<1> HIDE DEF Top, Rest
<1> SUFFICES ASSUME EncodingInv, saved # <<>>, stream.ranges = {} PROVE Top /\ Rest
  BY <1>0
<1>1. PICK h, k, s, d : Image(saved, h, k, s, d, calls) /\ Kept(h, k, s, d)
  BY DEF EncodingInv, SavedInv
<1> DEFINE c == h[5]
           e == h[6]
           file == FileOf(h, k, s, d)
           size == Size["Ehdr"][c]
           L == Len(d)
<1>2. /\ Header(h) /\ Section(k, c, e, s, d) /\ Holds(file, c)
      /\ saved.kind = k /\ saved.getters = GettersOf(h)
      /\ saved.entries = IF k = "none" THEN <<>> ELSE EntriesIn(k, c, e, d)
      /\ Value(Told(h, "e_shoff")) = size + L
      /\ k # "none" => NumberOf(s, c, e, "sh_offset") = size
  BY <1>1 DEF Image, Object, Kept
<1>3. /\ h \in Strings /\ Len(h) = size /\ c \in Classes /\ e \in Encodings
      /\ size \in Nat /\ size >= 16
  BY <1>2, HeaderIs
<1>4. /\ file \in Strings
      /\ \A q, m \in Nat : q + m <= size => Part(file, q, m) = Part(h, q, m)
      /\ k # "none" => /\ Part(file, size, L) = d
                       /\ Part(file, size + L, Size["Shdr"][c]) = s
                       /\ Len(file) = size + L + Size["Shdr"][c]
      /\ Len(file) >= size
  <2>1. /\ file \in Strings
        /\ Len(file) = IF k = "none" THEN size ELSE size + L + Size["Shdr"][c]
        /\ \A q, m \in Nat : q + m <= size => Part(file, q, m) = Part(h, q, m)
        /\ k # "none" => /\ Part(file, size, L) = d
                         /\ Part(file, size + L, Size["Shdr"][c]) = s
    BY <1>2, FileOfIs
  <2>2. Size["Shdr"][c] \in Nat /\ L \in Nat
    BY <1>2, <1>3, Places, LenProperties DEF Structures, IsSize, Section, Strings
  <2> DEFINE w == Size["Shdr"][c]
  <2> DEFINE F == Len(file)
  <2>3. (F = IF k = "none" THEN size ELSE size + L + w) /\ w \in Nat /\ L \in Nat
        /\ size \in Nat
    BY <1>3, <2>1, <2>2
  <2> HIDE DEF F, file, size, L, w
  <2>4. F >= size
    BY <2>3
  <2>5. Len(file) >= size
    BY <2>4 DEF F
  <2> QED
    BY <2>1, <2>5
<1>5. stream.bytes = file
  BY <1>2, <1>3, <1>4, TablesWhole
<1> HIDE DEF file
<1>6. file[5] = c /\ file[6] = e
  <2>1. 6 \in Nat /\ 6 <= Len(h) /\ 6 <= Len(file) /\ 0 + 6 <= size /\ 0 \in Nat
    <3>1. Len(file) \in Nat
      BY <1>4, LenProperties DEF Strings
    <3> HIDE DEF size
    <3> QED
      BY <1>3, <1>4, <3>1
  <2>2. Part(file, 0, 6) = Part(h, 0, 6)
    BY <1>4, <2>1
  <2>3. \A i \in 1..6 : Part(file, 0, 6)[i] = file[i] /\ Part(h, 0, 6)[i] = h[i]
    BY <1>3, <1>4, <2>1, Prefix
  <2>4. file[5] = h[5] /\ file[6] = h[6]
    BY <2>2, <2>3
  <2> QED
    BY <2>4
<1>7. ASSUME NEW f \in Names("Ehdr", c)
      PROVE  Decode(e, Field(file, "Ehdr", c, f)) = Told(h, f)
  <2> DEFINE p == Place["Ehdr"][c][f]
             a == At("Ehdr", c, f)
             w == Width("Ehdr", c, f)
  <2>1. "Ehdr" \in Structures
    BY DEF Structures
  <2>2. p = <<a + 1, w>> /\ a \in Nat /\ w \in 1..8 /\ a + w <= size
    BY <1>3, <2>1, Places
  <2>3. Field(h, "Ehdr", c, f) = Part(h, a, w)
    BY <1>3, <2>1, FieldIs
  <2> HIDE DEF a, w, p
  <2>4. p[1] = a + 1 /\ p[1] + p[2] - 1 = a + w /\ w \in Nat
    <3>1. p[1] = a + 1 /\ p[2] = w
      BY <2>2
    <3>2. a \in Nat /\ w \in Nat
      BY <2>2
    <3>3. a + 1 + w - 1 = a + w
      BY <3>2
    <3> QED
      BY <3>1, <3>2, <3>3
  <2>5. Field(file, "Ehdr", c, f) = Part(file, a, w)
    BY <2>4 DEF Field, Part, p
  <2>6. Part(file, a, w) = Part(h, a, w)
    <3> HIDE DEF size
    <3> QED
      BY <1>4, <2>2, <2>4
  <2> QED
    BY <2>3, <2>5, <2>6 DEF Told, Read
<1>8. C = c /\ \A b : Decoded(b) = Decode(e, b)
  BY <1>5, <1>6 DEF Decode
<1>9. \A f \in Names("Ehdr", c) : top(f) = Told(h, f)
  <2> HIDE DEF C, Decoded
  <2> QED
    BY <1>5, <1>7, <1>8
<1>10. {"e_ehsize", "e_shentsize", "e_shoff"} \subseteq Names("Ehdr", c)
  BY <1>3, HeaderNames DEF Settable
<1> HIDE DEF top, C, Decoded
<1>11. Top
  <2>1. /\ Value(Told(h, "e_ehsize")) = Size["Ehdr"][c]
        /\ Value(Told(h, "e_shentsize")) = Size["Shdr"][c]
    BY <1>2 DEF Header, Told
  <2>2. \A f \in DOMAIN GettersOf(h) :
          f \in Names("Ehdr", c) /\ GettersOf(h)[f] = Told(h, f)
    BY DEF GettersOf
  <2> QED
    BY <1>2, <1>8, <1>9, <1>10, <2>1, <2>2 DEF Top
<1>12. ASSUME saved.kind \notin {"none", "INIT_ARRAY"}
       PROVE  /\ table("sh_type") = TypeNumber(saved.kind)
              /\ table("sh_entsize") = Size[saved.kind][C]
              /\ LET all == table("sh_size") \div table("sh_entsize")
                     seen == Len(saved.entries)
                 IN /\ seen <= all
                    /\ seen < all => /\ saved.kind = "DYNAMIC" /\ seen > 0
                                     /\ saved.entries[seen].tag = Null
              /\ \A n \in DOMAIN saved.entries :
                   LET bytes == ReadAt(at(n), table("sh_entsize"))
                   IN saved.entries[n] =
                        Unpacked(saved.kind, C,
                          [f \in DOMAIN Place[saved.kind][C] |->
                             Decoded(Field(bytes, saved.kind, C, f))])
  <2>1. k \in Kinds /\ k # "none" /\ k # "INIT_ARRAY" /\ s \in Strings
        /\ Len(s) = Size["Shdr"][c] /\ d \in Strings
    BY <1>2, <1>12 DEF Section
  <2>2. shdr_bytes = s
    <3>1. Value(top("e_shoff")) = size + L
      BY <1>2, <1>9, <1>10
    <3>2. shdr_bytes = Part(file, size + L, Size["Shdr"][c])
      BY <1>5, <1>8, <3>1 DEF ReadAt, Part
    <3> QED
      BY <1>4, <2>1, <3>2
  <2> HIDE DEF shdr_bytes
  <2>3. \A f \in Numbered : table(f) = NumberOf(s, c, e, f)
    BY <1>8, <2>2 DEF NumberOf, Read
  <2> HIDE DEF table
  <2> DEFINE w == Size[k][c]
             all == L \div w
             m == NumIn(k, c, e, d)
  <2>4. /\ table("sh_type") = TypeNumber(k) /\ table("sh_size") = L
        /\ table("sh_entsize") = w /\ table("sh_offset") = size
    BY <1>2, <2>1, <2>3 DEF Numbered, Section, DefaultEntrySize
  <2>5. saved.entries = [n \in 1..m |-> EntryAt(k, c, e, d, n)]
    BY <1>2, <2>1 DEF EntriesIn
  <2>13. \A n : EntryAt(k, c, e, d, n) = EntryIn(Part(d, (n - 1) * w, w), k, c, e)
    BY DEF EntryAt
  <2>6. w \in Nat /\ w > 0 /\ L \in Nat
    BY <1>3, <2>1, KindSize, LenProperties DEF Strings
  <2>7. DOMAIN Place[k][C] = Names(k, c)
    BY <1>3, <1>8, <2>1, Places DEF Structures
  <2>8. table("sh_entsize") = Size[saved.kind][C]
    BY <1>2, <1>8, <2>4
  <2> HIDE DEF w
  <2>9. /\ all \in Nat /\ m \in Nat /\ m <= all
        /\ m < all => /\ k = "DYNAMIC" /\ m > 0
                      /\ EntryAt(k, c, e, d, m).tag = Null
    <3>1. all \in Nat
      BY <2>6, WithinQuotient
    <3>2. all = Len(d) \div Size[k][c]
      BY DEF w
    <3> QED
      BY <3>1, <3>2, NumInIs
  <2>10. Len(saved.entries) = m /\ DOMAIN saved.entries = 1..m
    <3> HIDE DEF m
    <3> QED
      BY <2>5, <2>9
  <2>11. /\ table("sh_size") \div table("sh_entsize") = all
         /\ m < all => saved.entries[m].tag = Null
    <3>1. ASSUME m < all PROVE saved.entries[m].tag = Null
      <4>1. m \in 1..m /\ EntryAt(k, c, e, d, m).tag = Null
        <5> HIDE DEF m, all
        <5> QED
          BY <2>9, <3>1
      <4> HIDE DEF m, all
      <4> QED
        BY <2>5, <4>1
    <3> QED
      BY <2>4, <3>1
  <2>12. ASSUME NEW n \in DOMAIN saved.entries
         PROVE  LET bytes == ReadAt(at(n), table("sh_entsize"))
                IN saved.entries[n] =
                     Unpacked(saved.kind, C,
                       [f \in DOMAIN Place[saved.kind][C] |->
                          Decoded(Field(bytes, saved.kind, C, f))])
    <3> DEFINE q == n - 1
               b == Part(d, q * w, w)
               bytes == ReadAt(at(n), table("sh_entsize"))
    <3>1. n \in 1..m
      BY <2>10
    <3>2. q \in Nat /\ q < all
      <4> HIDE DEF m, all
      <4> QED
        BY <2>9, <3>1
    <3> HIDE DEF q
    <3>3. q * w \in Nat /\ q * w + w <= L
      BY <2>6, <3>2, WithinQuotient
    <3>4. bytes = Part(file, size + q * w, w)
      <4>1. at(n) = size + q * w
        BY <2>4 DEF q
      <4> HIDE DEF at
      <4> QED
        BY <1>5, <2>4, <4>1 DEF ReadAt, Part
    <3>5. Part(file, size + q * w, w) = b
      <4> DEFINE y == q * w
                 z == Size["Shdr"][c]
      <4>1. z \in Nat /\ Len(file) = size + L + z /\ y \in Nat /\ y + w <= L
            /\ Part(file, size, L) = d
        BY <1>3, <1>4, <2>1, <3>3, Places DEF Structures, IsSize
      <4> HIDE DEF y, z, size, L
      <4>2. size + L <= Len(file)
        BY <1>3, <2>6, <4>1
      <4>3. Part(Part(file, size, L), y, w) = Part(file, size + y, w)
        BY <1>3, <1>4, <2>6, <4>1, <4>2, PartOfPart
      <4> QED
        BY <4>1, <4>3 DEF y
    <3> HIDE DEF bytes
    <3>6. saved.entries[n] = EntryIn(b, k, c, e)
      BY <2>5, <2>13, <3>1 DEF q
    <3> HIDE DEF b
    <3>7. EntryIn(b, k, c, e)
            = Unpacked(k, c, [f \in Names(k, c) |-> Decode(e, Field(b, k, c, f))])
      BY DEF EntryIn, Found, Read
    <3>8. saved.entries[n] =
            Unpacked(saved.kind, C,
              [f \in DOMAIN Place[saved.kind][C] |->
                 Decoded(Field(bytes, saved.kind, C, f))])
      BY <1>2, <1>8, <2>7, <3>4, <3>5, <3>6, <3>7
    <3> QED
      BY <3>8 DEF bytes
  <2> HIDE DEF m, all
  <2> QED
    BY <1>2, <2>4, <2>8, <2>9, <2>10, <2>11, <2>12
<1>13. Rest
  BY <1>12 DEF Rest
<1> QED
  BY <1>11, <1>13

(* A saved file means the same to everyone who decodes it by the class and *)
(* the encoding that it states, whatever the host was that wrote it.       *)
THEOREM FilesDecode == Spec => []FileDecodes
BY Invariance, InvDecodes, PTL

=============================================================================
