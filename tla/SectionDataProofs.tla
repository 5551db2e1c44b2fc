------------------------- MODULE SectionDataProofs -------------------------
(***************************************************************************)
(* Proofs about the byte buffer of a section, for files, payloads and      *)
(* words of any size.                                                      *)
(***************************************************************************)
EXTENDS SectionData, SequenceTheorems, NumberFacts, TLAPS

-----------------------------------------------------------------------------
(* Buffers                                                                 *)

LEMMA Piece ==
  ASSUME NEW S, NEW s \in Seq(S), NEW m \in 1..Len(s) + 1,
         NEW n \in m - 1..Len(s)
  PROVE  /\ SubSeq(s, m, n) \in Seq(S)
         /\ Len(SubSeq(s, m, n)) = n - m + 1
         /\ \A i \in 1..n - m + 1 : SubSeq(s, m, n)[i] = s[m + i - 1]
<1>1. m \in Int /\ n \in Int /\ Len(s) \in Nat
  BY LenProperties
<1>2. \A i \in m..n : s[i] \in S
  BY <1>1, ElementOfSeq
<1>3. /\ SubSeq(s, m, n) \in Seq(S)
      /\ Len(SubSeq(s, m, n)) = IF m <= n THEN n - m + 1 ELSE 0
      /\ \A i \in 1..n - m + 1 : SubSeq(s, m, n)[i] = s[m + i - 1]
  BY <1>1, <1>2, SubSeqProperties
<1> QED
  BY <1>1, <1>3

LEMMA Prefix ==
  ASSUME NEW S, NEW s \in Seq(S), NEW n \in 0..Len(s)
  PROVE  /\ SubSeq(s, 1, n) \in Seq(S)
         /\ Len(SubSeq(s, 1, n)) = n
         /\ \A i \in 1..n : SubSeq(s, 1, n)[i] = s[i]
<1> DEFINE m == 1
<1>1. m \in 1..Len(s) + 1 /\ n \in m - 1..Len(s) /\ m = 1
  BY LenProperties
<1> HIDE DEF m
<1>2. /\ SubSeq(s, m, n) \in Seq(S)
      /\ Len(SubSeq(s, m, n)) = n - m + 1
      /\ \A i \in 1..n - m + 1 : SubSeq(s, m, n)[i] = s[m + i - 1]
  BY <1>1, Piece
<1> QED
  BY <1>1, <1>2

LEMMA FileSliceInside ==
  ASSUME NEW off \in Nat, NEW n \in Nat, off + n <= Len(File)
  PROVE  /\ FileSlice(off, n) \in Seq(Byte)
         /\ Len(FileSlice(off, n)) = n
         /\ \A i \in 1..n : FileSlice(off, n)[i] = File[off + i]
<1>1. File \in Seq(Byte) /\ Len(File) \in Nat
  BY SectionDataAssumption, LenProperties
<1>2. off + 1 \in 1..Len(File) + 1 /\ off + n \in off + 1 - 1..Len(File)
  BY <1>1
<1>3. /\ SubSeq(File, off + 1, off + n) \in Seq(Byte)
      /\ Len(SubSeq(File, off + 1, off + n)) = off + n - (off + 1) + 1
      /\ \A i \in 1..off + n - (off + 1) + 1 :
           SubSeq(File, off + 1, off + n)[i] = File[off + 1 + i - 1]
  BY <1>1, <1>2, Piece
<1> QED
  BY <1>3 DEF FileSlice

(* The buffer that load_data() fills: the bytes of the file and one more   *)
LEMMA BufferRead ==
  ASSUME NEW off \in Nat, NEW n \in Nat, off + n <= Len(File),
         NEW d, d = Append(FileSlice(off, n), Junk)
  PROVE  /\ d \in Seq(Cell) /\ Len(d) = n + 1
         /\ SubSeq(d, 1, n) = FileSlice(off, n)
<1> DEFINE s == FileSlice(off, n)
<1>1. s \in Seq(Byte) /\ Len(s) = n
  BY FileSliceInside
<1> HIDE DEF s
<1>2. s \in Seq(Cell)
  BY <1>1, SeqMonotonic DEF Cell
<1>3. Junk \in Cell
  BY DEF Cell
<1>4. /\ d \in Seq(Cell) /\ Len(d) = n + 1
      /\ \A i \in 1..n : d[i] = s[i]
  BY <1>1, <1>2, <1>3, AppendProperties DEF s
<1>5. n \in 0..Len(d)
  BY <1>4
<1>6. /\ SubSeq(d, 1, n) \in Seq(Cell)
      /\ Len(SubSeq(d, 1, n)) = n
      /\ \A i \in 1..n : SubSeq(d, 1, n)[i] = d[i]
  BY <1>4, <1>5, Prefix
<1>7. SubSeq(d, 1, n) = s
  BY <1>1, <1>2, <1>4, <1>6, SeqEqual
<1> QED
  BY <1>4, <1>7 DEF s

-----------------------------------------------------------------------------
(* What load_data() may leave behind: the buffer as it was, the bytes of   *)
(* the file in a new one, or no buffer.  It succeeds only with the bytes.  *)

Kept(r, t, n, live) ==
  /\ r.allocated = allocated /\ r.data = data /\ r.data_size = data_size
  /\ r.fault => ~allocated /\ t \notin Bare /\ n # 0 /\ ~live

Filled(r, t, off, n) ==
  /\ ~allocated /\ t \notin Bare
  /\ r.allocated /\ r.data_size = n /\ ~r.fault
  /\ r.data \in Seq(Cell) /\ Len(r.data) = n + 1
  /\ SubSeq(r.data, 1, n) = FileSlice(off, n)
  /\ n # 0 => off + n <= Len(File)

Dropped(r, t, n) ==
  /\ ~allocated /\ t \notin Bare
  /\ ~r.allocated /\ r.data = <<>> /\ r.data_size = 0 /\ ~r.fault
  /\ r.ok => n = 0

Honest(r, t, n) == r.ok => r.allocated \/ t \in Bare \/ n = 0

Flags(r) == {r.ok, r.allocated, r.is_loaded, r.fault} \subseteq BOOLEAN

LEMMA LoadDataOutcomes ==
  ASSUME TypeOK,
         NEW t \in Types, NEW off \in Nat, NEW n \in Nat, NEW limit \in Nat,
         NEW live \in BOOLEAN, NEW r \in LoadData(t, off, n, limit, live)
  PROVE  /\ Flags(r) /\ Honest(r, t, n)
         /\ Kept(r, t, n, live) \/ Filled(r, t, off, n) \/ Dropped(r, t, n)
<1>1. allocated \in BOOLEAN /\ is_loaded \in BOOLEAN
  BY DEF TypeOK
<1>2. CASE off > limit \/ n > limit - off
  <2>1. r = Outcome(FALSE, allocated, data, data_size, is_loaded, FALSE)
    BY <1>2 DEF LoadData
  <2> QED
    BY <1>1, <2>1 DEF Outcome, Kept, Flags, Honest
<1>3. CASE ~(off > limit \/ n > limit - off) /\ ~allocated /\ t \notin Bare
  <2>1. CASE n = 0
    <3>1. \/ r = Outcome(TRUE, TRUE, <<Junk>>, 0, TRUE, FALSE)
          \/ r = Outcome(TRUE, FALSE, <<>>, 0, TRUE, FALSE)
      BY <1>3, <2>1 DEF LoadData
    <3>2. <<Junk>> \in Seq(Cell) /\ Len(<<Junk>>) = 1
      BY DEF Cell
    <3>3. SubSeq(<<Junk>>, 1, 0) = <<>> /\ FileSlice(off, 0) = <<>>
      BY SubSeqEmpty DEF FileSlice
    <3>4. CASE r = Outcome(TRUE, TRUE, <<Junk>>, 0, TRUE, FALSE)
      <4>1. /\ r.allocated /\ r.data_size = n /\ ~r.fault
            /\ r.data = <<Junk>> /\ Flags(r)
        BY <2>1, <3>4 DEF Outcome, Flags
      <4>2. /\ r.data \in Seq(Cell) /\ Len(r.data) = n + 1
            /\ SubSeq(r.data, 1, n) = FileSlice(off, n)
        <5>1. n + 1 = 1
          BY <2>1
        <5> QED
          BY <2>1, <3>2, <3>3, <4>1, <5>1, Zenon
      <4> QED
        BY <1>3, <2>1, <4>1, <4>2 DEF Filled, Honest
    <3>5. CASE r = Outcome(TRUE, FALSE, <<>>, 0, TRUE, FALSE)
      BY <1>3, <2>1, <3>5 DEF Outcome, Dropped, Flags, Honest
    <3> QED
      BY <3>1, <3>4, <3>5
  <2>2. CASE n # 0
    <3>1. \/ r = ReadStream(off, n, live)
          \/ r = Outcome(FALSE, FALSE, <<>>, 0, is_loaded, FALSE)
      BY <1>3, <2>2 DEF LoadData
    <3>2. CASE r = Outcome(FALSE, FALSE, <<>>, 0, is_loaded, FALSE)
      BY <1>1, <1>3, <3>2 DEF Outcome, Dropped, Flags, Honest
    <3>3. CASE r = ReadStream(off, n, live) /\ ~live
      <4>1. r = Outcome(FALSE, allocated, data, data_size, is_loaded, TRUE)
        BY <3>3 DEF ReadStream
      <4> QED
        BY <1>1, <1>3, <2>2, <3>3, <4>1 DEF Outcome, Kept, Flags, Honest
    <3>4. CASE r = ReadStream(off, n, live) /\ live /\ off + n <= Len(File)
      <4>1. r = Outcome(TRUE, TRUE, Append(FileSlice(off, n), Junk), n,
                        TRUE, FALSE)
        BY <3>4 DEF ReadStream
      <4>2. /\ r.data = Append(FileSlice(off, n), Junk)
            /\ Flags(r) /\ r.allocated /\ r.data_size = n /\ ~r.fault
        BY <4>1 DEF Outcome, Flags
      <4>3. /\ r.data \in Seq(Cell) /\ Len(r.data) = n + 1
            /\ SubSeq(r.data, 1, n) = FileSlice(off, n)
        BY <3>4, <4>2, BufferRead
      <4> QED
        BY <1>3, <3>4, <4>2, <4>3 DEF Filled, Honest
    <3>5. CASE r = ReadStream(off, n, live) /\ live /\ ~(off + n <= Len(File))
      <4>1. r = Outcome(FALSE, FALSE, <<>>, 0, is_loaded, FALSE)
        BY <3>5 DEF ReadStream
      <4> QED
        BY <1>1, <1>3, <2>2, <4>1 DEF Outcome, Dropped, Flags, Honest
    <3> QED
      BY <3>1, <3>2, <3>3, <3>4, <3>5
  <2> QED
    BY <2>1, <2>2
<1>4. CASE ~(off > limit \/ n > limit - off) /\ ~(~allocated /\ t \notin Bare)
  <2>1. r = Outcome(allocated \/ t \in Bare, allocated, data, data_size,
                    allocated \/ t \in Bare, FALSE)
    BY <1>4 DEF LoadData
  <2> QED
    BY <1>1, <2>1 DEF Outcome, Kept, Flags, Honest
<1> QED
  BY <1>2, <1>3, <1>4

LEMMA FetchOutcomes ==
  ASSUME TypeOK,
         NEW t \in Types, NEW off \in Nat, NEW n \in Nat, NEW limit \in Nat,
         NEW live \in BOOLEAN, NEW r \in Fetch(t, off, n, limit, live)
  PROVE  /\ Flags(r)
         /\ Kept(r, t, n, live) \/ Filled(r, t, off, n) \/ Dropped(r, t, n)
<1>1. CASE ~is_loaded /\ can_be_loaded
  BY <1>1, LoadDataOutcomes DEF Fetch
<1>2. CASE ~(~is_loaded /\ can_be_loaded)
  <2>1. r = Outcome(TRUE, allocated, data, data_size, is_loaded, FALSE)
    BY <1>2 DEF Fetch
  <2> QED
    BY <2>1 DEF Outcome, Kept, Flags, TypeOK
<1> QED
  BY <1>1, <1>2

(* What an insertion makes of the buffer: the bytes before the place, the  *)
(* new ones, and those behind it.                                          *)
LEMMA SplicedCells ==
  ASSUME TypeOK, NEW p \in Payload, NEW pos \in 0..sh_size, NEW n \in Nat,
         sh_size <= Len(data)
  PROVE  /\ Spliced(pos, p, n) \in Seq(Cell)
         /\ Len(Spliced(pos, p, n)) = n
         /\ \A i \in 1..n :
              /\ i <= pos => Spliced(pos, p, n)[i] = data[i]
              /\ i > pos /\ i <= pos + Len(p)
                   => Spliced(pos, p, n)[i] = p[i - pos]
              /\ i > pos + Len(p) /\ i <= sh_size + Len(p)
                   => Spliced(pos, p, n)[i] = data[i - Len(p)]
<1> DEFINE d == Spliced(pos, p, n)
<1>1. /\ data \in Seq(Cell) /\ Len(data) \in Nat /\ sh_size \in Nat
      /\ \A i \in 1..Len(data) : data[i] \in Cell
  BY LenProperties, ElementOfSeq DEF TypeOK
<1>2. /\ p \in Seq(Byte) /\ Len(p) \in Nat
      /\ \A i \in 1..Len(p) : p[i] \in Byte
  BY SectionDataAssumption, LenProperties, ElementOfSeq
<1>3. d = [i \in 1..n |-> d[i]]
  BY DEF Spliced
<1>4. ASSUME NEW i \in 1..n
      PROVE  /\ d[i] \in Cell
             /\ i <= pos => d[i] = data[i]
             /\ i > pos /\ i <= pos + Len(p) => d[i] = p[i - pos]
             /\ i > pos + Len(p) /\ i <= sh_size + Len(p)
                  => d[i] = data[i - Len(p)]
  <2>1. d[i] = IF i <= pos THEN data[i]
               ELSE IF i <= pos + Len(p) THEN p[i - pos]
               ELSE IF i <= sh_size + Len(p) THEN data[i - Len(p)]
               ELSE IF n = Len(data) THEN data[i] ELSE Junk
    BY DEF Spliced
  <2> HIDE DEF d
  <2>2. CASE i <= pos
    BY <1>1, <1>2, <2>1, <2>2
  <2>3. CASE i > pos /\ i <= pos + Len(p)
    <3>1. i - pos \in 1..Len(p) /\ d[i] = p[i - pos]
      BY <1>1, <1>2, <2>1, <2>3
    <3> QED
      BY <1>1, <1>2, <2>3, <3>1 DEF Cell
  <2>4. CASE i > pos + Len(p) /\ i <= sh_size + Len(p)
    <3>1. i - Len(p) \in 1..Len(data) /\ d[i] = data[i - Len(p)]
      BY <1>1, <1>2, <2>1, <2>4
    <3> QED
      BY <1>1, <1>2, <2>4, <3>1
  <2>5. CASE i > pos + Len(p) /\ i > sh_size + Len(p)
    <3>1. d[i] = IF n = Len(data) THEN data[i] ELSE Junk
      BY <1>1, <1>2, <2>1, <2>5
    <3> QED
      BY <1>1, <1>2, <2>5, <3>1 DEF Cell
  <2> QED
    BY <1>1, <1>2, <2>2, <2>3, <2>4, <2>5
<1> HIDE DEF d
<1>5. d \in [1..n -> Cell]
  BY <1>3, <1>4, Zenon
<1>6. d \in Seq(Cell) /\ Len(d) = n
  BY <1>5, SeqDef, LenProperties
<1> QED
  BY <1>4, <1>6 DEF d

-----------------------------------------------------------------------------
(* The inductive invariant: where the three sizes stand, how faults come   *)
(* about, and which bytes a loaded section shows.                          *)

NewIsBlank ==
  origin = "new" =>
    /\ sh_size = 0 /\ data_size = 0 /\ image = <<>>
    /\ ~allocated /\ ~fault /\ ~touched /\ Plain

NoBuffer == ~allocated => data = <<>>

SizesOrdered ==
  allocated /\ ~compressed =>
    /\ data_size <= Len(data)
    /\ ~misstated => sh_size <= data_size

PlainEmpty == Plain /\ ~allocated => sh_size = 0 /\ data_size = 0

FaultsExcused ==
  fault => ~Plain /\ (~allocated \/ compressed \/ misstated)

(* What UntouchedShowsFile says, whenever the bytes are there               *)
ShowsFile ==
  origin = "loaded" /\ ~touched /\ ~compressed /\ allocated
    => SubSeq(data, 1, sh_size) = FileSlice(sh_offset, sh_size)

BufferInv ==
  /\ NewIsBlank /\ NoBuffer /\ SizesOrdered /\ PlainEmpty /\ FaultsExcused
  /\ ShowsFile

SectionInv == TypeOK /\ BufferInv

LEMMA SizeFacts ==
  ASSUME TypeOK
  PROVE  /\ sh_size \in Nat /\ data_size \in Nat /\ XMax \in Nat
         /\ sh_offset \in Nat /\ stream_size \in Nat
         /\ size_max \in 0..XMax
         /\ Len(data) \in Nat /\ Len(File) \in Nat /\ Len(File) < XMax
         /\ \A p \in Payload : /\ p \in Seq(Byte) /\ p \in Seq(Cell)
                               /\ Len(p) \in 0..XMax
<1>1. ASSUME NEW p \in Payload
      PROVE  p \in Seq(Byte) /\ p \in Seq(Cell) /\ Len(p) \in 0..XMax
  <2>1. p \in Seq(Byte) /\ Len(p) <= XMax /\ XMax \in Nat
    BY SectionDataAssumption
  <2>2. p \in Seq(Cell) /\ Len(p) \in Nat
    BY <2>1, SeqMonotonic, LenProperties DEF Cell
  <2> QED
    BY <2>1, <2>2
<1>2. Len(data) \in Nat /\ Len(File) \in Nat
  BY SectionDataAssumption, LenProperties DEF TypeOK
<1> QED
  BY <1>1, <1>2, SectionDataAssumption DEF TypeOK

(* What the header's field makes of a size                                 *)
LEMMA NarrowedSize ==
  ASSUME TypeOK, NEW n \in Nat
  PROVE  /\ Narrow(n) \in 0..size_max /\ Narrow(n) \in 0..XMax
         /\ n <= size_max => Narrow(n) = n
<1> DEFINE a == size_max + 1
<1>1. size_max \in 0..XMax /\ XMax \in Nat
  BY SizeFacts
<1>2. a \in Nat /\ a > 0 /\ a - 1 = size_max
  BY <1>1
<1> HIDE DEF a
<1>3. n % a \in 0..a - 1
  BY <1>2, Division
<1>4. ASSUME n <= size_max
      PROVE  n % a = n
  <2>1. n \in 0..a - 1 /\ 0 \in Int /\ n = a * 0 + n
    BY <1>2, <1>4
  <2> QED
    BY <1>2, <2>1, DivisionUnique
<1>5. Narrow(n) = n % a
  BY DEF Narrow, a
<1> QED
  BY <1>1, <1>2, <1>3, <1>4, <1>5

LEMMA SectionInitially == Init => SectionInv
<1> SUFFICES ASSUME Init PROVE SectionInv
  OBVIOUS
<1>1. data \in Seq(Cell) /\ image \in Seq(Cell)
  BY EmptySeq, Zenon DEF Init
<1>2. /\ origin = "new" /\ type = "NULL" /\ size_max \in SizeLimits
      /\ sh_offset = 0 /\ sh_size = 0 /\ data_size = 0 /\ stream_size = 0
      /\ {allocated, is_lazy, is_loaded, can_be_loaded, compressed,
          stream_live, fault, intact, touched, misstated} \subseteq BOOLEAN
  BY DEF Init
<1>3. size_max \in Nat /\ XMax \in Nat
  BY <1>2, SectionDataAssumption
<1>5. TypeOK
  BY <1>1, <1>2, <1>3 DEF TypeOK, Types
<1>4. BufferInv
  BY DEF Init, BufferInv, NewIsBlank, NoBuffer, SizesOrdered,
         PlainEmpty, FaultsExcused, ShowsFile, Plain
<1> QED
  BY <1>4, <1>5 DEF SectionInv

LEMMA CreateKeeps ==
  ASSUME SectionInv, NEW c \in BOOLEAN, Create(c)
  PROVE  SectionInv'
<1>1. TypeOK'
  BY DEF SectionInv, TypeOK, Create, bufferVars, loadVars
<1>2. BufferInv'
  BY DEF SectionInv, BufferInv, NewIsBlank, NoBuffer,
         SizesOrdered, PlainEmpty, FaultsExcused, ShowsFile, Plain, Create,
         bufferVars, loadVars
<1> QED
  BY <1>1, <1>2 DEF SectionInv

LEMMA DropStreamKeeps ==
  ASSUME SectionInv, DropStream
  PROVE  SectionInv'
<1>1. TypeOK'
  BY EmptySeq DEF SectionInv, TypeOK, DropStream, bufferVars, loadVars,
                  fixedVars
<1>2. BufferInv'
  BY DEF SectionInv, BufferInv, NewIsBlank, NoBuffer, SizesOrdered, PlainEmpty, FaultsExcused, ShowsFile, Plain,
         DropStream, bufferVars, fixedVars
<1> QED
  BY <1>1, <1>2 DEF SectionInv

LEMMA FreeDataKeeps ==
  ASSUME SectionInv, FreeData
  PROVE  SectionInv'
<1>1. TypeOK'
  <2>1. data' \in Seq(Cell) /\ image' \in Seq(Cell)
    BY EmptySeq DEF FreeData
  <2> QED
    BY <2>1 DEF SectionInv, TypeOK, FreeData, fixedVars
<1>2. BufferInv'
  BY DEF SectionInv, BufferInv, NewIsBlank, NoBuffer, SizesOrdered, PlainEmpty, FaultsExcused, ShowsFile, Plain, FreeData,
         fixedVars, Alive
<1> QED
  BY <1>1, <1>2 DEF SectionInv

LEMMA SetDataKeeps ==
  ASSUME SectionInv, NEW p \in Payload, SetData(p)
  PROVE  SectionInv'
<1>1. /\ TypeOK /\ origin # "new" /\ ~fault /\ type # "NOBITS"
      /\ UNCHANGED <<loadVars, fixedVars, type, sh_offset, stream_live, fault>>
      /\ image' = <<>> /\ touched' = TRUE /\ sh_size' = Narrow(data_size')
      /\ misstated' = (data_size' > size_max)
      /\ stream_size' = data_size'
  BY DEF SectionInv, SetData, Alive
<1>2. /\ p \in Seq(Cell) /\ Len(p) \in 0..XMax /\ XMax \in Nat
      /\ <<>> \in Seq(Cell) /\ Len(<<>>) = 0 /\ size_max \in 0..XMax
  BY <1>1, SizeFacts, EmptySeq
<1>3. /\ data' \in Seq(Cell) /\ allocated' \in BOOLEAN
      /\ data_size' \in 0..XMax /\ data_size' <= Len(data')
      /\ ~allocated' => data' = <<>> /\ data_size' = 0
  <2>1. CASE allocated' = TRUE /\ data' = p /\ data_size' = Len(p)
    BY <1>2, <2>1
  <2>2. CASE allocated' = FALSE /\ data' = <<>> /\ data_size' = 0
    <3>1. 0 \in 0..XMax /\ 0 <= 0
      BY <1>2
    <3>2. Len(data') = 0 /\ data' \in Seq(Cell)
      BY <1>2, <2>2, Zenon
    <3> QED
      BY <2>2, <3>1, <3>2, Zenon
  <2>3. CASE /\ allocated' = TRUE /\ data_size' = 0
             /\ data' = [i \in 1..Len(p) |-> Junk]
    <3>1. data' \in [1..Len(p) -> Cell] /\ Len(p) \in Nat
      BY <1>2, <2>3 DEF Cell
    <3>2. data' \in Seq(Cell) /\ Len(data') = Len(p)
      BY <3>1, SeqDef, LenProperties
    <3> QED
      BY <1>2, <2>3, <3>2
  <2> QED
    BY <2>1, <2>2, <2>3 DEF SetData
<1>4. /\ sh_size' \in 0..size_max
      /\ ~misstated' => sh_size' = data_size'
  <2>1. data_size' \in Nat
    BY <1>2, <1>3
  <2>2. /\ Narrow(data_size') \in 0..size_max
        /\ data_size' <= size_max => Narrow(data_size') = data_size'
    BY <1>1, <2>1, NarrowedSize
  <2>3. data_size' > size_max => misstated'
    BY <1>1
  <2>4. size_max \in Nat
    BY <1>2
  <2> QED
    BY <1>1, <2>1, <2>2, <2>3, <2>4
<1>5. TypeOK'
  BY <1>1, <1>2, <1>3, <1>4 DEF TypeOK, loadVars, fixedVars
<1>6. BufferInv'
  BY <1>1, <1>2, <1>3, <1>4
  DEF SectionInv, BufferInv, NewIsBlank, NoBuffer, SizesOrdered,
      PlainEmpty, FaultsExcused, ShowsFile, Plain, fixedVars, TypeOK
<1> QED
  BY <1>5, <1>6 DEF SectionInv

(* set_size(), by a client or by set_data() of a NOBITS section            *)
Resized(n) ==
  /\ origin # "new" /\ ~fault
  /\ n \in Nat
  /\ sh_size' = Narrow(n)
  /\ misstated' \in BOOLEAN
  /\ misstated \/ n > data_size \/ n > size_max => misstated'
  /\ stream_size' \in 0..XMax
  /\ touched' = TRUE
  /\ image' = <<>>
  /\ UNCHANGED <<bufferVars, loadVars, fixedVars, type, sh_offset,
                 stream_live, fault>>

LEMMA ResizedKeeps ==
  ASSUME SectionInv, NEW n, Resized(n)
  PROVE  SectionInv'
<1>1. /\ TypeOK /\ BufferInv /\ n \in Nat /\ origin # "new" /\ ~fault
      /\ size_max \in Nat /\ data_size \in Nat
      /\ sh_size' = Narrow(n) /\ touched' = TRUE /\ misstated' \in BOOLEAN
      /\ UNCHANGED <<allocated, data, data_size, origin, size_max, is_lazy,
                     compressed, intact, fault>>
      /\ misstated \/ n > data_size \/ n > size_max => misstated'
  BY SizeFacts DEF SectionInv, Resized, bufferVars, fixedVars
<1>2. /\ Narrow(n) \in 0..size_max
      /\ n <= size_max => Narrow(n) = n
  BY <1>1, NarrowedSize
<1>3. ~misstated' => ~misstated /\ sh_size' = n /\ n <= data_size
  BY <1>1, <1>2
<1>4. TypeOK'
  BY <1>1, <1>2, EmptySeq
  DEF TypeOK, Resized, bufferVars, loadVars, fixedVars
<1>5. BufferInv'
  BY <1>1, <1>3
  DEF BufferInv, NewIsBlank, NoBuffer, SizesOrdered, PlainEmpty,
      FaultsExcused, ShowsFile, Plain
<1> QED
  BY <1>4, <1>5 DEF SectionInv

LEMMA NobitsResized ==
  ASSUME SectionInv, SetDataNobits
  PROVE  Resized(data_size)
<1>1. data_size \in 0..XMax /\ XMax \in Nat /\ misstated \in BOOLEAN
  BY SizeFacts DEF SectionInv, TypeOK
<1>2. /\ misstated' = (misstated \/ data_size > size_max)
      /\ ~(data_size > data_size) /\ data_size \in Nat
  BY <1>1 DEF SetDataNobits
<1>3. misstated' \in BOOLEAN
  BY <1>2
<1>4. misstated \/ data_size > data_size \/ data_size > size_max
        => misstated'
  BY <1>1, <1>2
<1> QED
  BY <1>1, <1>2, <1>3, <1>4 DEF Resized, SetDataNobits, Alive

LEMMA SetDataNobitsKeeps ==
  ASSUME SectionInv, SetDataNobits
  PROVE  SectionInv'
BY NobitsResized, ResizedKeeps

LEMMA SetSizeKeeps ==
  ASSUME SectionInv, NEW n \in Sizes, SetSize(n)
  PROVE  SectionInv'
<1>1. n \in Nat /\ stream_size \in 0..XMax /\ misstated \in BOOLEAN
  BY SectionDataAssumption DEF SectionInv, TypeOK
<1>2. Resized(n)
  BY <1>1 DEF Resized, SetSize, Alive
<1> QED
  BY <1>2, ResizedKeeps

LEMMA SetTypeKeeps ==
  ASSUME SectionInv, NEW t \in Types, SetType(t)
  PROVE  SectionInv'
<1>1. TypeOK'
  BY EmptySeq DEF SectionInv, TypeOK, SetType, bufferVars, loadVars, fixedVars
<1>2. BufferInv'
  BY DEF SectionInv, BufferInv, NewIsBlank, NoBuffer, SizesOrdered,
         PlainEmpty, FaultsExcused, ShowsFile, Plain, SetType, bufferVars,
         fixedVars, Alive
<1> QED
  BY <1>1, <1>2 DEF SectionInv

-----------------------------------------------------------------------------
(* The actions that load_data() is part of                                 *)

LEMMA LoadKeeps ==
  ASSUME SectionInv, NEW t \in Types, NEW off \in 0..Len(File) + 1,
         NEW n \in 0..Len(File) + 1, NEW lazy \in BOOLEAN, NEW c \in BOOLEAN,
         Load(t, off, n, lazy, c)
  PROVE  SectionInv'
<1>1. /\ TypeOK /\ ~allocated /\ data = <<>> /\ data_size = 0 /\ ~fault
      /\ ~touched /\ data \in Seq(Cell) /\ <<>> \in Seq(Cell)
      /\ off \in Nat /\ n \in Nat /\ Len(File) \in Nat
      /\ Len(File) \in 0..XMax /\ n \in 0..size_max /\ n \in 0..XMax /\ size_max \in 0..XMax
      /\ is_loaded \in BOOLEAN /\ can_be_loaded \in BOOLEAN
      /\ XMax \in Nat
  BY SizeFacts, EmptySeq
  DEF Load, SectionInv, BufferInv, NewIsBlank, NoBuffer, TypeOK
<1>2. /\ origin' = "loaded" /\ type' = t /\ compressed' = c /\ is_lazy' = lazy
      /\ sh_offset' = off /\ stream_size' = Len(File) /\ stream_live' = TRUE
      /\ misstated' = (t \in Bare /\ n # 0)
      /\ image' = <<>> /\ UNCHANGED <<size_max, touched>>
  BY DEF Load
<1>3. CASE lazy
  <2>1. /\ sh_size' = n /\ intact' \in BOOLEAN
        /\ UNCHANGED <<bufferVars, loadVars, fault>>
    BY <1>3 DEF Load
  <2>2. TypeOK'
    BY <1>1, <1>2, <2>1 DEF TypeOK, bufferVars, loadVars
  <2>3. BufferInv'
    BY <1>1, <1>2, <1>3, <2>1
    DEF BufferInv, NewIsBlank, NoBuffer, SizesOrdered,
        PlainEmpty, FaultsExcused, ShowsFile, Plain, bufferVars
  <2> QED
    BY <2>2, <2>3 DEF SectionInv
<1>4. CASE ~lazy
  <2>1. PICK r \in LoadData(t, off, n, Len(File), TRUE) :
          intact' = (t \in Bare \/ r.ok) /\ Inflate(r, n)
    BY <1>4 DEF Load
  <2>2. /\ Flags(r) /\ Honest(r, t, n)
        /\ Kept(r, t, n, TRUE) \/ Filled(r, t, off, n) \/ Dropped(r, t, n)
    BY <1>1, LoadDataOutcomes
  <2>3. /\ r.data \in Seq(Cell) /\ r.data_size \in 0..XMax /\ ~r.fault
        /\ ~r.allocated => r.data = <<>> /\ r.data_size = 0
        /\ r.allocated => /\ t \notin Bare /\ r.data_size = n
                          /\ r.data_size <= Len(r.data)
                          /\ SubSeq(r.data, 1, n) = FileSlice(off, n)
    <3>1. CASE Kept(r, t, n, TRUE)
      BY <1>1, <3>1 DEF Kept
    <3>2. CASE Filled(r, t, off, n)
      BY <1>1, <3>2 DEF Filled
    <3>3. CASE Dropped(r, t, n)
      <4>1. r.data = data
        BY <1>1, <3>3 DEF Dropped
      <4> QED
        BY <1>1, <3>3, <4>1 DEF Dropped
    <3> QED
      BY <2>2, <3>1, <3>2, <3>3
  <2>4. CASE /\ c /\ r.allocated
             /\ \E p \in Payload :
                  sh_size' = Narrow(Len(p)) /\ Apply([r EXCEPT !.data = p])
    <3>1. PICK p \in Payload :
            sh_size' = Narrow(Len(p)) /\ Apply([r EXCEPT !.data = p])
      BY <2>4
    <3>2. p \in Seq(Cell) /\ Len(p) \in 0..XMax
      BY <1>1, SizeFacts
    <3>3. r = Outcome(r.ok, r.allocated, r.data, r.data_size, r.is_loaded,
                      r.fault)
      BY DEF LoadData, ReadStream, Outcome
    <3>4. /\ allocated' = r.allocated /\ data' = p
          /\ data_size' = r.data_size /\ is_loaded' = r.is_loaded
          /\ can_be_loaded' = (can_be_loaded /\ r.ok) /\ fault' = r.fault
      BY <3>1, <3>3 DEF Apply, Outcome
    <3>5. Len(p) \in Nat
      BY <1>1, <3>2
    <3>6. sh_size' \in 0..size_max
      BY <1>1, <3>1, <3>5, NarrowedSize
    <3>7. TypeOK'
      BY <1>1, <1>2, <2>1, <2>2, <2>3, <3>2, <3>4, <3>6 DEF TypeOK, Flags
    <3>8. BufferInv'
      BY <1>1, <1>2, <2>3, <2>4, <3>4
      DEF BufferInv, NewIsBlank, NoBuffer, SizesOrdered,
          PlainEmpty, FaultsExcused, ShowsFile, Plain
    <3> QED
      BY <3>7, <3>8 DEF SectionInv
  <2>5. CASE sh_size' = n /\ Apply(r)
    <3>1. /\ sh_size' = n /\ allocated' = r.allocated /\ data' = r.data
          /\ data_size' = r.data_size /\ is_loaded' = r.is_loaded
          /\ can_be_loaded' = (can_be_loaded /\ r.ok) /\ fault' = r.fault
      BY <2>5 DEF Apply
    <3>2. TypeOK'
      BY <1>1, <1>2, <2>1, <2>2, <2>3, <3>1 DEF TypeOK, Flags
    <3>3. BufferInv'
      BY <1>1, <1>2, <2>1, <2>2, <2>3, <3>1
      DEF BufferInv, NewIsBlank, NoBuffer, SizesOrdered,
          PlainEmpty, FaultsExcused, ShowsFile, Plain, Honest
    <3> QED
      BY <3>2, <3>3 DEF SectionInv
  <2> QED
    BY <1>2, <2>1, <2>4, <2>5 DEF Inflate
<1> QED
  BY <1>3, <1>4

(* Whatever get_data() and save() fetch, the buffer stays in order.        *)
LEMMA FetchKeeps ==
  ASSUME SectionInv, ~fault, NEW off \in Nat,
         NEW r \in Fetch(type, off, sh_size, stream_size, stream_live),
         off = sh_offset \/ allocated
  PROVE  /\ Flags(r) /\ r.data \in Seq(Cell) /\ r.data_size \in 0..XMax
         /\ ~r.allocated => r.data = <<>>
         /\ r.allocated /\ ~compressed
              => /\ r.data_size <= Len(r.data)
                 /\ ~misstated => sh_size <= r.data_size
         /\ ~r.allocated /\ Plain => sh_size = 0 /\ r.data_size = 0
         /\ r.fault => ~Plain /\ ~allocated /\ ~r.allocated
         /\ allocated => r.allocated /\ r.data = data
         /\ r.allocated /\ ~allocated
              => SubSeq(r.data, 1, sh_size) = FileSlice(sh_offset, sh_size)
<1>1. /\ TypeOK /\ BufferInv /\ type \in Types /\ stream_live \in BOOLEAN
      /\ sh_size \in 0..XMax /\ data_size \in 0..XMax
      /\ allocated \in BOOLEAN /\ data \in Seq(Cell)
      /\ sh_size \in Nat /\ stream_size \in Nat /\ XMax \in Nat
  BY SizeFacts DEF SectionInv, TypeOK
<1>2. /\ Flags(r)
      /\ \/ Kept(r, type, sh_size, stream_live)
         \/ Filled(r, type, off, sh_size)
         \/ Dropped(r, type, sh_size)
  BY <1>1, FetchOutcomes
<1>3. CASE Kept(r, type, sh_size, stream_live)
  BY <1>1, <1>2, <1>3
  DEF Kept, BufferInv, NoBuffer, SizesOrdered, PlainEmpty
<1>4. CASE Filled(r, type, off, sh_size)
  BY <1>1, <1>2, <1>4 DEF Filled
<1>5. CASE Dropped(r, type, sh_size)
  <2>1. r.data \in Seq(Cell)
    BY <1>5, EmptySeq, Zenon DEF Dropped
  <2>2. Plain => sh_size = 0
    BY <1>1, <1>5 DEF Dropped, BufferInv, PlainEmpty
  <2> QED
    BY <1>1, <1>2, <1>5, <2>1, <2>2 DEF Dropped
<1> QED
  BY <1>2, <1>3, <1>4, <1>5

LEMMA GetDataKeeps ==
  ASSUME SectionInv, GetData
  PROVE  SectionInv'
<1>1. /\ TypeOK /\ BufferInv /\ origin # "new" /\ ~fault
      /\ sh_offset \in Nat /\ can_be_loaded \in BOOLEAN
      /\ image' = <<>> /\ image' \in Seq(Cell)
      /\ UNCHANGED <<fixedVars, type, sh_offset, sh_size, stream_size,
                     stream_live, touched, misstated>>
  BY EmptySeq DEF SectionInv, GetData, Alive, TypeOK
<1>2. PICK r \in Fetch(type, sh_offset, sh_size, stream_size, stream_live) :
        Apply(r)
  BY DEF GetData
<1>3. /\ allocated' = r.allocated /\ data' = r.data
      /\ data_size' = r.data_size /\ is_loaded' = r.is_loaded
      /\ can_be_loaded' = (can_be_loaded /\ r.ok) /\ fault' = r.fault
  BY <1>2 DEF Apply
<1>4. /\ Flags(r) /\ r.data \in Seq(Cell) /\ r.data_size \in 0..XMax
      /\ ~r.allocated => r.data = <<>>
      /\ r.allocated /\ ~compressed
           => /\ r.data_size <= Len(r.data)
              /\ ~misstated => sh_size <= r.data_size
      /\ ~r.allocated /\ Plain => sh_size = 0 /\ r.data_size = 0
      /\ r.fault => ~Plain /\ ~allocated /\ ~r.allocated
      /\ allocated => r.allocated /\ r.data = data
      /\ r.allocated /\ ~allocated
           => SubSeq(r.data, 1, sh_size) = FileSlice(sh_offset, sh_size)
  BY <1>1, FetchKeeps
<1>5. TypeOK'
  BY <1>1, <1>3, <1>4 DEF TypeOK, fixedVars, Flags
<1>6. BufferInv'
  BY <1>1, <1>3, <1>4
  DEF BufferInv, NewIsBlank, NoBuffer, SizesOrdered, PlainEmpty,
      FaultsExcused, ShowsFile, Plain, fixedVars
<1> QED
  BY <1>5, <1>6 DEF SectionInv

(* The section writes what it holds, and fetches nothing new.              *)
LEMMA SavedPlain ==
  ASSUME SectionInv, ~fault, NEW off \in Nat, SavePlain(off)
  PROVE  /\ ~compressed
         /\ Writes =>
              /\ allocated' /\ data' = data
              /\ data_size' \in 0..XMax /\ data_size' <= Len(data)
              /\ image' = IF sh_size <= Len(data)
                            THEN SubSeq(data, 1, sh_size) ELSE <<>>
              /\ ~misstated => sh_size <= data_size' /\ ~fault'
         /\ ~Writes => image' = <<>> /\ UNCHANGED <<bufferVars, fault>>
         /\ {fault', is_loaded', can_be_loaded'} \subseteq BOOLEAN
<1>1. ~compressed /\ TypeOK
  BY DEF SavePlain, SectionInv
<1>2. CASE Writes
  <2>1. PICK r \in Fetch(type, off, sh_size, stream_size, stream_live) :
          /\ Apply([r EXCEPT !.fault = r.fault \/ sh_size > Len(r.data)])
          /\ image' = IF sh_size <= Len(r.data)
                        THEN SubSeq(r.data, 1, sh_size) ELSE <<>>
    BY <1>2 DEF SavePlain
  <2>2. allocated
    BY <1>2 DEF Writes
  <2>3. /\ Flags(r) /\ r.data_size \in 0..XMax
        /\ r.allocated /\ r.data = data
        /\ r.data_size <= Len(r.data)
        /\ ~misstated => sh_size <= r.data_size
        /\ ~r.fault
    BY <1>1, <2>2, FetchKeeps DEF Plain
  <2>4. r \in [ok : BOOLEAN, allocated : BOOLEAN, data : {data},
               data_size : 0..XMax, is_loaded : BOOLEAN, fault : BOOLEAN]
    <3>1. r = Outcome(r.ok, r.allocated, r.data, r.data_size, r.is_loaded,
                      r.fault)
      BY DEF Fetch, LoadData, ReadStream, Outcome
    <3> QED
      BY <2>3, <3>1 DEF Outcome, Flags
  <2>5. /\ allocated' = r.allocated /\ data' = r.data
        /\ data_size' = r.data_size /\ is_loaded' = r.is_loaded
        /\ can_be_loaded' = (can_be_loaded /\ r.ok)
        /\ fault' = (r.fault \/ sh_size > Len(r.data))
    BY <2>1, <2>4 DEF Apply
  <2>6. ~misstated => ~(sh_size > Len(r.data))
    BY <1>1, <2>3, SizeFacts
  <2> QED
    BY <1>1, <1>2, <2>1, <2>3, <2>5, <2>6 DEF Flags, TypeOK
<1>3. CASE ~Writes
  BY <1>1, <1>3 DEF SavePlain, TypeOK, loadVars
<1> QED
  BY <1>1, <1>2, <1>3

LEMMA SaveKeeps ==
  ASSUME SectionInv, NEW off \in Offsets, Save(off)
  PROVE  SectionInv'
<1>1. /\ TypeOK /\ BufferInv /\ origin # "new" /\ ~fault
      /\ off \in Nat /\ sh_offset' = off /\ touched' = TRUE
      /\ UNCHANGED <<fixedVars, type, sh_size, stream_size, stream_live,
                     misstated>>
  BY SectionDataAssumption DEF SectionInv, Save, Alive
<1>2. CASE SavePlain(off)
  <2>1. /\ ~compressed
        /\ Writes =>
             /\ allocated' /\ data' = data
             /\ data_size' \in 0..XMax /\ data_size' <= Len(data)
             /\ image' = IF sh_size <= Len(data)
                           THEN SubSeq(data, 1, sh_size) ELSE <<>>
             /\ ~misstated => sh_size <= data_size' /\ ~fault'
        /\ ~Writes => image' = <<>> /\ UNCHANGED <<bufferVars, fault>>
        /\ {fault', is_loaded', can_be_loaded'} \subseteq BOOLEAN
    BY <1>1, <1>2, SavedPlain
  <2>2. image' \in Seq(Cell)
    <3>1. CASE Writes /\ sh_size <= Len(data)
      <4>1. data \in Seq(Cell) /\ sh_size \in 0..Len(data)
        BY <1>1, <3>1, SizeFacts DEF TypeOK
      <4> QED
        BY <2>1, <3>1, <4>1, Prefix
    <3>2. CASE ~(Writes /\ sh_size <= Len(data))
      BY <2>1, <3>2, EmptySeq, Zenon
    <3> QED
      BY <3>1, <3>2
  <2>3. CASE Writes
    <3>1. allocated /\ allocated' /\ data' = data
      BY <2>1, <2>3 DEF Writes
    <3>2. TypeOK'
      BY <1>1, <2>1, <2>2, <2>3, <3>1 DEF TypeOK, fixedVars
    <3>3. BufferInv'
      BY <1>1, <2>1, <2>3, <3>1
      DEF BufferInv, NewIsBlank, NoBuffer, SizesOrdered,
          PlainEmpty, FaultsExcused, ShowsFile, Plain, fixedVars
    <3> QED
      BY <3>2, <3>3 DEF SectionInv
  <2>4. CASE ~Writes
    <3>1. TypeOK'
      BY <1>1, <2>1, <2>2, <2>4 DEF TypeOK, fixedVars, bufferVars
    <3>2. BufferInv'
      BY <1>1, <2>1, <2>4
      DEF BufferInv, NewIsBlank, NoBuffer, SizesOrdered,
          PlainEmpty, FaultsExcused, ShowsFile, Plain, fixedVars, bufferVars
    <3> QED
      BY <3>1, <3>2 DEF SectionInv
  <2> QED
    BY <2>3, <2>4
<1>3. CASE SaveCompressed
  <2>1. compressed /\ UNCHANGED <<bufferVars, loadVars, fault>>
    BY <1>3 DEF SaveCompressed
  <2>2. image' \in Seq(Cell)
    <3>1. CASE Writes
      <4>1. image' \in Payload
        BY <1>3, <3>1 DEF SaveCompressed
      <4> QED
        BY <1>1, <4>1, SizeFacts
    <3>2. CASE ~Writes
      <4>1. image' = <<>>
        BY <1>3, <3>2 DEF SaveCompressed
      <4> QED
        BY <4>1, EmptySeq, Zenon
    <3> QED
      BY <3>1, <3>2
  <2>3. TypeOK'
    BY <1>1, <2>1, <2>2 DEF TypeOK, fixedVars, bufferVars, loadVars
  <2>4. BufferInv'
    BY <1>1, <2>1
    DEF BufferInv, NewIsBlank, NoBuffer, SizesOrdered,
        PlainEmpty, FaultsExcused, ShowsFile, Plain, fixedVars, bufferVars
  <2> QED
    BY <2>3, <2>4 DEF SectionInv
<1> QED
  BY <1>2, <1>3 DEF Save

-----------------------------------------------------------------------------
(* insert_data().  An insertion that crashes does so without a buffer, with *)
(* one that a codec has replaced, or behind a misstated size.              *)

Inserted(pos, p) ==
  /\ data' = Spliced(pos, p, Len(data')) /\ sh_size <= Len(data)
  /\ data' \in Seq(Cell) /\ allocated' \in BOOLEAN
  /\ allocated' \/ (~allocated /\ sh_size' = 0 /\ data' = <<>>
                     /\ data_size' = data_size)
  /\ data_size' \in 0..XMax
  /\ sh_size' <= Len(data')
  /\ ~compressed /\ allocated'
       => sh_size' <= data_size' /\ data_size' <= Len(data')
  /\ sh_size' \in 0..size_max /\ stream_size' \in 0..XMax
  /\ misstated' = (misstated \/ sh_size + Len(p) > size_max)
  /\ ~misstated' => sh_size' = sh_size + Len(p)
  /\ fault' = fault

LEMMA Grown ==
  ASSUME TypeOK, NEW p \in Payload, Grow(p)
  PROVE  /\ sh_size' \in 0..size_max /\ sh_size' <= sh_size + Len(p)
         /\ stream_size' \in 0..XMax
         /\ misstated' = (misstated \/ sh_size + Len(p) > size_max)
         /\ ~misstated' => sh_size' = sh_size + Len(p)
<1> DEFINE n == sh_size + Len(p)
           m == stream_size + Len(p)
           a == XMax + 1
<1>1. /\ sh_size \in Nat /\ stream_size \in Nat /\ Len(p) \in Nat
      /\ size_max \in 0..XMax /\ XMax \in Nat /\ misstated \in BOOLEAN
  BY SizeFacts DEF TypeOK
<1>2. n \in Nat /\ m \in Nat /\ a \in Nat /\ a > 0 /\ a - 1 = XMax
  BY <1>1
<1> HIDE DEF n, m, a
<1>3. /\ Narrow(n) \in 0..size_max
      /\ n <= size_max => Narrow(n) = n
  BY <1>2, NarrowedSize
<1>4. m % a \in 0..a - 1
  BY <1>2, Division
<1>5. /\ sh_size' = Narrow(n) /\ stream_size' = m % a
      /\ misstated' = (misstated \/ n > size_max)
  BY DEF Grow, n, m, a
<1>6. ~misstated' => n <= size_max
  <2>1. n > size_max => misstated'
    BY <1>5
  <2>2. size_max \in Nat /\ n \in Nat
    BY <1>1, <1>2
  <2> QED
    BY <2>1, <2>2
<1>7. sh_size' <= n
  BY <1>1, <1>2, <1>3, <1>5
<1> QED
  BY <1>2, <1>3, <1>4, <1>5, <1>6, <1>7 DEF n

LEMMA ShiftInserts ==
  ASSUME SectionInv, NEW pos \in 0..sh_size, NEW p \in Payload,
         Shift(pos, p), Reaches(sh_size + Len(p))
  PROVE  Inserted(pos, p)
<1>1. /\ TypeOK /\ sh_size \in Nat /\ data_size \in 0..XMax /\ XMax \in Nat
      /\ Len(data) \in Nat /\ Len(p) \in Nat /\ allocated \in BOOLEAN
      /\ size_max \in 0..XMax
  BY SizeFacts DEF SectionInv, TypeOK
<1>2. /\ data' = Spliced(pos, p, Len(data)) /\ Grow(p)
      /\ sh_size + Len(p) <= data_size
      /\ UNCHANGED <<allocated, data_size, fault>>
  BY DEF Shift
<1>3. sh_size + Len(p) <= Len(data)
  BY <1>1 DEF Reaches
<1>4. data' \in Seq(Cell) /\ Len(data') = Len(data) /\ sh_size <= Len(data)
  <2>1. sh_size <= Len(data)
    BY <1>1, <1>3
  <2> QED
    BY <1>1, <1>2, <2>1, SplicedCells
<1>5. /\ sh_size' \in 0..size_max /\ sh_size' <= sh_size + Len(p)
      /\ stream_size' \in 0..XMax
      /\ misstated' = (misstated \/ sh_size + Len(p) > size_max)
      /\ ~misstated' => sh_size' = sh_size + Len(p)
  BY <1>1, <1>2, Grown
<1>6. ~allocated => sh_size' = 0 /\ data' = <<>>
  <2>1. ASSUME ~allocated
        PROVE  sh_size + Len(p) = 0 /\ data = <<>>
    BY <2>1 DEF Reaches, SectionInv, BufferInv, NoBuffer
  <2>2. ASSUME ~allocated
        PROVE  Len(data') = 0
    BY <1>4, <2>1, <2>2, EmptySeq, Zenon
  <2>3. ASSUME ~allocated
        PROVE  sh_size' = 0
    BY <1>1, <1>5, <2>1, <2>3
  <2> QED
    BY <1>4, <2>2, <2>3, EmptySeq
<1>7. ~compressed /\ allocated => data_size <= Len(data)
  BY DEF SectionInv, BufferInv, SizesOrdered
<1>8. /\ sh_size' <= Len(data') /\ sh_size' <= data_size'
  BY <1>1, <1>2, <1>3, <1>4, <1>5
<1> QED
  BY <1>1, <1>2, <1>4, <1>5, <1>6, <1>7, <1>8 DEF Inserted

LEMMA ReallocateInserts ==
  ASSUME SectionInv, NEW pos \in 0..sh_size, NEW p \in Payload,
         Reallocate(pos, p), Reaches(sh_size), sh_size + Len(p) <= NewCapacity(p)
  PROVE  Inserted(pos, p)
<1>1. /\ TypeOK /\ sh_size \in Nat /\ data_size \in Nat /\ XMax \in Nat
      /\ Len(data) \in Nat /\ Len(p) \in Nat /\ size_max \in 0..XMax
  BY SizeFacts DEF SectionInv
<1>2. /\ data' = Spliced(pos, p, NewCapacity(p))
      /\ allocated' = TRUE /\ data_size' = NewCapacity(p)
      /\ Grow(p)
      /\ UNCHANGED fault /\ Len(p) <= XMax - 2 * data_size
  BY DEF Reallocate
<1>3. NewCapacity(p) \in 0..XMax
  BY <1>1, <1>2 DEF NewCapacity
<1>4. sh_size <= Len(data)
  BY <1>1 DEF Reaches
<1>5. data' \in Seq(Cell) /\ Len(data') = NewCapacity(p)
  BY <1>1, <1>2, <1>3, <1>4, SplicedCells
<1>6. /\ sh_size' \in 0..size_max /\ sh_size' <= sh_size + Len(p)
      /\ stream_size' \in 0..XMax
      /\ misstated' = (misstated \/ sh_size + Len(p) > size_max)
      /\ ~misstated' => sh_size' = sh_size + Len(p)
  BY <1>1, <1>2, Grown
<1>7. sh_size' <= NewCapacity(p)
  BY <1>1, <1>3, <1>6
<1> QED
  BY <1>1, <1>2, <1>3, <1>4, <1>5, <1>6, <1>7 DEF Inserted

LEMMA InsertCases ==
  ASSUME SectionInv, NEW pos \in 0..XMax, NEW p \in Payload,
         InsertData(pos, p)
  PROVE  /\ pos \in 0..sh_size /\ sh_size + Len(p) <= XMax
         /\ \/ Inserted(pos, p)
            \/ Crash /\ ~Plain /\ (~allocated \/ compressed \/ misstated)
<1>1. /\ TypeOK /\ sh_size \in Nat /\ data_size \in Nat /\ XMax \in Nat
      /\ Len(data) \in Nat /\ Len(p) \in Nat /\ pos \in 0..sh_size
      /\ sh_size + Len(p) <= XMax
  BY SizeFacts DEF SectionInv, InsertData, TypeOK
<1>2. /\ allocated /\ ~compressed /\ ~misstated
           => sh_size <= data_size /\ data_size <= Len(data)
      /\ Plain /\ ~allocated => sh_size = 0 /\ data_size = 0
  BY <1>1 DEF SectionInv, BufferInv, SizesOrdered, PlainEmpty
<1>3. CASE Shift(pos, p)
  <2>1. CASE Reaches(sh_size + Len(p))
    BY <1>1, <1>3, <2>1, ShiftInserts
  <2>2. CASE ~Reaches(sh_size + Len(p))
    <3>1. Crash /\ sh_size + Len(p) <= data_size
      BY <1>3, <2>2 DEF Shift
    <3>2. ~allocated \/ compressed \/ misstated
      BY <1>1, <1>2, <2>2, <3>1 DEF Reaches
    <3>3. ~Plain
      BY <1>1, <1>2, <2>2, <3>1, <3>2 DEF Reaches, Plain
    <3> QED
      BY <1>1, <3>1, <3>2, <3>3
  <2> QED
    BY <2>1, <2>2
<1>4. CASE Reallocate(pos, p)
  <2>1. CASE Reaches(sh_size) /\ sh_size + Len(p) <= NewCapacity(p)
    BY <1>1, <1>4, <2>1, ReallocateInserts
  <2>2. CASE ~(Reaches(sh_size) /\ sh_size + Len(p) <= NewCapacity(p))
    <3>1. Crash
      BY <1>4, <2>2 DEF Reallocate
    <3>2. ~allocated \/ compressed \/ misstated
      BY <1>1, <1>2, <2>2 DEF Reaches, NewCapacity
    <3>3. ~Plain
      BY <1>1, <1>2, <2>2, <3>2 DEF Reaches, NewCapacity, Plain
    <3> QED
      BY <1>1, <3>1, <3>2, <3>3
  <2> QED
    BY <2>1, <2>2
<1> QED
  BY <1>1, <1>3, <1>4 DEF InsertData

LEMMA InsertDataKeeps ==
  ASSUME SectionInv, NEW pos \in 0..XMax, NEW p \in Payload,
         InsertData(pos, p)
  PROVE  SectionInv'
<1>1. /\ TypeOK /\ BufferInv /\ origin # "new" /\ ~fault /\ touched' = TRUE
      /\ image' = <<>> /\ image' \in Seq(Cell)
      /\ UNCHANGED <<loadVars, fixedVars, type, sh_offset, stream_live>>
  BY EmptySeq DEF SectionInv, InsertData, Alive
<1>2. \/ Inserted(pos, p)
      \/ Crash /\ ~Plain /\ (~allocated \/ compressed \/ misstated)
  BY InsertCases
<1>3. CASE Inserted(pos, p)
  <2>1. TypeOK'
    BY <1>1, <1>3 DEF TypeOK, Inserted, loadVars, fixedVars
  <2>2. /\ ~allocated' => ~allocated /\ sh_size' = 0 /\ data_size' = data_size
                          /\ data' = <<>>
        /\ allocated' /\ ~compressed
             => sh_size' <= data_size' /\ data_size' <= Len(data')
        /\ ~misstated' => ~misstated
        /\ fault' = fault
    BY <1>3 DEF Inserted
  <2>3. BufferInv'
    BY <1>1, <2>2
    DEF BufferInv, NewIsBlank, NoBuffer, SizesOrdered,
        PlainEmpty, FaultsExcused, ShowsFile, Plain, fixedVars
  <2> QED
    BY <2>1, <2>3 DEF SectionInv
<1>4. CASE Crash /\ ~Plain /\ (~allocated \/ compressed \/ misstated)
  <2>1. TypeOK'
    BY <1>1, <1>4 DEF TypeOK, Crash, loadVars, fixedVars, bufferVars
  <2>2. BufferInv'
    BY <1>1, <1>4
    DEF BufferInv, NewIsBlank, NoBuffer, SizesOrdered,
        PlainEmpty, FaultsExcused, ShowsFile, Plain, fixedVars, bufferVars,
        Crash
  <2> QED
    BY <2>1, <2>2 DEF SectionInv
<1> QED
  BY <1>2, <1>3, <1>4

-----------------------------------------------------------------------------
LEMMA SectionStepwise == SectionInv /\ [Next]_vars => SectionInv'
<1> SUFFICES ASSUME SectionInv, [Next]_vars
             PROVE  SectionInv'
  OBVIOUS
<1>1. CASE UNCHANGED vars
  BY <1>1
  DEF SectionInv, TypeOK, BufferInv, NewIsBlank, NoBuffer, SizesOrdered, PlainEmpty, FaultsExcused, ShowsFile, Plain, vars,
      bufferVars, loadVars, fixedVars
<1>2. ASSUME NEW c \in BOOLEAN, Create(c)
      PROVE  SectionInv'
  BY <1>2, CreateKeeps
<1>3. ASSUME NEW t \in Types, NEW off \in 0..Len(File) + 1,
             NEW n \in 0..Len(File) + 1, NEW lazy \in BOOLEAN,
             NEW c \in BOOLEAN, Load(t, off, n, lazy, c)
      PROVE  SectionInv'
  BY <1>3, LoadKeeps
<1>4. CASE DropStream
  BY <1>4, DropStreamKeeps
<1>5. CASE GetData
  BY <1>5, GetDataKeeps
<1>6. CASE FreeData
  BY <1>6, FreeDataKeeps
<1>7. ASSUME NEW p \in Payload, SetData(p)
      PROVE  SectionInv'
  BY <1>7, SetDataKeeps
<1>8. CASE SetDataNobits
  BY <1>8, SetDataNobitsKeeps
<1>9. ASSUME NEW pos \in 0..XMax, NEW p \in Payload, InsertData(pos, p)
      PROVE  SectionInv'
  BY <1>9, InsertDataKeeps
<1>10. ASSUME NEW n \in Sizes, SetSize(n)
       PROVE  SectionInv'
  BY <1>10, SetSizeKeeps
<1>11. ASSUME NEW off \in Offsets, Save(off)
       PROVE  SectionInv'
  BY <1>11, SaveKeeps
<1>12. ASSUME NEW t \in Types, SetType(t)
       PROVE  SectionInv'
  BY <1>12, SetTypeKeeps
<1> QED
  BY <1>1, <1>2, <1>3, <1>4, <1>5, <1>6, <1>7, <1>8, <1>9, <1>10, <1>11,
     <1>12
  DEF Next

(* The inductive invariant holds in every reachable state.                 *)
THEOREM SectionInvariance == Spec => []SectionInv
BY SectionInitially, SectionStepwise, PTL DEF Spec

(* SizeFacts and positions keep their widths, whatever is inserted: the checks *)
(* of insert_data() and its doubling of the buffer never leave a word.     *)
THEOREM SectionTypeCorrect == Spec => []TypeOK
<1>1. SectionInv => TypeOK
  BY DEF SectionInv
<1> QED
  BY <1>1, SectionInvariance, PTL

(* No sequence of loads, edits, reads and saves takes section_impl outside *)
(* its buffer, or to a stream that is gone, but for the two causes named   *)
(* in the property; the sizes it keeps stay in order.                      *)
THEOREM BuffersAlwaysFit == Spec => []BuffersFit
<1>1. SectionInv => BuffersFit
  BY DEF SectionInv, BufferInv, SizesOrdered, PlainEmpty, FaultsExcused,
         BuffersFit, Plain
<1> QED
  BY <1>1, SectionInvariance, PTL

(* What load_data() fetched is what the header names, as long as nobody    *)
(* edits the section, across any number of free_data() and get_data().     *)
THEOREM LoadedBytesShow == Spec => []UntouchedShowsFile
<1>1. SectionInv => UntouchedShowsFile
  BY DEF SectionInv, BufferInv, ShowsFile, UntouchedShowsFile, Content,
         FileSlice
<1> QED
  BY <1>1, SectionInvariance, PTL

-----------------------------------------------------------------------------
(* The refinement of ByteStore.  Val is what the mapping makes of the      *)
(* state.                                                                  *)

Val == IF Plain THEN Content ELSE <<>>

LEMMA StoreInitially == Init => Promise!Init
<1> SUFFICES ASSUME Init PROVE Promise!Init
  OBVIOUS
<1>1. allocated = FALSE /\ type = "NULL"
  BY DEF Init
<1>2. Content = <<>>
  BY <1>1 DEF Content
<1> QED
  BY <1>1, <1>2, Zenon DEF Promise!Init

(* The content, while it lasts, is the first sh_size bytes of the buffer.  *)
LEMMA ContentOf ==
  ASSUME SectionInv, Plain
  PROVE  /\ Val = SubSeq(data, 1, sh_size) /\ Content = Val
         /\ sh_size \in 0..Len(data) /\ Len(data) \in Nat
         /\ Len(Val) = sh_size
         /\ \A i \in 1..sh_size : Val[i] = data[i]
<1>1. /\ data \in Seq(Cell) /\ Len(data) \in Nat /\ sh_size \in Nat
      /\ data_size \in Nat
  BY SizeFacts DEF SectionInv, TypeOK
<1>2. /\ allocated => sh_size <= data_size /\ data_size <= Len(data)
      /\ ~allocated => sh_size = 0
  BY DEF SectionInv, BufferInv, SizesOrdered, PlainEmpty, Plain
<1>3. sh_size \in 0..Len(data)
  BY <1>1, <1>2
<1>4. Content = SubSeq(data, 1, sh_size)
  <2>1. CASE ~allocated
    <3>1. SubSeq(data, 1, 0) = <<>>
      BY SubSeqEmpty
    <3> QED
      BY <1>2, <2>1, <3>1 DEF Content
  <2>2. CASE allocated
    BY <2>2 DEF Content
  <2> QED
    BY <2>1, <2>2
<1>5. /\ Len(SubSeq(data, 1, sh_size)) = sh_size
      /\ \A i \in 1..sh_size : SubSeq(data, 1, sh_size)[i] = data[i]
  BY <1>1, <1>3, Prefix
<1> QED
  BY <1>1, <1>3, <1>4, <1>5 DEF Val

LEMMA ContentOfNext ==
  ASSUME SectionInv', Plain'
  PROVE  /\ Val' = SubSeq(data', 1, sh_size') /\ Content' = Val'
         /\ sh_size' \in 0..Len(data') /\ Len(data') \in Nat
         /\ Len(Val') = sh_size'
         /\ \A i \in 1..sh_size' : Val'[i] = data'[i]
<1>1. SectionInv' /\ Plain' =>
        (/\ Val = SubSeq(data, 1, sh_size) /\ Content = Val
         /\ sh_size \in 0..Len(data) /\ Len(data) \in Nat
         /\ Len(Val) = sh_size
         /\ \A i \in 1..sh_size : Val[i] = data[i])'
  BY ContentOf, PTL
<1> QED
  BY <1>1

LEMMA NewShowsNothing ==
  ASSUME SectionInv, origin = "new"
  PROVE  Val = <<>> /\ ~allocated /\ Plain
BY DEF SectionInv, BufferInv, NewIsBlank, Val, Content

LEMMA CreateUnseen ==
  ASSUME SectionInv, NEW c \in BOOLEAN, Create(c)
  PROVE  UNCHANGED <<Val, type>>
<1>1. Val = <<>> /\ ~allocated
  BY NewShowsNothing DEF Create
<1>2. ~allocated' /\ type' = type
  BY <1>1 DEF Create, bufferVars
<1>3. Val' = <<>>
  BY <1>2 DEF Val, Content
<1> QED
  BY <1>1, <1>2, <1>3

(* An eager load that finds the bytes opens the store with them.           *)
LEMMA LoadOpens ==
  ASSUME SectionInv, SectionInv', Plain',
         NEW t \in Types, NEW off \in 0..Len(File) + 1,
         NEW n \in 0..Len(File) + 1, NEW lazy \in BOOLEAN, NEW c \in BOOLEAN,
         Load(t, off, n, lazy, c)
  PROVE  Promise!Open(t, SubSeq(File, off + 1, off + n))
<1>1. Val = <<>> /\ ~allocated /\ TypeOK
  BY NewShowsNothing DEF Load, SectionInv
<1>2. /\ type' = t /\ is_lazy' = lazy /\ compressed' = c
      /\ misstated' = (t \in Bare /\ n # 0)
  BY DEF Load
<1>3. ~lazy /\ ~c /\ intact' /\ (n # 0 => t \notin Bare)
  BY <1>2 DEF Plain
<1>4. PICK r \in LoadData(t, off, n, Len(File), TRUE) :
        intact' = (t \in Bare \/ r.ok) /\ Inflate(r, n)
  BY <1>3 DEF Load
<1>5. sh_size' = n /\ allocated' = r.allocated /\ data' = r.data
  BY <1>2, <1>3, <1>4 DEF Inflate, Apply
<1>6. off \in Nat /\ n \in Nat /\ Len(File) \in Nat
  BY <1>1, SizeFacts
<1>7. Val' = FileSlice(off, n)
  <2>1. Val' = SubSeq(data', 1, sh_size')
    BY ContentOfNext
  <2>2. CASE n = 0
    <3>1. SubSeq(data', 1, 0) = <<>>
      BY SubSeqEmpty
    <3>2. off + 1 \in Int /\ off \in Int /\ off < off + 1
      BY <1>6
    <3>3. SubSeq(File, off + 1, off) = <<>>
      BY <3>2, SubSeqEmpty
    <3>4. FileSlice(off, n) = SubSeq(File, off + 1, off)
      BY <1>6, <2>2 DEF FileSlice
    <3> QED
      BY <1>5, <2>1, <2>2, <3>1, <3>3, <3>4
  <2>3. CASE n # 0
    <3>1. /\ Honest(r, t, n)
          /\ Kept(r, t, n, TRUE) \/ Filled(r, t, off, n) \/ Dropped(r, t, n)
      BY <1>1, <1>6, LoadDataOutcomes
    <3>2. r.allocated
      BY <1>3, <1>4, <2>3, <3>1 DEF Honest
    <3>3. Filled(r, t, off, n)
      BY <1>1, <3>1, <3>2 DEF Kept, Dropped
    <3> QED
      BY <1>5, <2>1, <3>3 DEF Filled
  <2> QED
    BY <2>2, <2>3
<1> QED
  BY <1>1, <1>2, <1>7 DEF Promise!Open, Val, FileSlice

(* Reading brings no byte to light that was not there, nor loses one.      *)
LEMMA GetDataReads ==
  ASSUME SectionInv, SectionInv', Plain', GetData
  PROVE  Promise!Read(Content')
<1>1. /\ UNCHANGED <<fixedVars, type, sh_offset, sh_size, stream_size,
                     stream_live, touched, misstated>>
      /\ ~fault /\ sh_offset \in Nat /\ TypeOK
  BY DEF GetData, Alive, SectionInv, TypeOK
<1>2. Plain /\ type' = type /\ sh_size' = sh_size
  BY <1>1 DEF Plain, fixedVars
<1>3. /\ Val = SubSeq(data, 1, sh_size)
      /\ Val' = SubSeq(data', 1, sh_size) /\ Content' = Val'
  BY <1>2, ContentOf, ContentOfNext
<1>4. Val' = Val
  <2>1. CASE allocated
    <3>1. PICK r \in Fetch(type, sh_offset, sh_size, stream_size,
                           stream_live) : Apply(r)
      BY DEF GetData
    <3>2. r.data = data
      BY <1>1, <2>1, FetchKeeps
    <3> QED
      BY <1>3, <3>1, <3>2 DEF Apply
  <2>2. CASE ~allocated
    <3>1. sh_size = 0
      BY <1>2, <2>2 DEF SectionInv, BufferInv, PlainEmpty
    <3>2. SubSeq(data', 1, 0) = <<>> /\ SubSeq(data, 1, 0) = <<>>
      BY SubSeqEmpty
    <3> QED
      BY <1>3, <3>1, <3>2
  <2> QED
    BY <2>1, <2>2
<1> QED
  BY <1>2, <1>3, <1>4 DEF Promise!Read, Promise!vars, Val

LEMMA SetDataAssigns ==
  ASSUME SectionInv, SectionInv', Plain', NEW p \in Payload, SetData(p)
  PROVE  Promise!Assign(p)
<1>1. /\ TypeOK /\ type # "NOBITS" /\ type' = type /\ p \in Seq(Cell)
      /\ sh_size' = Narrow(data_size') /\ size_max \in Nat
      /\ misstated' = (data_size' > size_max)
      /\ data_size' \in Nat
  BY SizeFacts DEF SectionInv, SetData, TypeOK
<1>2. sh_size' = data_size'
  <2>1. data_size' > size_max => misstated'
    BY <1>1
  <2>2. data_size' <= size_max
    BY <1>1, <2>1 DEF Plain
  <2> QED
    BY <1>1, <2>2, NarrowedSize
<1>3. Val' = SubSeq(data', 1, sh_size')
  BY ContentOfNext
<1>4. Val' \in {p, <<>>}
  <2>1. CASE allocated' = TRUE /\ data' = p /\ data_size' = Len(p)
    <3>1. SubSeq(p, 1, Len(p)) = p
      BY <1>1, SubSeqFull
    <3> QED
      BY <1>2, <1>3, <2>1, <3>1
  <2>2. CASE data_size' = 0
    <3>1. SubSeq(data', 1, 0) = <<>>
      BY SubSeqEmpty
    <3> QED
      BY <1>2, <1>3, <2>2, <3>1
  <2> QED
    BY <2>1, <2>2 DEF SetData
<1> QED
  BY <1>1, <1>4 DEF Promise!Assign, Val

(* A change of size within the buffer cuts the content or shows more of    *)
(* the buffer behind it.                                                   *)
LEMMA ResizedContent ==
  ASSUME SectionInv, SectionInv', Plain', NEW n \in Nat, Resized(n)
  PROVE  /\ Plain /\ type' = type
         /\ Len(Val') = n
         /\ \A i \in 1..Len(Val) : i <= Len(Val') => Val'[i] = Val[i]
         /\ sh_size <= data_size /\ Len(Val) = sh_size
<1>1. /\ data' = data /\ type' = type /\ sh_size' = Narrow(n)
      /\ misstated \/ n > data_size \/ n > size_max => misstated'
      /\ UNCHANGED <<intact, is_lazy, compressed, allocated>>
      /\ TypeOK /\ size_max \in Nat /\ data_size \in Nat /\ sh_size \in Nat
  BY SizeFacts DEF Resized, fixedVars, bufferVars, SectionInv
<1>2. Plain /\ ~(n > size_max)
  BY <1>1 DEF Plain
<1>3. sh_size' = n
  BY <1>1, <1>2, NarrowedSize
<1>4. /\ Len(Val) = sh_size /\ \A i \in 1..sh_size : Val[i] = data[i]
      /\ Len(Val') = n /\ \A i \in 1..n : Val'[i] = data[i]
  BY <1>1, <1>2, <1>3, ContentOf, ContentOfNext
<1>5. sh_size <= data_size
  <2>1. ~allocated => sh_size = 0
    BY <1>2 DEF SectionInv, BufferInv, PlainEmpty
  <2>2. allocated => sh_size <= data_size
    BY <1>2 DEF SectionInv, BufferInv, SizesOrdered, Plain
  <2> QED
    BY <1>1, <2>1, <2>2
<1> QED
  BY <1>1, <1>2, <1>4, <1>5

LEMMA SetSizeResizes ==
  ASSUME SectionInv, SectionInv', Plain', NEW n \in Sizes, SetSize(n)
  PROVE  Promise!Resize(n)
<1>1. n \in Nat /\ stream_size \in 0..XMax /\ misstated \in BOOLEAN
  BY SectionDataAssumption DEF SectionInv, TypeOK
<1>2. Resized(n)
  BY <1>1 DEF Resized, SetSize, Alive
<1>3. /\ type' = type /\ Len(Val') = n
      /\ \A i \in 1..Len(Val) : i <= Len(Val') => Val'[i] = Val[i]
  BY <1>1, <1>2, ResizedContent
<1> QED
  BY <1>3 DEF Promise!Resize, Promise!KeepsPrefix, Val

LEMMA SetDataRestores ==
  ASSUME SectionInv, SectionInv', Plain', SetDataNobits
  PROVE  Promise!Restore
<1>1. data_size \in Nat /\ type = "NOBITS"
  BY SizeFacts DEF SectionInv, SetDataNobits
<1>2. Resized(data_size)
  BY NobitsResized
<1>3. /\ type' = type /\ Len(Val') = data_size
      /\ \A i \in 1..Len(Val) : i <= Len(Val') => Val'[i] = Val[i]
      /\ sh_size <= data_size /\ Len(Val) = sh_size
  BY <1>1, <1>2, ResizedContent
<1>4. Len(Val') >= Len(Val)
  BY <1>1, <1>3, SizeFacts DEF SectionInv
<1> QED
  BY <1>1, <1>3, <1>4 DEF Promise!Restore, Promise!KeepsPrefix, Val

LEMMA SetTypeRetypes ==
  ASSUME NEW t \in Types, SetType(t)
  PROVE  Promise!Retype(t)
<1>1. type' = t /\ UNCHANGED <<allocated, data, sh_size, intact, is_lazy,
                               compressed, misstated>>
  BY DEF SetType, bufferVars, fixedVars
<1>2. Val' = Val
  BY <1>1 DEF Val, Content, Plain
<1> QED
  BY <1>1, <1>2 DEF Promise!Retype, Val

(* The bytes that an insertion makes visible are the content, spliced.     *)
LEMMA SplicedContent ==
  ASSUME TypeOK, NEW p \in Payload, NEW pos \in 0..sh_size, NEW n \in Nat,
         sh_size <= Len(data), sh_size + Len(p) <= n,
         NEW c, c = SubSeq(data, 1, sh_size)
  PROVE  /\ Len(c) = sh_size
         /\ SubSeq(Spliced(pos, p, n), 1, sh_size + Len(p))
              = SubSeq(c, 1, pos) \o p \o SubSeq(c, pos + 1, Len(c))
<1> DEFINE d == Spliced(pos, p, n)
           total == sh_size + Len(p)
           front == SubSeq(c, 1, pos)
           back == SubSeq(c, pos + 1, Len(c))
           whole == SubSeq(d, 1, total)
<1>1. /\ data \in Seq(Cell) /\ sh_size \in Nat /\ Len(data) \in Nat
      /\ p \in Seq(Cell) /\ Len(p) \in Nat /\ sh_size \in 0..Len(data)
  BY SizeFacts DEF TypeOK
<1>2. /\ c \in Seq(Cell) /\ Len(c) = sh_size
      /\ \A i \in 1..sh_size : c[i] = data[i]
  BY <1>1, Prefix
<1>3. /\ d \in Seq(Cell) /\ Len(d) = n
      /\ \A i \in 1..n :
           /\ i <= pos => d[i] = data[i]
           /\ i > pos /\ i <= pos + Len(p) => d[i] = p[i - pos]
           /\ i > pos + Len(p) /\ i <= sh_size + Len(p)
                => d[i] = data[i - Len(p)]
  BY SplicedCells
<1> HIDE DEF d
<1>4. /\ front \in Seq(Cell) /\ Len(front) = pos
      /\ \A i \in 1..pos : front[i] = c[i]
  <2>1. pos \in 0..Len(c)
    BY <1>1, <1>2
  <2> QED
    BY <1>2, <2>1, Prefix
<1>5. /\ back \in Seq(Cell) /\ Len(back) = sh_size - pos
      /\ \A i \in 1..sh_size - pos : back[i] = c[pos + i]
  <2>1. pos + 1 \in 1..Len(c) + 1 /\ Len(c) \in pos + 1 - 1..Len(c)
    BY <1>1, <1>2
  <2>2. /\ back \in Seq(Cell) /\ Len(back) = Len(c) - (pos + 1) + 1
        /\ \A i \in 1..Len(c) - (pos + 1) + 1 : back[i] = c[pos + 1 + i - 1]
    BY <1>2, <2>1, Piece, SMTT(40)
  <2> HIDE DEF back
  <2>3. ASSUME NEW i \in 1..sh_size - pos
        PROVE  back[i] = c[pos + i]
    <3>1. i \in 1..Len(c) - (pos + 1) + 1 /\ pos + 1 + i - 1 = pos + i
      BY <1>1, <1>2
    <3> QED
      BY <2>2, <3>1
  <2> QED
    BY <1>1, <1>2, <2>2, <2>3, SMTT(40)
<1>6. /\ whole \in Seq(Cell) /\ Len(whole) = total
      /\ \A i \in 1..total : whole[i] = d[i]
  <2>1. total \in 0..Len(d)
    BY <1>1, <1>3
  <2> QED
    BY <1>3, <2>1, Prefix
<1> DEFINE opening == front \o p
           all == opening \o back
<1> HIDE DEF front, back, whole
<1>7. /\ opening \in Seq(Cell) /\ Len(opening) = pos + Len(p)
      /\ \A i \in 1..pos + Len(p) :
           opening[i] = IF i <= pos THEN front[i] ELSE p[i - pos]
  BY <1>1, <1>4, ConcatProperties
<1> HIDE DEF opening
<1>8. /\ all \in Seq(Cell) /\ Len(all) = total
      /\ \A i \in 1..total :
           all[i] = IF i <= pos + Len(p) THEN opening[i]
                    ELSE back[i - (pos + Len(p))]
  <2>1. Len(opening) + Len(back) = total
    BY <1>1, <1>5, <1>7
  <2>2. /\ all \in Seq(Cell) /\ Len(all) = Len(opening) + Len(back)
        /\ \A i \in 1..Len(opening) + Len(back) :
             all[i] = IF i <= Len(opening) THEN opening[i]
                      ELSE back[i - Len(opening)]
    <3>1. opening \in Seq(Cell) /\ back \in Seq(Cell)
      BY <1>5, <1>7
    <3> QED
      BY <3>1, ConcatProperties
  <2> HIDE DEF all
  <2> QED
    BY <1>7, <2>1, <2>2
<1> HIDE DEF all
<1>9. ASSUME NEW i \in 1..total
      PROVE  whole[i] = all[i]
  <2>1. i \in 1..n /\ pos \in Nat /\ pos <= sh_size
    BY <1>1
  <2>2. CASE i <= pos
    <3>1. i \in 1..pos /\ i \in 1..pos + Len(p) /\ i <= pos + Len(p)
          /\ i \in 1..sh_size
      BY <1>1, <2>1, <2>2
    <3>2. whole[i] = data[i]
      BY <1>3, <1>6, <2>1, <2>2
    <3>3. all[i] = front[i] /\ front[i] = c[i] /\ c[i] = data[i]
      BY <1>2, <1>4, <1>7, <1>8, <2>2, <3>1
    <3> QED
      BY <3>2, <3>3
  <2>3. CASE i > pos /\ i <= pos + Len(p)
    <3>1. i \in 1..pos + Len(p) /\ ~(i <= pos)
      BY <1>1, <2>1, <2>3
    <3> QED
      BY <1>3, <1>6, <1>7, <1>8, <2>1, <2>3, <3>1
  <2>4. CASE i > pos + Len(p)
    <3>1. /\ i - (pos + Len(p)) \in 1..sh_size - pos /\ ~(i <= pos + Len(p))
          /\ pos + (i - (pos + Len(p))) = i - Len(p)
          /\ i - Len(p) \in 1..sh_size /\ i <= sh_size + Len(p)
      BY <1>1, <2>1, <2>4
    <3>2. back[i - (pos + Len(p))] = data[i - Len(p)]
      BY <1>2, <1>5, <3>1
    <3>3. whole[i] = data[i - Len(p)]
      BY <1>3, <1>6, <2>1, <2>4, <3>1
    <3> QED
      BY <1>8, <3>1, <3>2, <3>3
  <2> QED
    BY <1>1, <2>1, <2>2, <2>3, <2>4
<1>10. whole = all
  BY <1>6, <1>8, <1>9, SeqEqual
<1> QED
  BY <1>2, <1>10 DEF all, opening, whole, front, back, d

LEMMA InsertSplices ==
  ASSUME SectionInv, SectionInv', Plain',
         NEW pos \in 0..XMax, NEW p \in Payload, InsertData(pos, p)
  PROVE  Promise!Splice(pos, p)
<1>1. /\ TypeOK /\ UNCHANGED <<fixedVars, type>> /\ type # "NOBITS"
      /\ sh_size \in Nat /\ Len(p) \in Nat /\ misstated \in BOOLEAN
  BY SizeFacts DEF SectionInv, InsertData, TypeOK
<1>2. /\ pos \in 0..sh_size
      /\ \/ Inserted(pos, p)
         \/ Crash /\ ~Plain /\ (~allocated \/ compressed \/ misstated)
  BY InsertCases
<1>3. Inserted(pos, p)
  BY <1>1, <1>2 DEF Crash, Plain, fixedVars
<1>4. Plain
  BY <1>1, <1>3 DEF Inserted, Plain, fixedVars
<1>5. Val = SubSeq(data, 1, sh_size) /\ Val' = SubSeq(data', 1, sh_size')
  BY <1>4, ContentOf, ContentOfNext
<1>6. /\ Len(data') \in Nat /\ sh_size + Len(p) <= Len(data')
      /\ sh_size <= Len(data) /\ data' = Spliced(pos, p, Len(data'))
      /\ sh_size' = sh_size + Len(p)
  BY <1>3, LenProperties DEF Inserted, Plain
<1>7. /\ Len(Val) = sh_size
      /\ SubSeq(Spliced(pos, p, Len(data')), 1, sh_size + Len(p))
           = SubSeq(Val, 1, pos) \o p \o SubSeq(Val, pos + 1, Len(Val))
  BY <1>1, <1>2, <1>5, <1>6, SplicedContent
<1>8. /\ pos \in 0..Len(Val)
      /\ Val' = SubSeq(Val, 1, pos) \o p \o SubSeq(Val, pos + 1, Len(Val))
  BY <1>2, <1>5, <1>6, <1>7
<1> QED
  BY <1>1, <1>8 DEF Promise!Splice, Val

LEMMA SaveEmits ==
  ASSUME SectionInv, SectionInv', Plain', NEW off \in Offsets, Save(off)
  PROVE  Promise!Emit(image')
<1>1. /\ ~fault /\ off \in Nat
      /\ UNCHANGED <<fixedVars, type, sh_size, misstated>>
  BY SectionDataAssumption DEF Save, Alive
<1>2. Plain /\ type' = type /\ sh_size' = sh_size
  BY <1>1 DEF Plain, fixedVars
<1>3. SavePlain(off)
  BY <1>2 DEF Save, SaveCompressed, Plain
<1>4. /\ Val = SubSeq(data, 1, sh_size) /\ sh_size \in 0..Len(data)
      /\ Val' = SubSeq(data', 1, sh_size) /\ Len(data) \in Nat
  BY <1>2, ContentOf, ContentOfNext
<1>5. CASE Writes
  <2>1. data' = data /\ image' = SubSeq(data, 1, sh_size)
    BY <1>1, <1>3, <1>4, <1>5, SavedPlain
  <2>2. type \notin {"NULL", "NOBITS"}
    BY <1>5 DEF Writes, Bare
  <2> QED
    BY <1>2, <1>4, <2>1, <2>2 DEF Promise!Emit, Promise!vars, Val
<1>6. CASE ~Writes
  <2>1. image' = <<>> /\ data' = data
    BY <1>1, <1>3, <1>6, SavedPlain DEF bufferVars
  <2>2. Val = <<>> \/ type \in {"NULL", "NOBITS"}
    <3>1. ~allocated => sh_size = 0
      BY <1>2 DEF SectionInv, BufferInv, PlainEmpty
    <3>2. SubSeq(data, 1, 0) = <<>>
      BY SubSeqEmpty
    <3>3. sh_size = 0 => Val = <<>>
      BY <1>4, <3>2
    <3> QED
      BY <1>6, <3>1, <3>3 DEF Writes, Bare
  <2> QED
    BY <1>2, <1>4, <2>1, <2>2 DEF Promise!Emit, Promise!vars, Val
<1> QED
  BY <1>5, <1>6

(* Each operation does what it owes its caller.                            *)
LEMMA OperationsAsAsked ==
  ASSUME SectionInv, SectionInv', Plain'
  PROVE  AsAsked
<1>1. ASSUME NEW t \in Types, NEW off \in 0..Len(File) + 1,
             NEW n \in 0..Len(File) + 1, NEW lazy \in BOOLEAN,
             NEW c \in BOOLEAN, Load(t, off, n, lazy, c)
      PROVE  Promise!Open(t, SubSeq(File, off + 1, off + n))
  BY <1>1, LoadOpens
<1>2. GetData => Promise!Read(Content')
  BY GetDataReads
<1>3. ASSUME NEW p \in Payload, SetData(p)
      PROVE  Promise!Assign(p)
  BY <1>3, SetDataAssigns
<1>4. SetDataNobits => Promise!Restore
  BY SetDataRestores
<1>5. ASSUME NEW pos \in 0..XMax, NEW p \in Payload, InsertData(pos, p)
      PROVE  Promise!Splice(pos, p)
  BY <1>5, InsertSplices
<1>6. ASSUME NEW n \in Sizes, SetSize(n)
      PROVE  Promise!Resize(n)
  BY <1>6, SetSizeResizes
<1>7. ASSUME NEW t \in Types, SetType(t)
      PROVE  Promise!Retype(t)
  BY <1>7, SetTypeRetypes
<1>8. ASSUME NEW off \in Offsets, Save(off)
      PROVE  Promise!Emit(image')
  BY <1>8, SaveEmits
<1>9. ASSUME DropStream \/ \E c \in BOOLEAN : Create(c)
      PROVE  UNCHANGED Promise!vars
  <2>1. ASSUME DropStream PROVE UNCHANGED <<Val, type>>
    BY <2>1 DEF DropStream, bufferVars, loadVars, fixedVars, Val, Content,
                Plain
  <2>2. ASSUME NEW c \in BOOLEAN, Create(c) PROVE UNCHANGED <<Val, type>>
    BY <2>2, CreateUnseen
  <2>3. UNCHANGED <<Val, type>>
    BY <1>9, <2>1, <2>2
  <2> QED
    BY <2>3 DEF Promise!vars, Val
<1> QED
  BY <1>1, <1>2, <1>3, <1>4, <1>5, <1>6, <1>7, <1>8, <1>9, Zenon DEF AsAsked

LEMMA StoreStepwise ==
  SectionInv /\ SectionInv' /\ [Next]_vars => [Promise!Next]_(Promise!vars)
<1> SUFFICES ASSUME SectionInv, SectionInv', [Next]_vars
             PROVE  Promise!Next \/ UNCHANGED <<Val, type>>
  BY DEF Promise!vars, Val
<1>1. CASE ~Plain'
  <2>1. Val' = <<>> /\ type' \in Types
    BY <1>1 DEF Val, SectionInv, TypeOK
  <2> QED
    BY <2>1 DEF Promise!Next, Promise!Abandon, Val
<1>2. CASE Plain' /\ UNCHANGED vars
  BY <1>2 DEF vars, bufferVars, loadVars, fixedVars, Val, Content, Plain
<1>3. CASE Plain' /\ Next
  <2>1. AsAsked
    BY <1>3, OperationsAsAsked
  <2>2. ASSUME NEW c \in BOOLEAN, Create(c)
        PROVE  UNCHANGED <<Val, type>>
    BY <2>2, CreateUnseen
  <2>3. ASSUME NEW t \in Types, NEW off \in 0..Len(File) + 1,
               NEW n \in 0..Len(File) + 1, NEW lazy \in BOOLEAN,
               NEW c \in BOOLEAN, Load(t, off, n, lazy, c)
        PROVE  Promise!Next
    <3>1. Promise!Open(t, SubSeq(File, off + 1, off + n))
      BY <1>3, <2>3, LoadOpens
    <3>2. Promise!Open(t, Val')
      BY <3>1 DEF Promise!Open, Val
    <3> QED
      BY <3>2 DEF Promise!Next, Val
  <2>4. CASE DropStream
    BY <2>4 DEF DropStream, bufferVars, loadVars, fixedVars, Val, Content,
                Plain
  <2>5. CASE GetData
    BY <1>3, <2>5, GetDataReads DEF Promise!Read, Promise!vars, Val
  <2>6. ASSUME FreeData
        PROVE  FALSE
    <3>1. is_lazy /\ is_lazy' = is_lazy
      BY <2>6 DEF FreeData, fixedVars
    <3>2. ~is_lazy'
      BY <1>3 DEF Plain
    <3> QED
      BY <3>1, <3>2
  <2>7. ASSUME NEW p \in Payload, SetData(p)
        PROVE  Promise!Next
    BY <1>3, <2>7, SetDataAssigns DEF Promise!Next
  <2>8. CASE SetDataNobits
    BY <1>3, <2>8, SetDataRestores DEF Promise!Next
  <2>9. ASSUME NEW pos \in 0..XMax, NEW p \in Payload, InsertData(pos, p)
        PROVE  Promise!Next
    <3>1. Promise!Splice(pos, p)
      BY <1>3, <2>9, InsertSplices
    <3> QED
      BY <3>1 DEF Promise!Next, Promise!Splice
  <2>10. ASSUME NEW n \in Sizes, SetSize(n)
         PROVE  Promise!Next
    <3>1. Promise!Resize(n)
      BY <1>3, <2>10, SetSizeResizes
    <3>2. Promise!Resize(Len(Val'))
      BY <3>1 DEF Promise!Resize, Val
    <3> QED
      BY <3>2 DEF Promise!Next, Val
  <2>11. ASSUME NEW t \in Types, SetType(t)
         PROVE  Promise!Next
    BY <2>11, SetTypeRetypes DEF Promise!Next
  <2>12. ASSUME NEW off \in Offsets, Save(off)
         PROVE  UNCHANGED <<Val, type>>
    BY <1>3, <2>12, SaveEmits DEF Promise!Emit, Promise!vars, Val
  <2> QED
    BY <1>3, <2>2, <2>3, <2>4, <2>5, <2>6, <2>7, <2>8, <2>9, <2>10, <2>11,
       <2>12
    DEF Next
<1> QED
  BY <1>1, <1>2, <1>3

(* To its clients a section made in memory, or loaded eagerly from an      *)
(* undamaged file, is the byte string of ByteStore while its size is that  *)
(* of its bytes: every operation of section_impl is the operation of that  *)
(* string of the same name and arguments, or is not seen.                  *)
THEOREM SectionIsByteStore == Spec => EagerIsByteStore
<1>1. Init => Promise!Init
  BY StoreInitially
<1>2. SectionInv /\ SectionInv' /\ [Next]_vars
        => [Promise!Next]_(Promise!vars)
  BY StoreStepwise
<1>3. SectionInv /\ SectionInv' => [Plain' => AsAsked]_vars
  BY OperationsAsAsked
<1> QED
  BY <1>1, <1>2, <1>3, SectionInvariance, PTL DEF Spec, EagerIsByteStore,
     Promise!Spec

=============================================================================
