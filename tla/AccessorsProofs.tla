-------------------------- MODULE AccessorsProofs --------------------------
(***************************************************************************)
(* Proofs about the accessors that read a section as a list: what one      *)
(* accessor has added another one finds, for any sections and additions.   *)
(***************************************************************************)
EXTENDS Accessors, NumberFacts, SequenceTheorems, TLAPS

(* The least element of a set of naturals is what Min() gives.             *)
LEMMA LeastIsMin ==
  ASSUME NEW T \in SUBSET Nat, T # {}
  PROVE  Min(T) \in T /\ \A y \in T : Min(T) <= y
BY LeastElement DEF Min

LEMMA MinIs ==
  ASSUME NEW T \in SUBSET Nat, NEW x \in T, \A y \in T : x <= y
  PROVE  Min(T) = x
<1>1. Min(T) \in T /\ Min(T) <= x
  BY LeastIsMin
<1>2. x <= Min(T) /\ x \in Nat /\ Min(T) \in Nat
  BY <1>1
<1> QED
  BY <1>1, <1>2

LEMMA Appended ==
  ASSUME NEW S, NEW s \in Seq(S), NEW c \in Seq(S)
  PROVE  /\ s \o c \in Seq(S) /\ Len(s \o c) = Len(s) + Len(c)
         /\ Len(s) \in Nat /\ Len(c) \in Nat
         /\ \A i \in 1 .. Len(s) : (s \o c)[i] = s[i]
         /\ \A i \in 1 .. Len(c) : (s \o c)[Len(s) + i] = c[i]
OBVIOUS

LEMMA AppendedLast ==
  ASSUME NEW s \in Seq(Nat), NEW x \in Nat
  PROVE  Append(s, x) # <<>> /\ Append(s, x)[Len(Append(s, x))] = x
<1> DEFINE t == Append(s, x)
<1>1. t # <<>> /\ Len(t) = Len(s) + 1 /\ t[Len(s) + 1] = x
  BY AppendProperties
<1> HIDE DEF t
<1>2. t # <<>> /\ t[Len(t)] = x
  BY <1>1
<1> QED
  BY <1>2 DEF t

-----------------------------------------------------------------------------
(* The positions of notes                                                  *)

LEMMA WordsOfText ==
  ASSUME NEW n \in Nat
  PROVE  WordsOf(n) \in Nat /\ 4 * WordsOf(n) \in n .. n + 3
BY DEF WordsOf

IsNote(s, p) == p + 3 <= Len(s) /\ NoteFits(s, p)

LEMMA Advances ==
  ASSUME NEW s \in Seq(Nat), NEW p \in Nat, p + 3 <= Len(s)
  PROVE  /\ Word(s, p) \in Nat /\ Word(s, p + 1) \in Nat
         /\ Word(s, p + 2) \in Nat
         /\ Advance(s, p) \in Nat /\ Advance(s, p) >= 3
         /\ Advance(s, p) = 3 + WordsOf(Word(s, p)) + WordsOf(Word(s, p + 1))
<1>1. p + 1 \in 1..Len(s) /\ (p + 1) + 1 \in 1..Len(s)
      /\ (p + 2) + 1 \in 1..Len(s) /\ Len(s) \in Nat
  OBVIOUS
<1>2. Word(s, p) \in Nat /\ Word(s, p + 1) \in Nat /\ Word(s, p + 2) \in Nat
  BY <1>1 DEF Word
<1>3. WordsOf(Word(s, p)) \in Nat /\ WordsOf(Word(s, p + 1)) \in Nat
  BY <1>2, WordsOfText
<1> DEFINE a == WordsOf(Word(s, p))
           b == WordsOf(Word(s, p + 1))
<1>4. Advance(s, p) = 3 + a + b
  BY DEF Advance
<1>5. a \in Nat /\ b \in Nat
  BY <1>3
<1> HIDE DEF a, b
<1>6. Advance(s, p) \in Nat /\ Advance(s, p) >= 3
  BY <1>4, <1>5
<1> QED
  BY <1>2, <1>4, <1>6 DEF a, b

(* What process_section() finds from each position on                      *)
Walks(F, s) ==
  \A p \in 0 .. Len(s) :
    F[p] = IF IsNote(s, p) THEN <<p>> \o F[p + Advance(s, p)] ELSE <<>>

LEMMA NoteGoesOn ==
  ASSUME NEW s \in Seq(Nat), NEW p \in Nat, IsNote(s, p)
  PROVE  p + Advance(s, p) \in p + 3 .. Len(s)
<1> DEFINE q == Advance(s, p)
<1>1. p + 3 <= Len(s) /\ p + q <= Len(s) /\ Len(s) \in Nat
  BY DEF IsNote, NoteFits
<1>2. q \in Nat /\ q >= 3
  BY <1>1, Advances
<1> HIDE DEF q
<1>3. p + q \in p + 3 .. Len(s)
  BY <1>1, <1>2
<1> QED
  BY <1>3 DEF q

LEMMA WalksExist ==
  ASSUME NEW s \in Seq(Nat)
  PROVE  \E F \in [0 .. Len(s) -> Seq(Nat)] : Walks(F, s)
<1> DEFINE L == Len(s)
           From(m) == {F \in [L - m .. L -> Seq(Nat)] :
                         \A p \in L - m .. L :
                           F[p] = IF IsNote(s, p)
                                  THEN <<p>> \o F[p + Advance(s, p)] ELSE <<>>}
           bad == {m \in 0..L : From(m) = {}}
<1>1. L \in Nat
  OBVIOUS
<1>2. ASSUME bad # {}
      PROVE  FALSE
  <2>1. PICK m \in bad : \A o \in bad : m <= o
    <3>1. bad \in SUBSET Nat
      BY <1>1
    <3> HIDE DEF bad
    <3> QED
      BY <1>2, <3>1, LeastElement
  <2>2. m \in 0..L /\ From(m) = {}
    OBVIOUS
  <2> HIDE DEF bad
  <2>3. CASE m = 0
    <3> DEFINE F == [p \in L..L |-> <<>>]
    <3>1. L - m = L /\ \A p \in L..L : p = L /\ ~IsNote(s, p)
      BY <1>1, <2>3 DEF IsNote
    <3>2. F \in [L - m .. L -> Seq(Nat)] /\ \A p \in L..L : F[p] = <<>>
      BY <3>1
    <3> HIDE DEF F
    <3>3. F \in From(m)
      BY <3>1, <3>2
    <3> QED
      BY <2>2, <3>3
  <2>4. CASE m # 0
    <3>1. m - 1 \in 0..L /\ ~(m <= m - 1) /\ m \in Nat
      BY <1>1, <2>2, <2>4
    <3>2. m - 1 \notin bad
      BY <2>1, <3>1
    <3>3. PICK h : h \in From(m - 1)
      BY <3>1, <3>2 DEF bad
    <3> DEFINE n == L - m
               first == IF IsNote(s, n)
                        THEN <<n>> \o h[n + Advance(s, n)] ELSE <<>>
               F == [p \in n..L |-> IF p = n THEN first ELSE h[p]]
    <3>4. n \in Nat /\ L - (m - 1) = n + 1 /\ n < L
      BY <1>1, <2>2, <3>1
    <3>5. /\ h \in [n + 1 .. L -> Seq(Nat)]
          /\ \A p \in n + 1 .. L :
               h[p] = IF IsNote(s, p)
                      THEN <<p>> \o h[p + Advance(s, p)] ELSE <<>>
      BY <3>3, <3>4
    <3> HIDE DEF L, n, From
    <3>6. first \in Seq(Nat)
      <4>1. CASE IsNote(s, n)
        <5>1. n + Advance(s, n) \in n + 1 .. L
          BY <1>1, <3>4, <4>1, NoteGoesOn, Advances DEF L, IsNote
        <5>2. h[n + Advance(s, n)] \in Seq(Nat) /\ <<n>> \in Seq(Nat)
          BY <3>4, <3>5, <5>1
        <5> HIDE DEF first
        <5>3. <<n>> \o h[n + Advance(s, n)] \in Seq(Nat)
          BY <5>2
        <5> QED
          BY <4>1, <5>3 DEF first
      <4>2. CASE ~IsNote(s, n)
        BY <4>2
      <4> QED
        BY <4>1, <4>2
    <3> HIDE DEF first
    <3>7. \A p \in n..L : p = n \/ p \in n + 1 .. L
      BY <1>1, <3>4
    <3>8. F \in [n..L -> Seq(Nat)]
      BY <3>5, <3>6, <3>7
    <3>9. F[n] = first /\ \A p \in n + 1 .. L : F[p] = h[p]
      BY <1>1, <3>4
    <3> HIDE DEF F
    <3>10. ASSUME NEW p \in n..L
           PROVE  F[p] = IF IsNote(s, p)
                         THEN <<p>> \o F[p + Advance(s, p)] ELSE <<>>
      <4>1. p \in Nat /\ p >= n
        BY <1>1, <3>4
      <4>2. IsNote(s, p) => p + Advance(s, p) \in n + 1 .. L
        <5> SUFFICES ASSUME IsNote(s, p)
                     PROVE  p + Advance(s, p) \in n + 1 .. L
          OBVIOUS
        <5> DEFINE q == p + Advance(s, p)
        <5>1. q \in p + 3 .. L
          BY <4>1, NoteGoesOn DEF L
        <5> HIDE DEF q
        <5>2. q \in n + 1 .. L
          BY <1>1, <3>4, <4>1, <5>1
        <5> QED
          BY <5>2 DEF q
      <4>3. IsNote(s, p) => F[p + Advance(s, p)] = h[p + Advance(s, p)]
        BY <3>9, <4>2
      <4>4. CASE p = n
        BY <3>9, <4>3, <4>4 DEF first
      <4>5. CASE p \in n + 1 .. L
        BY <3>5, <3>9, <4>3, <4>5
      <4> QED
        BY <3>7, <4>4, <4>5
    <3>11. F \in From(m)
      BY <3>8, <3>10 DEF From, n
    <3> QED
      BY <2>2, <3>11
  <2> QED
    BY <2>3, <2>4
<1>3. L \in 0..L /\ L - L = 0
  BY <1>1
<1>4. From(L) # {}
  BY <1>2, <1>3
<1> QED
  BY <1>3, <1>4 DEF Walks

LEMMA PositionsWalk ==
  ASSUME NEW s \in Seq(Nat)
  PROVE  \E F : Walks(F, s) /\ NotePositions(s) = F[0]
<1> DEFINE W(F) == F = [p \in Nat |->
                          IF p + 3 <= Len(s) /\ NoteFits(s, p)
                          THEN <<p>> \o F[p + Advance(s, p)] ELSE <<>>]
           From == CHOOSE F : W(F)
<1>1. NotePositions(s) = From[0]
  BY Zenon DEF NotePositions
<1>2. PICK h \in [0 .. Len(s) -> Seq(Nat)] : Walks(h, s)
  BY WalksExist
<1> DEFINE L == Len(s)
           F == [p \in Nat |-> IF p <= L THEN h[p] ELSE <<>>]
<1>3. ASSUME NEW p \in Nat
      PROVE  F[p] = IF IsNote(s, p) THEN <<p>> \o F[p + Advance(s, p)] ELSE <<>>
  <2>1. L \in Nat
    OBVIOUS
  <2>2. CASE p <= L
    <3>1. F[p] = h[p] /\ p \in 0 .. Len(s)
      BY <2>1, <2>2
    <3>2. h[p] = IF IsNote(s, p) THEN <<p>> \o h[p + Advance(s, p)] ELSE <<>>
      BY <1>2, <3>1 DEF Walks
    <3>3. IsNote(s, p) => F[p + Advance(s, p)] = h[p + Advance(s, p)]
      <4> SUFFICES ASSUME IsNote(s, p)
                   PROVE  F[p + Advance(s, p)] = h[p + Advance(s, p)]
        OBVIOUS
      <4> DEFINE q == p + Advance(s, p)
      <4>1. q \in p + 3 .. L
        BY NoteGoesOn
      <4> HIDE DEF q
      <4>2. q \in Nat /\ q <= L
        BY <2>1, <4>1
      <4>3. F[q] = h[q]
        BY <4>2
      <4> QED
        BY <4>3 DEF q
    <3> HIDE DEF F
    <3> QED
      BY <3>1, <3>2, <3>3
  <2>3. CASE ~(p <= L)
    <3>1. ~IsNote(s, p)
      BY <2>1, <2>3 DEF IsNote
    <3>2. F[p] = <<>>
      BY <2>3
    <3> HIDE DEF F
    <3> QED
      BY <3>1, <3>2
  <2> QED
    BY <2>2, <2>3
<1>4. W(F)
  <2>1. F = [p \in Nat |-> F[p]]
    OBVIOUS
  <2> HIDE DEF F
  <2> QED
    BY <1>3, <2>1, Zenon DEF IsNote
<1>5. W(From)
  <2> HIDE DEF W, F
  <2> QED
    BY <1>4
<1> HIDE DEF From
<1>6. \A p \in 0 .. Len(s) : p \in Nat
  OBVIOUS
<1>7. Walks(From, s)
  BY <1>5, <1>6, Zenon DEF Walks, IsNote
<1> QED
  BY <1>1, <1>7

(* The positions are those of notes.                                       *)
LEMMA PositionsInside ==
  ASSUME NEW s \in Seq(Nat)
  PROVE  /\ NotePositions(s) \in Seq(Nat)
         /\ \A q \in Range0(NotePositions(s)) : q \in Nat /\ IsNote(s, q)
<1> DEFINE L == Len(s)
<1>1. PICK F : Walks(F, s) /\ NotePositions(s) = F[0]
  BY PositionsWalk
<1> DEFINE Fine(list) ==
             list \in Seq(Nat) /\ \A i \in 1 .. Len(list) : IsNote(s, list[i])
           bad == {m \in 0..L : ~Fine(F[L - m])}
<1>2. L \in Nat
  OBVIOUS
<1>3. ASSUME bad # {}
      PROVE  FALSE
  <2>1. PICK m \in bad : \A o \in bad : m <= o
    <3>1. bad \in SUBSET Nat
      BY <1>2
    <3> HIDE DEF bad
    <3> QED
      BY <1>3, <3>1, LeastElement
  <2> DEFINE p == L - m
  <2>2. m \in 0..L /\ ~Fine(F[p])
    OBVIOUS
  <2>3. p \in 0..L /\ p \in Nat
    BY <1>2, <2>2
  <2>4. F[p] = IF IsNote(s, p) THEN <<p>> \o F[p + Advance(s, p)] ELSE <<>>
    BY <1>1, <2>3 DEF Walks
  <2>5. IsNote(s, p)
    BY <2>2, <2>4
  <2> DEFINE q == p + Advance(s, p)
  <2>6. q \in p + 3 .. L
    BY <2>3, <2>5, NoteGoesOn
  <2>7. L - q \in 0..L /\ ~(m <= L - q) /\ L - (L - q) = q
    BY <1>2, <2>2, <2>3, <2>6
  <2>8. Fine(F[q])
    BY <2>1, <2>7
  <2> HIDE DEF p, q, bad
  <2>9. Fine(<<p>> \o F[q])
    <3> DEFINE rest == F[q]
    <3>1. rest \in Seq(Nat) /\ <<p>> \in Seq(Nat) /\ Len(<<p>>) = 1
      BY <2>3, <2>8
    <3>2. \A i \in 1 .. Len(rest) : IsNote(s, rest[i])
      BY <2>8
    <3> HIDE DEF rest
    <3>3. /\ <<p>> \o rest \in Seq(Nat) /\ Len(<<p>> \o rest) = 1 + Len(rest)
          /\ (<<p>> \o rest)[1] = p /\ Len(rest) \in Nat
          /\ \A i \in 1 .. Len(rest) : (<<p>> \o rest)[1 + i] = rest[i]
      BY <3>1
    <3>4. ASSUME NEW i \in 1 .. 1 + Len(rest), i # 1
          PROVE  i - 1 \in 1 .. Len(rest) /\ 1 + (i - 1) = i
      BY <3>3, <3>4
    <3>5. \A i \in 1 .. 1 + Len(rest) : IsNote(s, (<<p>> \o rest)[i])
      BY <2>5, <3>2, <3>3, <3>4
    <3> QED
      BY <3>3, <3>5 DEF rest
  <2> QED
    BY <2>2, <2>4, <2>5, <2>9 DEF q
<1>4. L \in 0..L /\ L - L = 0
  BY <1>2
<1>5. Fine(F[0])
  BY <1>3, <1>4
<1>6. \A q \in Range0(F[0]) : q \in Nat /\ IsNote(s, q)
  <2> DEFINE list == F[0]
  <2>1. list \in Seq(Nat) /\ \A i \in 1 .. Len(list) : IsNote(s, list[i])
    BY <1>5
  <2> HIDE DEF list
  <2>2. ASSUME NEW i \in DOMAIN list
        PROVE  list[i] \in Nat /\ IsNote(s, list[i])
    <3>1. i \in 1 .. Len(list) /\ list[i] \in Nat
      BY <2>1
    <3> QED
      BY <2>1, <3>1, Zenon
  <2> QED
    BY <2>2 DEF Range0, list
<1> QED
  BY <1>1, <1>5, <1>6

LEMMA LastOf ==
  ASSUME NEW S, NEW x \in S, NEW rest \in Seq(S)
  PROVE  /\ <<x>> \o rest # <<>> /\ Len(<<x>> \o rest) = 1 + Len(rest)
         /\ (<<x>> \o rest)[Len(<<x>> \o rest)]
              = IF rest = <<>> THEN x ELSE rest[Len(rest)]
<1>1. /\ <<x>> \in Seq(S) /\ Len(<<x>>) = 1 /\ Len(rest) \in Nat
      /\ Len(<<x>> \o rest) = 1 + Len(rest)
      /\ (<<x>> \o rest)[1] = x
      /\ \A i \in 1 .. Len(rest) : (<<x>> \o rest)[1 + i] = rest[i]
  OBVIOUS
<1>2. CASE rest = <<>>
  <2>1. Len(rest) = 0
    BY <1>2
  <2> QED
    BY <1>1, <1>2, <2>1
<1>3. CASE rest # <<>>
  <2>1. Len(rest) \in 1 .. Len(rest)
    BY <1>1, <1>3, EmptySeq
  <2> QED
    BY <1>1, <1>3, <2>1
<1> QED
  BY <1>2, <1>3

(* A note behind a section that holds nothing but notes                    *)
IsAppendedNote(s, c) ==
  /\ c \in Seq(Nat) /\ IsNote(s \o c, Len(s))
  /\ Advance(s \o c, Len(s)) = Len(c)

LEMMA WordsKeep ==
  ASSUME NEW s \in Seq(Nat), NEW c \in Seq(Nat), NEW p \in Nat,
         p + 3 <= Len(s)
  PROVE  /\ Word(s \o c, p) = Word(s, p)
         /\ Word(s \o c, p + 1) = Word(s, p + 1)
         /\ Word(s \o c, p + 2) = Word(s, p + 2)
         /\ Advance(s \o c, p) = Advance(s, p)
         /\ IsNote(s, p) => IsNote(s \o c, p)
<1>1. p + 1 \in 1..Len(s) /\ (p + 1) + 1 \in 1..Len(s)
      /\ (p + 2) + 1 \in 1..Len(s) /\ Len(s) \in Nat
  OBVIOUS
<1>2. Len(s \o c) = Len(s) + Len(c) /\ Len(c) \in Nat
      /\ \A i \in 1 .. Len(s) : (s \o c)[i] = s[i]
  BY Appended
<1> DEFINE t == s \o c
<1> HIDE DEF t
<1>3. /\ Word(t, p) = Word(s, p) /\ Word(t, p + 1) = Word(s, p + 1)
      /\ Word(t, p + 2) = Word(s, p + 2)
  BY <1>1, <1>2 DEF Word, t
<1>4. Advance(t, p) = Advance(s, p)
  BY <1>3 DEF Advance
<1>5. Advance(s, p) \in Nat /\ Word(s, p) \in Nat /\ Word(s, p + 1) \in Nat
  BY Advances
<1>6. Size(s) \in Nat /\ Size(t) \in Nat /\ Size(s) <= Size(t)
      /\ Len(t) \in Nat /\ Len(s) <= Len(t)
  BY <1>1, <1>2 DEF Size, t
<1>7. ASSUME IsNote(s, p)
      PROVE  IsNote(t, p)
  <2> DEFINE x == Word(s, p)
             y == Word(s, p + 1)
             q == Advance(s, p)
             S == Size(s)
             T == Size(t)
  <2>1. /\ IsNote(s, p) <=> p + 3 <= Len(s) /\ x < S /\ y < S /\ p + q <= Len(s)
        /\ IsNote(t, p) <=> p + 3 <= Len(t) /\ x < T /\ y < T /\ p + q <= Len(t)
    BY <1>3, <1>4, Zenon DEF IsNote, NoteFits
  <2>2. /\ x \in Nat /\ y \in Nat /\ q \in Nat /\ S \in Nat /\ T \in Nat
        /\ S <= T
    BY <1>5, <1>6
  <2> HIDE DEF x, y, q, S, T
  <2>3. p + q \in Nat
    BY <2>2
  <2>4. /\ p + 3 <= Len(s) => p + 3 <= Len(t)
        /\ x < S => x < T
        /\ y < S => y < T
        /\ p + q <= Len(s) => p + q <= Len(t)
    BY <1>1, <1>6, <2>2, <2>3
  <2>5. p + 3 <= Len(s) /\ x < S /\ y < S /\ p + q <= Len(s)
    BY <1>7, <2>1
  <2>6. p + 3 <= Len(t) /\ x < T /\ y < T /\ p + q <= Len(t)
    BY <2>4, <2>5
  <2> QED
    BY <2>1, <2>6
<1> QED
  BY <1>3, <1>4, <1>7 DEF t

LEMMA PositionsExtend ==
  ASSUME NEW s \in Seq(Nat), OnlyNotes(s), NEW c, IsAppendedNote(s, c)
  PROVE  /\ NotePositions(s \o c) = Append(NotePositions(s), Len(s))
         /\ OnlyNotes(s \o c)
<1> DEFINE L == Len(s)
           t == s \o c
<1>1. /\ c \in Seq(Nat) /\ t \in Seq(Nat) /\ L \in Nat /\ Len(c) \in Nat
      /\ Len(t) = L + Len(c) /\ IsNote(t, L) /\ Advance(t, L) = Len(c)
      /\ L + 3 <= Len(t)
  BY Appended DEF IsAppendedNote, IsNote
<1>2. PICK F : Walks(F, s) /\ NotePositions(s) = F[0]
  BY PositionsWalk
<1>3. PICK G : Walks(G, t) /\ NotePositions(t) = G[0]
  BY <1>1, PositionsWalk
<1> DEFINE Ends(p) == L = IF F[p] = <<>> THEN p
                          ELSE F[p][Len(F[p])] + Advance(s, F[p][Len(F[p])])
           Fine(p) == /\ F[p] \in Seq(Nat)
                      /\ Ends(p) => G[p] = F[p] \o <<L>>
           bad == {m \in 0..L : ~Fine(L - m)}
<1>4. G[L] = <<L>>
  <2>1. L \in 0 .. Len(t) /\ Len(t) \in 0 .. Len(t) /\ ~IsNote(t, Len(t))
    BY <1>1 DEF IsNote
  <2>2. G[L] = <<L>> \o G[Len(t)] /\ G[Len(t)] = <<>>
    BY <1>1, <1>3, <2>1 DEF Walks
  <2> QED
    BY <2>2
<1>5. ASSUME bad # {}
      PROVE  FALSE
  <2>1. PICK m \in bad : \A o \in bad : m <= o
    <3>1. bad \in SUBSET Nat
      BY <1>1
    <3> HIDE DEF bad
    <3> QED
      BY <1>5, <3>1, LeastElement
  <2> DEFINE p == L - m
  <2>2. m \in 0..L /\ ~Fine(p)
    OBVIOUS
  <2>3. p \in 0..L /\ p \in Nat /\ p \in 0 .. Len(t)
    BY <1>1, <2>2
  <2>4. /\ F[p] = IF IsNote(s, p) THEN <<p>> \o F[p + Advance(s, p)] ELSE <<>>
        /\ G[p] = IF IsNote(t, p) THEN <<p>> \o G[p + Advance(t, p)] ELSE <<>>
    BY <1>2, <1>3, <2>3 DEF Walks
  <2>5. CASE ~IsNote(s, p)
    <3>1. F[p] = <<>> /\ (Ends(p) => p = L)
      BY <2>4, <2>5
    <3>2. F[p] \in Seq(Nat) /\ (Ends(p) => G[p] = F[p] \o <<L>>)
      BY <1>1, <1>4, <3>1
    <3> QED
      BY <2>2, <3>2
  <2>6. CASE IsNote(s, p)
    <3> DEFINE q == p + Advance(s, p)
    <3>1. q \in p + 3 .. L /\ p + 3 <= L
      BY <2>3, <2>6, NoteGoesOn DEF IsNote
    <3>2. IsNote(t, p) /\ Advance(t, p) = Advance(s, p)
      BY <1>1, <2>3, <2>6, <3>1, WordsKeep
    <3>3. F[p] = <<p>> \o F[q] /\ G[p] = <<p>> \o G[q]
      BY <2>4, <2>6, <3>2
    <3> HIDE DEF q, L
    <3>4. L - q \in 0..L /\ ~(m <= L - q) /\ L - (L - q) = q
      <4>1. /\ L \in Nat /\ m \in 0..L /\ p \in Nat /\ q \in p + 3 .. L
            /\ p = L - m
        BY <1>1, <2>2, <2>3, <3>1
      <4> HIDE DEF p
      <4> QED
        BY <4>1
    <3>5. Fine(q)
      BY <2>1, <3>4
    <3> HIDE DEF bad
    <3>6. F[q] \in Seq(Nat)
      BY <3>5
    <3>7. Ends(p) => Ends(q)
      <4>1. /\ F[p] # <<>>
            /\ F[p][Len(F[p])] = IF F[q] = <<>> THEN p ELSE F[q][Len(F[q])]
        BY <2>3, <3>3, <3>6, LastOf
      <4> QED
        BY <4>1 DEF q
    <3>8. Ends(p) => G[q] = F[q] \o <<L>>
      BY <3>5, <3>7
    <3> HIDE DEF p, Ends
    <3> DEFINE rest == F[q]
    <3>9. <<p>> \in Seq(Nat) /\ <<L>> \in Seq(Nat)
      BY <1>1, <2>3
    <3>10. <<p>> \o rest \in Seq(Nat)
           /\ <<p>> \o (rest \o <<L>>) = (<<p>> \o rest) \o <<L>>
      <4>1. rest \in Seq(Nat)
        BY <3>6
      <4> HIDE DEF rest
      <4> QED
        BY <3>9, <4>1, ConcatAssociative
    <3>11. F[p] \in Seq(Nat) /\ (Ends(p) => G[p] = F[p] \o <<L>>)
      BY <3>3, <3>8, <3>10
    <3> QED
      BY <2>2, <3>11
  <2> QED
    BY <2>5, <2>6
<1>6. L \in 0..L /\ L - L = 0
  BY <1>1
<1>7. Fine(0)
  BY <1>5, <1>6
<1>8. Ends(0)
  BY <1>2 DEF OnlyNotes
<1>9. G[0] = F[0] \o <<L>> /\ F[0] \in Seq(Nat)
  BY <1>7, <1>8
<1>10. G[0] = Append(F[0], L)
  BY <1>1, <1>9
<1> HIDE DEF L, t
<1>11. G[0] # <<>> /\ G[0][Len(G[0])] = L
  <2> DEFINE old == F[0]
  <2>1. old \in Seq(Nat) /\ L \in Nat /\ G[0] = Append(old, L)
    BY <1>1, <1>9, <1>10
  <2> HIDE DEF old
  <2>2. Append(old, L) # <<>> /\ Append(old, L)[Len(Append(old, L))] = L
    BY <2>1, AppendedLast
  <2> QED
    BY <2>1, <2>2, Zenon
<1>12. OnlyNotes(t)
  BY <1>1, <1>3, <1>11 DEF OnlyNotes
<1> QED
  BY <1>2, <1>3, <1>10, <1>12 DEF L, t

-----------------------------------------------------------------------------
(* The contents of notes                                                   *)

(* A text that lies in the section                                         *)
LEMMA TextsInside ==
  ASSUME NEW s \in Seq(Nat), NEW at \in Nat, NEW size \in Nat,
         at + WordsOf(size) <= Len(s)
  PROVE  TextAt(s, at, size) =
           [size |-> size,
            words |-> [i \in 1 .. WordsOf(size) |-> s[at + i]]]
<1> DEFINE n == WordsOf(size)
<1>1. n \in Nat
  BY WordsOfText
<1>2. Min({at + n, Len(s)}) = at + n
  <2> DEFINE T == {at + n, Len(s)}
  <2>1. T \in SUBSET Nat /\ at + n \in T /\ \A y \in T : at + n <= y
    BY <1>1
  <2> HIDE DEF T
  <2>2. Min(T) = at + n
    BY <2>1, MinIs
  <2> QED
    BY <2>2 DEF T
<1>3. SubSeq(s, at + 1, at + n) = [i \in 1 .. n |-> s[at + i]]
  <2> HIDE DEF n
  <2> QED
    BY <1>1 DEF SubSeq
<1> QED
  BY <1>2, <1>3 DEF TextAt

LEMMA TextsKeep ==
  ASSUME NEW s \in Seq(Nat), NEW c \in Seq(Nat), NEW at \in Nat,
         NEW size \in Nat, at + WordsOf(size) <= Len(s)
  PROVE  TextAt(s \o c, at, size) = TextAt(s, at, size)
<1> DEFINE t == s \o c
           n == WordsOf(size)
<1>1. n \in Nat /\ t \in Seq(Nat) /\ Len(t) = Len(s) + Len(c)
      /\ Len(s) \in Nat /\ Len(c) \in Nat
      /\ \A i \in 1 .. Len(s) : t[i] = s[i]
  <2>1. n \in Nat
    BY WordsOfText
  <2> HIDE DEF n
  <2> QED
    BY <2>1, Appended
<1> HIDE DEF t
<1>2. at + n <= Len(t) /\ \A i \in 1 .. n : at + i \in 1 .. Len(s)
  BY <1>1
<1>3. [i \in 1 .. n |-> t[at + i]] = [i \in 1 .. n |-> s[at + i]]
  BY <1>1, <1>2
<1>4. TextAt(s, at, size) = [size |-> size, words |-> [i \in 1 .. n |-> s[at + i]]]
  BY TextsInside
<1>5. TextAt(t, at, size) = [size |-> size, words |-> [i \in 1 .. n |-> t[at + i]]]
  BY <1>1, <1>2, TextsInside
<1> QED
  BY <1>3, <1>4, <1>5 DEF t

LEMMA NotesKeep ==
  ASSUME NEW s \in Seq(Nat), NEW c \in Seq(Nat), NEW p \in Nat, IsNote(s, p)
  PROVE  NoteAt(s \o c, p) = NoteAt(s, p)
<1> DEFINE t == s \o c
           namesz == Word(s, p)
           descsz == Word(s, p + 1)
           at2 == p + 3 + WordsOf(namesz)
<1>1. p + 3 <= Len(s) /\ p + Advance(s, p) <= Len(s) /\ Len(s) \in Nat
  BY DEF IsNote, NoteFits
<1>2. /\ namesz \in Nat /\ descsz \in Nat
      /\ Advance(s, p) = 3 + WordsOf(namesz) + WordsOf(descsz)
  BY <1>1, Advances
<1>3. /\ Word(t, p) = namesz /\ Word(t, p + 1) = descsz
      /\ Word(t, p + 2) = Word(s, p + 2)
  BY <1>1, WordsKeep
<1>4. WordsOf(namesz) \in Nat /\ WordsOf(descsz) \in Nat
  BY <1>2, WordsOfText
<1> HIDE DEF t, namesz, descsz
<1>5. /\ p + 3 \in Nat /\ (p + 3) + WordsOf(namesz) <= Len(s)
      /\ at2 \in Nat /\ at2 + WordsOf(descsz) <= Len(s)
  <2> DEFINE a == WordsOf(namesz)
             b == WordsOf(descsz)
             adv == Advance(s, p)
  <2>1. a \in Nat /\ b \in Nat /\ adv = 3 + a + b /\ p + adv <= Len(s)
    BY <1>1, <1>2, <1>4
  <2> HIDE DEF a, b, adv
  <2>2. (p + 3) + a <= Len(s) /\ (p + 3 + a) + b <= Len(s) /\ p + 3 + a \in Nat
    BY <1>1, <2>1
  <2> QED
    BY <2>2 DEF a, b
<1>6. TextAt(t, p + 3, namesz) = TextAt(s, p + 3, namesz)
  BY <1>2, <1>5, TextsKeep DEF t
<1>7. TextAt(t, at2, descsz) = TextAt(s, at2, descsz)
  <2> HIDE DEF at2
  <2> QED
    BY <1>2, <1>5, TextsKeep DEF t
<1>8. NoteAt(t, p) = [type |-> Word(s, p + 2), name |-> TextAt(t, p + 3, namesz),
                      desc |-> TextAt(t, at2, descsz)]
  BY <1>3, Zenon DEF NoteAt
<1>9. NoteAt(s, p) = [type |-> Word(s, p + 2), name |-> TextAt(s, p + 3, namesz),
                      desc |-> TextAt(s, at2, descsz)]
  BY Zenon DEF NoteAt, namesz, descsz
<1> QED
  BY <1>6, <1>7, <1>8, <1>9, Zenon DEF t

(* What add_note() appends for a text                                      *)
LEMMA TextPadded ==
  ASSUME NEW x \in NoteText
  PROVE  /\ x.size \in Nat /\ x.words \in Seq(Nat)
         /\ Len(x.words) = WordsOf(x.size)
         /\ SubSeq(x.words, 1, WordsOf(x.size)) = x.words
         /\ x = [size |-> x.size, words |-> x.words]
<1>1. /\ x.size \in Nat /\ x.words \in Seq(Nat)
      /\ 4 * Len(x.words) \in x.size .. x.size + 3
      /\ x = [size |-> x.size, words |-> x.words]
  BY DEF NoteText
<1>2. WordsOf(x.size) \in Nat /\ 4 * WordsOf(x.size) \in x.size .. x.size + 3
  BY <1>1, WordsOfText
<1> DEFINE n == x.size
           w == x.words
           m == WordsOf(n)
<1>3. w \in Seq(Nat) /\ n \in Nat /\ m \in Nat /\ 4 * m \in n .. n + 3
      /\ Len(w) \in Nat /\ 4 * Len(w) \in n .. n + 3
  BY <1>1, <1>2
<1> HIDE DEF n, w, m
<1>4. Len(w) = m
  BY <1>3
<1>5. SubSeq(w, 1, m) = w
  BY <1>3, <1>4
<1> QED
  BY <1>1, <1>4, <1>5 DEF n, w, m

LEMMA EncodedNotes ==
  ASSUME NEW n \in NoteRecord, NEW isNull \in BOOLEAN
  PROVE  LET c == EncodedNote(n, isNull)
             a == Len(n.name.words)
             b == IF isNull THEN 0 ELSE Len(n.desc.words)
         IN  /\ c \in Seq(Nat) /\ Len(c) = 3 + a + b
             /\ c[1] = n.name.size /\ c[2] = n.desc.size /\ c[3] = n.type
             /\ \A i \in 1 .. a : c[3 + i] = n.name.words[i]
             /\ \A i \in 1 .. b : c[3 + a + i] = n.desc.words[i]
<1>1. n.name \in NoteText /\ n.desc \in NoteText /\ n.type \in Nat
  BY DEF NoteRecord
<1> DEFINE head == <<n.name.size, n.desc.size, n.type>>
           name == n.name.words
           desc == IF isNull THEN <<>> ELSE n.desc.words
<1>2. EncodedNote(n, isNull) = head \o name \o desc
  BY <1>1, TextPadded DEF EncodedNote
<1>3. /\ name \in Seq(Nat) /\ desc \in Seq(Nat)
      /\ n.name.size \in Nat /\ n.desc.size \in Nat
  BY <1>1, TextPadded
<1>4. Len(desc) = IF isNull THEN 0 ELSE Len(n.desc.words)
  OBVIOUS
<1>5. /\ head \in Seq(Nat) /\ Len(head) = 3 /\ head[1] = n.name.size
      /\ head[2] = n.desc.size /\ head[3] = n.type
  BY <1>1, <1>3
<1>6. \A i \in 1 .. Len(desc) : desc[i] = n.desc.words[i]
  OBVIOUS
<1> HIDE DEF head, name, desc
<1> DEFINE hn == head \o name
<1>7. /\ hn \in Seq(Nat) /\ Len(hn) = 3 + Len(name) /\ Len(name) \in Nat
      /\ hn[1] = head[1] /\ hn[2] = head[2] /\ hn[3] = head[3]
      /\ \A i \in 1 .. Len(name) : hn[3 + i] = name[i]
  <2>1. /\ hn \in Seq(Nat) /\ Len(hn) = Len(head) + Len(name)
        /\ Len(name) \in Nat
        /\ \A i \in 1 .. Len(head) : hn[i] = head[i]
        /\ \A i \in 1 .. Len(name) : hn[Len(head) + i] = name[i]
    <3>1. head \in Seq(Nat) /\ name \in Seq(Nat)
      BY <1>3, <1>5
    <3> QED
      BY <3>1, Appended
  <2> HIDE DEF hn
  <2> QED
    BY <1>5, <2>1
<1> HIDE DEF hn
<1> DEFINE c == hn \o desc
<1>8. /\ c \in Seq(Nat) /\ Len(c) = 3 + Len(name) + Len(desc)
      /\ c[1] = head[1] /\ c[2] = head[2] /\ c[3] = head[3]
      /\ \A i \in 1 .. Len(name) : c[3 + i] = name[i]
      /\ \A i \in 1 .. Len(desc) : c[(3 + Len(name)) + i] = desc[i]
  <2>1. /\ c \in Seq(Nat) /\ Len(c) = Len(hn) + Len(desc)
        /\ \A i \in 1 .. Len(hn) : c[i] = hn[i]
        /\ \A i \in 1 .. Len(desc) : c[Len(hn) + i] = desc[i]
        /\ Len(desc) \in Nat
    <3>1. hn \in Seq(Nat) /\ desc \in Seq(Nat)
      BY <1>3, <1>7
    <3> QED
      BY <3>1, Appended
  <2>2. /\ 1 \in 1 .. Len(hn) /\ 2 \in 1 .. Len(hn) /\ 3 \in 1 .. Len(hn)
        /\ \A i \in 1 .. Len(name) : 3 + i \in 1 .. Len(hn)
    BY <1>7
  <2> HIDE DEF c
  <2> QED
    BY <1>7, <2>1, <2>2
<1> HIDE DEF c
<1>9. EncodedNote(n, isNull) = c
  BY <1>2 DEF hn, c
<1> QED
  BY <1>4, <1>5, <1>6, <1>8, <1>9 DEF name

(* What add_note() appends is one note, and the note it was asked for.     *)
LEMMA NoteAppended ==
  ASSUME NEW s \in Seq(Nat), NEW n \in NoteRecord, NEW isNull \in BOOLEAN,
         isNull => n.desc.size = 0
  PROVE  LET c == EncodedNote(n, isNull) IN
         /\ IsAppendedNote(s, c)
         /\ NoteAt(s \o c, Len(s)) = n
<1> DEFINE c == EncodedNote(n, isNull)
           t == s \o c
           L == Len(s)
           a == Len(n.name.words)
           b == Len(n.desc.words)
           namesz == n.name.size
           descsz == n.desc.size
<1>1. /\ n.name \in NoteText /\ n.desc \in NoteText /\ n.type \in Nat
      /\ n = [type |-> n.type, name |-> n.name, desc |-> n.desc]
  BY DEF NoteRecord
<1>2. /\ namesz \in Nat /\ n.name.words \in Seq(Nat) /\ a = WordsOf(namesz)
      /\ n.name = [size |-> namesz, words |-> n.name.words]
  BY <1>1, TextPadded
<1>3. /\ descsz \in Nat /\ n.desc.words \in Seq(Nat) /\ b = WordsOf(descsz)
      /\ n.desc = [size |-> descsz, words |-> n.desc.words]
  BY <1>1, TextPadded
<1>4. /\ a \in Nat /\ b \in Nat /\ namesz <= 4 * a /\ descsz <= 4 * b
  <2>1. a \in Nat /\ 4 * a \in namesz .. namesz + 3
    BY <1>2, WordsOfText
  <2>2. b \in Nat /\ 4 * b \in descsz .. descsz + 3
    BY <1>3, WordsOfText
  <2> HIDE DEF a, b, namesz, descsz
  <2> QED
    BY <1>2, <1>3, <2>1, <2>2
<1>5. isNull => b = 0
  <2>1. 4 * WordsOf(0) \in 0 .. 0 + 3 /\ WordsOf(0) \in Nat
    BY WordsOfText
  <2>2. WordsOf(0) = 0
    BY <2>1
  <2> QED
    BY <1>3, <2>2
<1>6. /\ c \in Seq(Nat) /\ Len(c) = 3 + a + b
      /\ c[1] = namesz /\ c[2] = descsz /\ c[3] = n.type
      /\ \A i \in 1 .. a : c[3 + i] = n.name.words[i]
      /\ \A i \in 1 .. b : c[3 + a + i] = n.desc.words[i]
  <2> DEFINE m == IF isNull THEN 0 ELSE b
  <2>1. m = b
    BY <1>5
  <2>2. /\ c \in Seq(Nat) /\ Len(c) = 3 + a + m
        /\ c[1] = namesz /\ c[2] = descsz /\ c[3] = n.type
        /\ \A i \in 1 .. a : c[3 + i] = n.name.words[i]
        /\ \A i \in 1 .. m : c[3 + a + i] = n.desc.words[i]
    BY EncodedNotes, Zenon
  <2> HIDE DEF m, c, a, b, namesz, descsz
  <2> QED
    BY <2>1, <2>2
<1> HIDE DEF c
<1>7. /\ t \in Seq(Nat) /\ L \in Nat /\ Len(t) = L + Len(c)
      /\ \A i \in 1 .. Len(c) : t[L + i] = c[i]
  <2>1. c \in Seq(Nat)
    BY <1>6
  <2> QED
    BY <2>1, Appended
<1> HIDE DEF t, L, a, b, namesz, descsz
<1>8. /\ Len(t) = L + 3 + a + b
      /\ Word(t, L) = namesz /\ Word(t, L + 1) = descsz
      /\ Word(t, L + 2) = n.type
  <2>1. 1 \in 1 .. Len(c) /\ 2 \in 1 .. Len(c) /\ 3 \in 1 .. Len(c)
    BY <1>4, <1>6
  <2>2. t[L + 1] = c[1] /\ t[L + 2] = c[2] /\ t[L + 3] = c[3]
    BY <1>7, <2>1
  <2>3. (L + 1) + 1 = L + 2 /\ (L + 2) + 1 = L + 3
    BY <1>7
  <2> QED
    BY <1>4, <1>6, <1>7, <2>2, <2>3 DEF Word
<1>9. Advance(t, L) = 3 + a + b
  BY <1>2, <1>3, <1>8 DEF Advance
<1>10. IsNote(t, L)
  <2>1. Size(t) = 4 * (L + 3 + a + b)
    BY <1>8 DEF Size
  <2> DEFINE z == Size(t)
  <2>2. z = 4 * (L + 3 + a + b)
    BY <2>1
  <2> HIDE DEF z
  <2>3. namesz < z /\ descsz < z
    <3>1. /\ namesz \in Nat /\ descsz \in Nat /\ a \in Nat /\ b \in Nat
          /\ L \in Nat /\ namesz <= 4 * a /\ descsz <= 4 * b
      BY <1>2, <1>3, <1>4, <1>7
    <3>2. z = 4 * L + 12 + 4 * a + 4 * b
      BY <2>2, <3>1
    <3> QED
      BY <3>1, <3>2
  <2>4. L + 3 <= L + 3 + a + b /\ L + (3 + a + b) <= L + 3 + a + b
    BY <1>4, <1>7
  <2> QED
    BY <1>8, <1>9, <2>3, <2>4 DEF IsNote, NoteFits, z
<1>11. TextAt(t, L + 3, namesz) = n.name
  <2>1. (L + 3) + WordsOf(namesz) <= Len(t) /\ L + 3 \in Nat
    <3>1. (L + 3) + a <= L + 3 + a + b /\ L + 3 \in Nat
      BY <1>4, <1>7
    <3> QED
      BY <1>2, <1>8, <3>1
  <2>2. TextAt(t, L + 3, namesz) =
          [size |-> namesz, words |-> [i \in 1 .. a |-> t[(L + 3) + i]]]
    BY <1>2, <1>7, <2>1, TextsInside
  <2>3. ASSUME NEW i \in 1 .. a
        PROVE  t[(L + 3) + i] = n.name.words[i]
    <3>1. 3 + i \in 1 .. Len(c) /\ L + (3 + i) = (L + 3) + i
      BY <1>4, <1>6, <1>7
    <3> QED
      BY <1>6, <1>7, <3>1
  <2>4. n.name.words = [i \in 1 .. a |-> n.name.words[i]]
    BY <1>2 DEF a
  <2>5. [i \in 1 .. a |-> t[(L + 3) + i]] = [i \in 1 .. a |-> n.name.words[i]]
    BY <2>3
  <2> QED
    BY <1>2, <2>2, <2>4, <2>5, Zenon
<1>12. TextAt(t, L + 3 + a, descsz) = n.desc
  <2>1. (L + 3 + a) + WordsOf(descsz) <= Len(t) /\ L + 3 + a \in Nat
    <3>1. (L + 3 + a) + b <= L + 3 + a + b /\ L + 3 + a \in Nat
      BY <1>4, <1>7
    <3> QED
      BY <1>3, <1>8, <3>1
  <2>2. TextAt(t, L + 3 + a, descsz) =
          [size |-> descsz, words |-> [i \in 1 .. b |-> t[(L + 3 + a) + i]]]
    BY <1>3, <1>7, <2>1, TextsInside
  <2>3. ASSUME NEW i \in 1 .. b
        PROVE  t[(L + 3 + a) + i] = n.desc.words[i]
    <3>1. 3 + a + i \in 1 .. Len(c) /\ L + (3 + a + i) = (L + 3 + a) + i
      BY <1>4, <1>6, <1>7
    <3> QED
      BY <1>6, <1>7, <3>1
  <2>4. n.desc.words = [i \in 1 .. b |-> n.desc.words[i]]
    BY <1>3 DEF b
  <2>5. [i \in 1 .. b |-> t[(L + 3 + a) + i]] = [i \in 1 .. b |-> n.desc.words[i]]
    BY <2>3
  <2> QED
    BY <1>3, <2>2, <2>4, <2>5, Zenon
<1>13. NoteAt(t, L) = n
  <2>1. NoteAt(t, L) = [type |-> n.type, name |-> TextAt(t, L + 3, namesz),
                        desc |-> TextAt(t, L + 3 + a, descsz)]
    BY <1>2, <1>8, Zenon DEF NoteAt
  <2> QED
    BY <1>1, <1>11, <1>12, <2>1, Zenon
<1>14. IsAppendedNote(s, c)
  BY <1>6, <1>9, <1>10 DEF IsAppendedNote, t, L
<1> QED
  BY <1>13, <1>14 DEF c, t, L

LEMMA NotesExtend ==
  ASSUME NEW s \in Seq(Nat), OnlyNotes(s), NEW n \in NoteRecord,
         NEW isNull \in BOOLEAN, isNull => n.desc.size = 0
  PROVE  LET t == s \o EncodedNote(n, isNull) IN
         /\ NotePositions(t) = Append(NotePositions(s), Len(s))
         /\ OnlyNotes(t)
         /\ Notes(t) = Append(Notes(s), n)
<1> DEFINE c == EncodedNote(n, isNull)
           t == s \o c
           at == NotePositions(s)
           m == Len(at)
<1>1. IsAppendedNote(s, c) /\ NoteAt(t, Len(s)) = n
  BY NoteAppended
<1> HIDE DEF c
<1>2. NotePositions(t) = Append(at, Len(s)) /\ OnlyNotes(t)
  BY <1>1, PositionsExtend
<1>3. /\ at \in Seq(Nat) /\ m \in Nat /\ DOMAIN at = 1 .. m
      /\ \A i \in 1 .. m : at[i] \in Nat /\ IsNote(s, at[i])
      /\ Len(s) \in Nat
  <2>1. at \in Seq(Nat) /\ \A q \in Range0(at) : q \in Nat /\ IsNote(s, q)
    BY PositionsInside
  <2> HIDE DEF at
  <2>2. m \in Nat /\ DOMAIN at = 1 .. m
    BY <2>1
  <2> QED
    BY <2>1, <2>2 DEF Range0
<1>4. \A i \in 1 .. m : NoteAt(t, at[i]) = NoteAt(s, at[i])
  <2> TAKE i \in 1 .. m
  <2>1. at[i] \in Nat /\ IsNote(s, at[i]) /\ c \in Seq(Nat)
    BY <1>1, <1>3 DEF IsAppendedNote
  <2> HIDE DEF at
  <2> QED
    BY <2>1, NotesKeep
<1> DEFINE new == Append(at, Len(s))
<1>5. Notes(t) = [i \in DOMAIN new |-> NoteAt(t, new[i])]
  BY <1>2, Zenon DEF Notes
<1>6. Notes(s) = [i \in 1 .. m |-> NoteAt(s, at[i])]
  BY <1>3, Zenon DEF Notes
<1> HIDE DEF at, t, m
<1>7. /\ DOMAIN new = 1 .. m + 1 /\ new[m + 1] = Len(s)
      /\ \A i \in 1 .. m : new[i] = at[i]
  BY <1>3 DEF m
<1> HIDE DEF new
<1> DEFINE old == [i \in 1 .. m |-> NoteAt(s, at[i])]
           S == {NoteAt(s, at[i]) : i \in 1 .. m} \cup {n}
<1>8. [i \in 1 .. m + 1 |-> NoteAt(t, new[i])] = Append(old, n)
  <2>1. old \in [1 .. m -> S] /\ \A i \in 1 .. m : old[i] = NoteAt(s, at[i])
    OBVIOUS
  <2>2. n \in S
    OBVIOUS
  <2> HIDE DEF old, S
  <2>3. old \in Seq(S) /\ Len(old) = m
    BY <1>3, <2>1, SeqDef, LenProperties
  <2>4. /\ DOMAIN Append(old, n) = 1 .. m + 1 /\ Append(old, n)[m + 1] = n
        /\ \A i \in 1 .. m : Append(old, n)[i] = old[i]
        /\ Append(old, n) = [i \in 1 .. m + 1 |-> Append(old, n)[i]]
    <3>1. /\ Append(old, n) \in Seq(S) /\ Len(Append(old, n)) = m + 1
          /\ Append(old, n)[m + 1] = n
          /\ \A i \in 1 .. m : Append(old, n)[i] = old[i]
      BY <2>2, <2>3, AppendProperties
    <3> DEFINE w == Append(old, n)
    <3> HIDE DEF w
    <3>2. w \in Seq(S) /\ Len(w) = m + 1
      BY <3>1 DEF w
    <3>3. DOMAIN w = 1 .. m + 1 /\ w = [i \in 1 .. m + 1 |-> w[i]]
      BY <3>2
    <3>4. /\ DOMAIN Append(old, n) = 1 .. m + 1
          /\ Append(old, n) = [i \in 1 .. m + 1 |-> Append(old, n)[i]]
      BY <3>3, Zenon DEF w
    <3> QED
      BY <3>1, <3>4, Zenon
  <2>5. \A i \in 1 .. m + 1 : i \in 1 .. m \/ i = m + 1
    BY <1>3
  <2>6. \A i \in 1 .. m + 1 : NoteAt(t, new[i]) = Append(old, n)[i]
    BY <1>1, <1>4, <1>7, <2>1, <2>4, <2>5, Zenon DEF t
  <2> QED
    BY <2>4, <2>6
<1> QED
  BY <1>2, <1>5, <1>6, <1>7, <1>8, Zenon DEF at, t, c, new

-----------------------------------------------------------------------------
(* The attributes                                                          *)

Pairs == Strings \X Strings

(* Where a string is split                                                 *)
LEMMA Splits ==
  ASSUME NEW info \in Strings
  PROVE  Attribute(info) \in Pairs
<1> DEFINE equals == {i \in DOMAIN info : info[i] = "="}
           loc == SplitAt(info)
<1>1. info \in Seq(Characters) /\ Len(info) \in Nat /\ DOMAIN info = 1 .. Len(info)
  BY DEF Strings
<1>2. loc = IF equals = {} THEN 0 ELSE Min(equals)
  BY DEF SplitAt
<1>3. CASE loc = 0
  BY <1>3 DEF Attribute, Pairs
<1>4. CASE loc # 0
  <2>1. equals \in SUBSET Nat /\ equals # {} /\ equals \subseteq 1 .. Len(info)
    BY <1>1, <1>2, <1>4
  <2> HIDE DEF equals
  <2>2. loc \in 1 .. Len(info)
    BY <1>2, <2>1, LeastIsMin
  <2> HIDE DEF loc
  <2>3. /\ SubSeq(info, 1, loc - 1) \in Seq(Characters)
        /\ SubSeq(info, loc + 1, Len(info)) \in Seq(Characters)
    BY <1>1, <2>2
  <2> QED
    BY <1>4, <2>3 DEF Attribute, Pairs, Strings, loc
<1> QED
  BY <1>3, <1>4

LEMMA SplitsAtFirst ==
  ASSUME NEW field \in Strings, NEW value \in Strings, "=" \notin Range0(field)
  PROVE  LET info == field \o <<"=">> \o value IN
         /\ info \in Strings /\ info # <<>>
         /\ Attribute(info) = <<field, value>>
<1> DEFINE n == Len(field)
           m == Len(value)
           info == (field \o <<"=">>) \o value
           equals == {i \in DOMAIN info : info[i] = "="}
<1>1. /\ field \in Seq(Characters) /\ value \in Seq(Characters) /\ <<"=">> \in Seq(Characters)
      /\ n \in Nat /\ m \in Nat
  <2>1. field \in Seq(Characters) /\ value \in Seq(Characters) /\ "=" \in Characters
    BY AccessorsAssumption DEF Strings
  <2> QED
    BY <2>1
<1>2. /\ info \in Seq(Characters) /\ Len(info) = n + 1 + m
      /\ info[n + 1] = "="
      /\ \A i \in 1 .. n : info[i] = field[i]
      /\ \A i \in 1 .. m : info[n + 1 + i] = value[i]
  BY <1>1
<1>3. \A i \in 1 .. n : field[i] # "="
  BY <1>1 DEF Range0
<1> HIDE DEF info, n, m
<1>4. DOMAIN info = 1 .. n + 1 + m
  BY <1>2
<1>5. /\ equals \in SUBSET Nat /\ n + 1 \in equals
      /\ \A i \in equals : n + 1 <= i
  BY <1>1, <1>2, <1>3, <1>4
<1> HIDE DEF equals
<1>6. SplitAt(info) = n + 1
  BY <1>5, MinIs DEF SplitAt, equals
<1>7. SubSeq(info, 1, n) = field
  BY <1>1, <1>2 DEF n
<1>8. SubSeq(info, n + 2, n + 1 + m) = value
  BY <1>1, <1>2 DEF m
<1>9. /\ n + 1 # 0 /\ (n + 1) - 1 = n /\ (n + 1) + 1 = n + 2
      /\ info # <<>>
  BY <1>1, <1>2
<1>10. Attribute(info) = <<field, value>>
  BY <1>2, <1>6, <1>7, <1>8, <1>9 DEF Attribute
<1> QED
  BY <1>2, <1>9, <1>10 DEF info, Strings

(* The attributes that process_section() finds up to each string           *)
Collects(U, s) ==
  /\ U \in [0 .. Len(s) -> Seq(Pairs)] /\ U[0] = <<>>
  /\ \A i \in 1 .. Len(s) :
       U[i] = IF s[i] = <<>> THEN U[i - 1]
              ELSE Append(U[i - 1], Attribute(s[i]))

LEMMA AttributesCollect ==
  ASSUME NEW s \in Seq(Strings)
  PROVE  \E U : Collects(U, s) /\ Attributes(s) = U[Len(s)]
<1> DEFINE m == Len(s)
           W(U) == U = [i \in 0 .. m |->
                          IF i = 0 THEN <<>>
                          ELSE IF s[i] = <<>> THEN U[i - 1]
                          ELSE Append(U[i - 1], Attribute(s[i]))]
           UpTo == CHOOSE U : W(U)
           g == [k \in 1 .. m |->
                   [u \in Seq(Pairs) |->
                      IF s[k] = <<>> THEN u ELSE Append(u, Attribute(s[k]))]]
<1>1. Attributes(s) = UpTo[m]
  BY Zenon DEF Attributes
<1>2. m \in Nat /\ \A k \in 1 .. m : s[k] \in Strings
  OBVIOUS
<1>3. g \in [1 .. m -> [Seq(Pairs) -> Seq(Pairs)]]
  <2>1. ASSUME NEW k \in 1 .. m, NEW u \in Seq(Pairs)
        PROVE  Append(u, Attribute(s[k])) \in Seq(Pairs)
    <3>1. Attribute(s[k]) \in Pairs
      BY <1>2, Splits
    <3> QED
      BY <3>1, AppendProperties
  <2> QED
    BY <2>1
<1>4. <<>> \in Seq(Pairs)
  OBVIOUS
<1>5. \A k \in 1 .. m, u \in Seq(Pairs) :
        g[k][u] = IF s[k] = <<>> THEN u ELSE Append(u, Attribute(s[k]))
  OBVIOUS
<1> HIDE DEF g, m
<1>6. PICK h \in [0 .. m -> Seq(Pairs)] :
        h[0] = <<>> /\ \A k \in 1 .. m : h[k] = g[k][h[k - 1]]
  <2> DEFINE T == Seq(Pairs)
             z == <<>>
  <2>1. m \in Nat /\ z \in T /\ g \in [1 .. m -> [T -> T]]
    BY <1>2, <1>3, <1>4
  <2> HIDE DEF T, z
  <2>2. Steps(T, z, m, g) # {}
    BY <2>1, StepsExist
  <2> QED
    BY <2>2, Zenon DEF Steps, T, z
<1>7. \A k \in 1 .. m :
        h[k] = IF s[k] = <<>> THEN h[k - 1] ELSE Append(h[k - 1], Attribute(s[k]))
  <2> TAKE k \in 1 .. m
  <2>1. h[k - 1] \in Seq(Pairs) /\ h[k] = g[k][h[k - 1]]
    BY <1>2, <1>6
  <2> QED
    BY <1>5, <2>1
<1>8. W(h)
  <2>1. \A k \in 0 .. m : k = 0 \/ (k # 0 /\ k \in 1 .. m)
    BY <1>2
  <2> QED
    BY <1>6, <1>7, <2>1
<1>9. W(UpTo)
  <2> HIDE DEF W
  <2> QED
    BY <1>8
<1> HIDE DEF UpTo
<1>10. UpTo[0] = <<>>
  <2>1. 0 \in 0 .. m
    BY <1>2
  <2> QED
    BY <1>9, <2>1
<1>11. \A k \in 1 .. m :
         UpTo[k] = IF s[k] = <<>> THEN UpTo[k - 1]
                   ELSE Append(UpTo[k - 1], Attribute(s[k]))
  <2>1. \A k \in 1 .. m : k \in 0 .. m /\ k # 0
    BY <1>2
  <2> QED
    BY <1>9, <2>1
<1>12. UpTo = h
  <2> DEFINE bad == {k \in 0 .. m : UpTo[k] # h[k]}
  <2>1. ASSUME bad # {}
        PROVE  FALSE
    <3>1. PICK k \in bad : \A o \in bad : k <= o
      <4>1. bad \in SUBSET Nat
        BY <1>2
      <4> HIDE DEF bad
      <4> QED
        BY <2>1, <4>1, LeastElement
    <3>2. k \in 0 .. m /\ UpTo[k] # h[k]
      OBVIOUS
    <3>3. k # 0
      BY <1>6, <1>10, <3>2
    <3>4. k \in 1 .. m /\ k - 1 \in 0 .. m /\ ~(k <= k - 1)
      BY <1>2, <3>2, <3>3
    <3>5. UpTo[k - 1] = h[k - 1]
      BY <3>1, <3>4
    <3> HIDE DEF bad, W
    <3> QED
      BY <1>7, <1>11, <3>2, <3>4, <3>5
  <2>2. UpTo = [k \in 0 .. m |-> UpTo[k]]
    BY <1>9
  <2> HIDE DEF W
  <2> QED
    BY <1>6, <2>1, <2>2
<1>13. Collects(h, s)
  BY <1>6, <1>7 DEF Collects, m
<1> QED
  BY <1>1, <1>12, <1>13 DEF m

LEMMA AttributesExtend ==
  ASSUME NEW s \in Seq(Strings), NEW x \in Strings, x # <<>>
  PROVE  /\ Attributes(s) \in Seq(Pairs)
         /\ Attributes(s \o <<x>>) = Append(Attributes(s), Attribute(x))
<1> DEFINE m == Len(s)
           t == s \o <<x>>
<1>1. /\ t \in Seq(Strings) /\ Len(t) = m + 1 /\ m \in Nat /\ t[m + 1] = x
      /\ \A i \in 1 .. m : t[i] = s[i]
  OBVIOUS
<1>2. PICK U : Collects(U, s) /\ Attributes(s) = U[m]
  BY AttributesCollect
<1>3. PICK V : Collects(V, t) /\ Attributes(t) = V[m + 1]
  <2> HIDE DEF t
  <2> QED
    BY <1>1, AttributesCollect
<1> HIDE DEF m, t
<1> DEFINE bad == {k \in 0 .. m : U[k] # V[k]}
<1>4. ASSUME bad # {}
      PROVE  FALSE
  <2>1. PICK k \in bad : \A o \in bad : k <= o
    <3>1. bad \in SUBSET Nat
      BY <1>1
    <3> HIDE DEF bad
    <3> QED
      BY <1>4, <3>1, LeastElement
  <2>2. k \in 0 .. m /\ U[k] # V[k]
    OBVIOUS
  <2>3. k # 0
    BY <1>2, <1>3, <2>2 DEF Collects
  <2>4. k \in 1 .. m /\ k \in 1 .. m + 1 /\ k - 1 \in 0 .. m /\ ~(k <= k - 1)
    BY <1>1, <2>2, <2>3
  <2>5. U[k - 1] = V[k - 1]
    BY <2>1, <2>4
  <2>6. /\ U[k] = IF s[k] = <<>> THEN U[k - 1] ELSE Append(U[k - 1], Attribute(s[k]))
        /\ V[k] = IF t[k] = <<>> THEN V[k - 1] ELSE Append(V[k - 1], Attribute(t[k]))
    BY <1>1, <1>2, <1>3, <2>4, Zenon DEF Collects, m
  <2>7. t[k] = s[k]
    BY <1>1, <2>4
  <2> QED
    BY <2>2, <2>5, <2>6, <2>7, Zenon
<1>5. m \in 0 .. m /\ m + 1 \in 1 .. m + 1 /\ (m + 1) - 1 = m
  BY <1>1
<1>6. U[m] = V[m]
  BY <1>4, <1>5
<1>7. V[m + 1] = Append(V[m], Attribute(x))
  BY <1>1, <1>3, <1>5 DEF Collects
<1>8. U[m] \in Seq(Pairs)
  BY <1>2, <1>5 DEF Collects, m
<1> QED
  BY <1>2, <1>3, <1>6, <1>7, <1>8 DEF t

LEMMA AttributesTyped ==
  ASSUME NEW s \in Seq(Strings)
  PROVE  Attributes(s) \in Seq(Pairs)
<1>1. PICK U : Collects(U, s) /\ Attributes(s) = U[Len(s)]
  BY AttributesCollect
<1>2. Len(s) \in 0 .. Len(s)
  OBVIOUS
<1> QED
  BY <1>1, <1>2 DEF Collects

-----------------------------------------------------------------------------
(* Counts of the dynamic section                                           *)

(* The definitions of the accessors, for any contents                      *)
EntryOf(present, d, i) ==
  IF ~present THEN [tag |-> "NULL", value |-> 0] ELSE d[i + 1]

CountOf(present, d, sized) ==
  LET n == Len(d)
      nulls == {i \in 0 .. n - 1 : EntryOf(present, d, i).tag = "NULL"}
  IN  IF ~sized THEN 0 ELSE IF nulls = {} THEN n ELSE Min(nulls) + 1

NumberOf(present, d, sized, tag) ==
  LET hits == {i \in 0 .. CountOf(present, d, sized) - 1 :
                 EntryOf(present, d, i).tag = tag} IN
  IF hits = {} THEN 0 ELSE EntryOf(present, d, Min(hits)).value

LEMMA CountsAreThose ==
  /\ DynamicCount = CountOf(bytes.present, bytes.dynamic, entsize)
  /\ \A chain : ChainCount(chain) =
       NumberOf(bytes.present, bytes.dynamic, entsize, ChainTag(chain))
BY Zenon DEF DynamicCount, ChainCount, CountOf, NumberOf, DynamicEntry, EntryOf

LEMMA CountsInside ==
  ASSUME NEW present \in BOOLEAN, NEW d \in Seq(DynamicEntries),
         NEW sized \in BOOLEAN
  PROVE  CountOf(present, d, sized) \in 0 .. Len(d)
<1> DEFINE n == Len(d)
           nulls == {i \in 0 .. n - 1 : EntryOf(present, d, i).tag = "NULL"}
<1>1. n \in Nat /\ nulls \in SUBSET Nat /\ \A i \in nulls : i \in 0 .. n - 1
  OBVIOUS
<1>2. CountOf(present, d, sized) =
        IF ~sized THEN 0 ELSE IF nulls = {} THEN n ELSE Min(nulls) + 1
  BY Zenon DEF CountOf
<1> HIDE DEF nulls, n
<1>3. CASE nulls = {}
  BY <1>1, <1>2, <1>3 DEF n
<1>4. CASE nulls # {}
  <2>1. Min(nulls) \in 0 .. n - 1
    BY <1>1, <1>4, LeastIsMin
  <2> QED
    BY <1>1, <1>2, <1>4, <2>1 DEF n
<1> QED
  BY <1>3, <1>4

LEMMA CountIsNatural ==
  ASSUME NEW d \in Seq(DynamicEntries), NEW sized \in BOOLEAN
  PROVE  CountOf(TRUE, d, sized) \in Nat
<1>1. CountOf(TRUE, d, sized) \in 0 .. Len(d)
  BY CountsInside, TRUE \in BOOLEAN, Zenon
<1> DEFINE x == CountOf(TRUE, d, sized)
<1> HIDE DEF x
<1>2. x \in 0 .. Len(d)
  BY <1>1, Zenon DEF x
<1>3. x \in Nat
  BY <1>2
<1> QED
  BY <1>3, Zenon DEF x

LEMMA NumbersAreNaturals ==
  ASSUME NEW present \in BOOLEAN, NEW d \in Seq(DynamicEntries),
         NEW sized \in BOOLEAN, NEW tag
  PROVE  NumberOf(present, d, sized, tag) \in Nat
<1> DEFINE m == CountOf(present, d, sized)
           hits == {i \in 0 .. m - 1 : EntryOf(present, d, i).tag = tag}
<1>1. m \in 0 .. Len(d) /\ Len(d) \in Nat
  BY CountsInside
<1>2. NumberOf(present, d, sized, tag) =
        IF hits = {} THEN 0 ELSE EntryOf(present, d, Min(hits)).value
  BY Zenon DEF NumberOf
<1>3. ASSUME hits # {}
      PROVE  EntryOf(present, d, Min(hits)).value \in Nat
  <2> HIDE DEF m
  <2>1. hits \in SUBSET Nat /\ \A i \in hits : i + 1 \in 1 .. Len(d)
    BY <1>1
  <2> HIDE DEF hits
  <2>2. Min(hits) + 1 \in 1 .. Len(d)
    BY <1>3, <2>1, LeastIsMin
  <2>3. d[Min(hits) + 1] \in DynamicEntries
    BY <2>2
  <2> QED
    BY <2>3 DEF EntryOf, DynamicEntries
<1> QED
  BY <1>2, <1>3

(* What was counted stays when an entry is added, or when the section is   *)
(* given the size of its entries.                                          *)
LEMMA CountsGrow ==
  ASSUME NEW d \in Seq(DynamicEntries), NEW x \in DynamicEntries,
         NEW sized \in BOOLEAN, NEW tag
  PROVE  LET more == Append(d, x) IN
         /\ CountOf(TRUE, d, sized) <= CountOf(TRUE, more, sized)
         /\ NumberOf(TRUE, d, sized, tag) # 0 =>
              NumberOf(TRUE, more, sized, tag) = NumberOf(TRUE, d, sized, tag)
<1> DEFINE more == Append(d, x)
           n == Len(d)
           at(i) == EntryOf(TRUE, d, i)
           at2(i) == EntryOf(TRUE, more, i)
           nulls == {i \in 0 .. n - 1 : at(i).tag = "NULL"}
           nulls2 == {i \in 0 .. n : at2(i).tag = "NULL"}
           m == CountOf(TRUE, d, sized)
           m2 == CountOf(TRUE, more, sized)
           hits == {i \in 0 .. m - 1 : at(i).tag = tag}
           hits2 == {i \in 0 .. m2 - 1 : at2(i).tag = tag}
<1>1. /\ more \in Seq(DynamicEntries) /\ Len(more) = n + 1 /\ n \in Nat
      /\ \A i \in 1 .. n : more[i] = d[i]
  OBVIOUS
<1>2. \A i \in 0 .. n - 1 : at2(i) = at(i)
  <2> TAKE i \in 0 .. n - 1
  <2>1. i + 1 \in 1 .. n
    BY <1>1
  <2> QED
    BY <1>1, <2>1 DEF EntryOf
<1>3. /\ m = IF ~sized THEN 0 ELSE IF nulls = {} THEN n ELSE Min(nulls) + 1
      /\ m2 = IF ~sized THEN 0 ELSE IF nulls2 = {} THEN n + 1 ELSE Min(nulls2) + 1
  <2>1. Len(more) - 1 = n
    BY <1>1
  <2>2. m = IF ~sized THEN 0 ELSE IF nulls = {} THEN n ELSE Min(nulls) + 1
    BY Zenon DEF CountOf
  <2>3. m2 = IF ~sized THEN 0 ELSE IF nulls2 = {} THEN Len(more) ELSE Min(nulls2) + 1
    <3> HIDE DEF more
    <3> QED
      BY <2>1, Zenon DEF CountOf
  <2> HIDE DEF m, m2, nulls, nulls2, more
  <2> QED
    BY <1>1, <2>2, <2>3
<1>4. /\ NumberOf(TRUE, d, sized, tag) = IF hits = {} THEN 0 ELSE at(Min(hits)).value
      /\ NumberOf(TRUE, more, sized, tag) = IF hits2 = {} THEN 0 ELSE at2(Min(hits2)).value
  BY Zenon DEF NumberOf
<1>5. m \in 0 .. n /\ m2 \in 0 .. n + 1
  <2>1. Len(more) = n + 1 /\ more \in Seq(DynamicEntries) /\ TRUE \in BOOLEAN
    BY <1>1
  <2> HIDE DEF more
  <2> QED
    BY <2>1, CountsInside
<1> HIDE DEF more, n, at, at2, m, m2
<1>6. m <= m2
  <2>1. CASE ~sized
    BY <1>3, <2>1
  <2>2. CASE sized /\ nulls2 = {}
    BY <1>1, <1>3, <1>5, <2>2
  <2>3. CASE sized /\ nulls2 # {}
    <3>1. nulls2 \in SUBSET Nat
      BY <1>1
    <3>2. Min(nulls2) \in nulls2
      <4> HIDE DEF nulls2
      <4> QED
        BY <2>3, <3>1, LeastIsMin
    <3>3. CASE Min(nulls2) = n
      <4> HIDE DEF nulls, nulls2
      <4> QED
        BY <1>1, <1>3, <1>5, <2>3, <3>3
    <3>4. CASE Min(nulls2) # n
      <4>1. Min(nulls2) \in 0 .. n - 1 /\ at2(Min(nulls2)).tag = "NULL"
        BY <1>1, <3>2, <3>4
      <4>2. Min(nulls2) \in nulls /\ nulls \in SUBSET Nat
        BY <1>1, <1>2, <4>1
      <4> HIDE DEF nulls, nulls2
      <4>3. Min(nulls) <= Min(nulls2) /\ nulls # {} /\ Min(nulls) \in Nat
        BY <4>2, LeastIsMin
      <4> QED
        BY <1>1, <1>3, <2>3, <4>1, <4>3
    <3> QED
      BY <3>3, <3>4
  <2> QED
    BY <2>1, <2>2, <2>3
<1>7. ASSUME hits # {}
      PROVE  hits2 # {} /\ at2(Min(hits2)) = at(Min(hits))
  <2>1. hits \in SUBSET Nat /\ hits2 \in SUBSET Nat
    BY <1>5
  <2>2. Min(hits) \in hits /\ \A i \in hits : Min(hits) <= i
    <3> HIDE DEF hits
    <3> QED
      BY <1>7, <2>1, LeastIsMin
  <2>3. /\ Min(hits) \in 0 .. m - 1 /\ at(Min(hits)).tag = tag
        /\ Min(hits) \in 0 .. n - 1 /\ Min(hits) \in 0 .. m2 - 1
    <3>1. Min(hits) \in 0 .. m - 1 /\ at(Min(hits)).tag = tag
      BY <2>2
    <3> HIDE DEF hits
    <3> QED
      BY <1>1, <1>5, <1>6, <3>1
  <2>4. Min(hits) \in hits2
    BY <1>2, <2>3
  <2>5. ASSUME NEW i \in hits2
        PROVE  Min(hits) <= i
    <3>1. i \in 0 .. m2 - 1 /\ at2(i).tag = tag
      OBVIOUS
    <3>2. CASE i < m
      <4>1. i \in 0 .. m - 1 /\ i \in 0 .. n - 1
        BY <1>1, <1>5, <3>1, <3>2
      <4>2. i \in hits
        BY <1>2, <3>1, <4>1
      <4> QED
        BY <2>2, <4>2
    <3>3. CASE ~(i < m)
      <4> HIDE DEF hits
      <4> QED
        BY <1>5, <2>3, <3>1, <3>3
    <3> QED
      BY <3>2, <3>3
  <2>6. Min(hits2) = Min(hits)
    <3> DEFINE y == Min(hits)
    <3> HIDE DEF hits, hits2, y
    <3>1. y \in hits2 /\ \A i \in hits2 : y <= i
      BY <2>4, <2>5 DEF y
    <3>2. Min(hits2) = y
      BY <2>1, <3>1, MinIs
    <3> QED
      BY <3>2 DEF y
  <2> QED
    BY <1>2, <2>3, <2>4, <2>6
<1> HIDE DEF hits, hits2
<1>8. NumberOf(TRUE, d, sized, tag) # 0 =>
        NumberOf(TRUE, more, sized, tag) = NumberOf(TRUE, d, sized, tag)
  BY <1>4, <1>7
<1> QED
  BY <1>6, <1>8 DEF m, m2, more

LEMMA UncountedIsZero ==
  ASSUME NEW present, NEW d, NEW tag
  PROVE  CountOf(present, d, FALSE) = 0 /\ NumberOf(present, d, FALSE, tag) = 0
<1>1. CountOf(present, d, FALSE) = 0
  BY DEF CountOf
<1>2. 0 .. 0 - 1 = {}
  OBVIOUS
<1>3. {i \in 0 .. CountOf(present, d, FALSE) - 1 :
         EntryOf(present, d, i).tag = tag} = {}
  BY <1>1, <1>2
<1> QED
  BY <1>1, <1>3, Zenon DEF NumberOf

-----------------------------------------------------------------------------
(* The chains of versions                                                  *)

(* The record that get_entry(no) reaches in a chain of so many records     *)
Reached(last, no) == IF no < last THEN no ELSE last - 1

LEMMA ChainShape ==
  ASSUME NEW c, IsChain(c)
  PROVE  LET last == Len(c) \div 2 IN
         /\ last \in Nat /\ last >= 1 /\ Len(c) = 2 * last
         /\ \A i \in 1 .. last :
              c[2 * i - 1].aux = 1
              /\ c[2 * i - 1].next = IF i < last THEN 2 ELSE 0
<1> DEFINE last == Len(c) \div 2
<1>1. /\ c \in Seq([text : STRING, aux : Nat, next : Nat])
      /\ last >= 1 /\ Len(c) = 2 * last
      /\ \A i \in 1 .. last :
           c[2 * i - 1].aux = 1
           /\ c[2 * i - 1].next = IF i < last THEN 2 ELSE 0
  BY Zenon DEF IsChain
<1>2. Len(c) \in Nat
  BY <1>1
<1>3. last \in Nat
  BY <1>2
<1> QED
  BY <1>1, <1>3, Zenon

LEMMA Chained ==
  ASSUME NEW chain \in Chains, IsChain(bytes[chain]), NEW no \in Nat
  PROVE  LET last == Len(bytes[chain]) \div 2
             r == Reached(last, no)
         IN  /\ r \in 0 .. last - 1 /\ last >= 1 /\ last \in Nat
             /\ Len(bytes[chain]) = 2 * last
             /\ Position(chain, no) = 2 * r
             /\ AuxPosition(chain, no) = 2 * r + 1
<1> DEFINE c == bytes[chain]
           last == Len(c) \div 2
           at(i) == 2 * Reached(last, i)
           W(A) == A = [i \in 0 .. no |->
                          IF i = 0 THEN 0 ELSE A[i - 1] + c[A[i - 1] + 1].next]
           At == CHOOSE A : W(A)
           F == [i \in 0 .. no |-> at(i)]
<1>1. /\ last \in Nat /\ last >= 1 /\ Len(c) = 2 * last
      /\ \A i \in 1 .. last :
           c[2 * i - 1].aux = 1
           /\ c[2 * i - 1].next = IF i < last THEN 2 ELSE 0
  BY ChainShape, Zenon
<1>2. last \in Nat
  BY <1>1
<1>3. Position(chain, no) = At[no]
  BY Zenon DEF Position
<1> HIDE DEF c, last
<1>4. \A i \in Nat : Reached(last, i) \in 0 .. last - 1 /\ Reached(last, i) \in Nat
  BY <1>1, <1>2 DEF Reached
<1>5. at(0) = 0
  BY <1>1, <1>2 DEF Reached
<1>6. ASSUME NEW i \in 1 .. no
      PROVE  at(i) = at(i - 1) + c[at(i - 1) + 1].next
  <2> DEFINE r == Reached(last, i - 1)
  <2>1. r \in 0 .. last - 1 /\ r = IF i - 1 < last THEN i - 1 ELSE last - 1
    BY <1>4 DEF Reached
  <2>2. Reached(last, i) = IF i < last THEN i ELSE last - 1
    BY DEF Reached
  <2> HIDE DEF r
  <2>3. r + 1 \in 1 .. last /\ 2 * (r + 1) - 1 = 2 * r + 1
    BY <1>2, <2>1
  <2>4. c[2 * r + 1].next = IF r + 1 < last THEN 2 ELSE 0
    BY <1>1, <2>3
  <2>5. 2 * Reached(last, i) = 2 * r + (IF r + 1 < last THEN 2 ELSE 0)
    BY <1>2, <2>1, <2>2
  <2> QED
    BY <2>4, <2>5 DEF r
<1> HIDE DEF at
<1>7. W(F)
  <2>1. \A i \in 0 .. no : i = 0 \/ (i # 0 /\ i \in 1 .. no /\ i - 1 \in 0 .. no)
    OBVIOUS
  <2>2. \A i \in 0 .. no :
          at(i) = IF i = 0 THEN 0 ELSE F[i - 1] + c[F[i - 1] + 1].next
    BY <1>5, <1>6, <2>1
  <2> QED
    BY <2>2
<1>8. W(At)
  <2> HIDE DEF W
  <2> QED
    BY <1>7
<1> HIDE DEF At, F
<1> DEFINE bad == {k \in 0 .. no : At[k] # at(k)}
<1>9. ASSUME bad # {}
      PROVE  FALSE
  <2>1. PICK k \in bad : \A o \in bad : k <= o
    <3>1. bad \in SUBSET Nat
      OBVIOUS
    <3> HIDE DEF bad
    <3> QED
      BY <1>9, <3>1, LeastElement
  <2>2. k \in 0 .. no /\ At[k] # at(k)
    OBVIOUS
  <2>3. At[k] = IF k = 0 THEN 0 ELSE At[k - 1] + c[At[k - 1] + 1].next
    BY <1>8, <2>2
  <2>4. k # 0
    BY <1>5, <2>2, <2>3
  <2>5. k \in 1 .. no /\ k - 1 \in 0 .. no /\ ~(k <= k - 1)
    BY <2>2, <2>4
  <2>6. At[k - 1] = at(k - 1)
    BY <2>1, <2>5
  <2> HIDE DEF bad, W
  <2> QED
    BY <1>6, <2>2, <2>3, <2>4, <2>5, <2>6
<1>10. no \in 0 .. no
  OBVIOUS
<1>11. Position(chain, no) = 2 * Reached(last, no)
  BY <1>3, <1>9, <1>10 DEF at
<1>12. AuxPosition(chain, no) = 2 * Reached(last, no) + 1
  <2> DEFINE r == Reached(last, no)
  <2>1. r \in 0 .. last - 1
    BY <1>4
  <2>2. AuxPosition(chain, no) = 2 * r + c[2 * r + 1].aux
    BY <1>11, Zenon DEF AuxPosition, c
  <2> HIDE DEF r
  <2>3. r + 1 \in 1 .. last /\ 2 * (r + 1) - 1 = 2 * r + 1
    BY <1>2, <2>1
  <2>4. c[2 * r + 1].aux = 1
    BY <1>1, <2>3
  <2> QED
    BY <2>2, <2>4 DEF r
<1> QED
  BY <1>1, <1>2, <1>4, <1>11, <1>12 DEF c, last

-----------------------------------------------------------------------------
(* The invariant                                                           *)

(* What the sections hold                                                  *)
Held(b) ==
  /\ DOMAIN b = Sections \cup Chains \cup {"present"}
  /\ b.present \in BOOLEAN
  /\ b.note \in Seq(Nat) /\ b.modinfo \in Seq(Strings)
  /\ b.dynamic \in Seq(DynamicEntries) /\ b.versym \in Seq(Nat)
  /\ IsChain(b.verneed) /\ IsChain(b.verdef)

Counting == {"none", "dynamic", "versym"} \cup Chains

AccessorRecord ==
  [on : {"note"}, list : Seq(Nat), num : {0}]
    \cup [on : {"modinfo"}, list : Seq(Pairs), num : {0}]
    \cup [on : Counting, list : {<<>>}, num : Nat]

(* What the accessor r remembers is in the bytes b: the notes it found, cut *)
(* short or not, are there whole.                                          *)
CacheFits(r, b, sized, wrong) ==
  b.present =>
    /\ r.on = "note" /\ wrong \cap {"note", "cut"} = {} =>
         Range0(r.list) \subseteq Range0(NotePositions(b.note))
    /\ r.on = "note" /\ "note" \notin wrong =>
         \A p \in Range0(r.list) : p \in Nat /\ IsNote(b.note, p)
    /\ r.on = "modinfo" /\ "modinfo" \notin wrong =>
         Range0(r.list) \subseteq Range0(Attributes(b.modinfo))
    /\ r.on = "dynamic" => r.num <= CountOf(TRUE, b.dynamic, sized)
    /\ r.on = "versym" /\ "versym" \notin wrong => r.num <= Len(b.versym)
    /\ r.on \in Chains /\ r.num # 0 =>
         r.num = NumberOf(TRUE, b.dynamic, sized, ChainTag(r.on))

LogsFit(b, wrong, notes, attributes) ==
  /\ wrong \cap {"note", "cut"} = {} =>
       OnlyNotes(b.note) /\ Notes(b.note) = notes
  /\ "modinfo" \notin wrong => Attributes(b.modinfo) = attributes

(* What the sections hold and the accessors remember                       *)
CacheInv ==
  /\ Held(bytes) /\ entsize \in BOOLEAN
  /\ faults \subseteq Sections \cup {"cut"} /\ adds \in 0 .. MaxAdds
  /\ acc \in [Accessors -> AccessorRecord]
  /\ \A a \in Accessors : CacheFits(acc[a], bytes, entsize, faults)
  /\ LogsFit(bytes, faults, noteLog, attrLog)

(* The sections and lists that a call may leave                            *)
Places == {"index", "note", "versym"} \cup Chains

Unlisted ==
  ~bytes.present /\ "note" \notin faults =>
    \A a \in Accessors : acc[a].on = "note" => acc[a].list = <<>>

(* What an accessor found in the bytes b, another one finds in c.          *)
Grows(b, sized, c, sized2, wrong) ==
  /\ c.present = b.present
  /\ b.present =>
       /\ wrong \cap {"note", "cut"} = {} =>
            Range0(NotePositions(b.note)) \subseteq Range0(NotePositions(c.note))
       /\ "note" \notin wrong =>
            \A p \in Nat : IsNote(b.note, p) => IsNote(c.note, p)
       /\ "modinfo" \notin wrong =>
            Range0(Attributes(b.modinfo)) \subseteq Range0(Attributes(c.modinfo))
       /\ CountOf(TRUE, b.dynamic, sized) <= CountOf(TRUE, c.dynamic, sized2)
       /\ \A tag : NumberOf(TRUE, b.dynamic, sized, tag) # 0 =>
            NumberOf(TRUE, c.dynamic, sized2, tag)
              = NumberOf(TRUE, b.dynamic, sized, tag)
       /\ Len(b.versym) <= Len(c.versym)

LEMMA CachesGrow ==
  ASSUME NEW r \in AccessorRecord, NEW b, NEW c, Held(b), Held(c),
         NEW sized \in BOOLEAN, NEW sized2 \in BOOLEAN,
         NEW wrong, NEW wrong2, wrong \subseteq wrong2,
         CacheFits(r, b, sized, wrong), Grows(b, sized, c, sized2, wrong2)
  PROVE  CacheFits(r, c, sized2, wrong2)
<1> SUFFICES ASSUME c.present
             PROVE  CacheFits(r, c, sized2, wrong2)
  BY DEF CacheFits
<1>1. b.present
  BY DEF Grows
<1>2. /\ "note" \notin wrong2 => "note" \notin wrong
      /\ wrong2 \cap {"note", "cut"} = {} => wrong \cap {"note", "cut"} = {}
      /\ "modinfo" \notin wrong2 => "modinfo" \notin wrong
      /\ "versym" \notin wrong2 => "versym" \notin wrong
  OBVIOUS
<1>3. r.on = "note" /\ wrong2 \cap {"note", "cut"} = {} =>
         Range0(r.list) \subseteq Range0(NotePositions(c.note))
  BY <1>1, <1>2 DEF CacheFits, Grows
<1>4. r.on = "note" /\ "note" \notin wrong2 =>
         \A p \in Range0(r.list) : p \in Nat /\ IsNote(c.note, p)
  BY <1>1, <1>2 DEF CacheFits, Grows
<1>5. r.on = "modinfo" /\ "modinfo" \notin wrong2 =>
         Range0(r.list) \subseteq Range0(Attributes(c.modinfo))
  BY <1>1, <1>2 DEF CacheFits, Grows
<1>6. r.on = "dynamic" => r.num <= CountOf(TRUE, c.dynamic, sized2)
  <2> DEFINE x == CountOf(TRUE, b.dynamic, sized)
             y == CountOf(TRUE, c.dynamic, sized2)
  <2>1. r.num \in Nat
    BY DEF AccessorRecord
  <2>2. x \in Nat /\ y \in Nat
    BY CountIsNatural DEF Held
  <2>3. x <= y
    BY <1>1 DEF Grows
  <2>4. r.on = "dynamic" => r.num <= x
    BY <1>1 DEF CacheFits
  <2> HIDE DEF x, y
  <2>5. r.on = "dynamic" => r.num <= y
    BY <2>1, <2>2, <2>3, <2>4
  <2> QED
    BY <2>5 DEF y
<1>7. r.on = "versym" /\ "versym" \notin wrong2 => r.num <= Len(c.versym)
  <2>1. r.num \in Nat
    BY DEF AccessorRecord
  <2>2. Len(b.versym) \in Nat /\ Len(c.versym) \in Nat
    BY DEF Held
  <2>3. Len(b.versym) <= Len(c.versym)
    BY <1>1 DEF Grows
  <2>4. r.on = "versym" /\ "versym" \notin wrong => r.num <= Len(b.versym)
    BY <1>1 DEF CacheFits
  <2> QED
    BY <1>2, <2>1, <2>2, <2>3, <2>4
<1>8. r.on \in Chains /\ r.num # 0 =>
         r.num = NumberOf(TRUE, c.dynamic, sized2, ChainTag(r.on))
  <2>1. r.on \in Chains /\ r.num # 0 =>
         r.num = NumberOf(TRUE, b.dynamic, sized, ChainTag(r.on))
    BY <1>1, Zenon DEF CacheFits
  <2>2. \A tag : NumberOf(TRUE, b.dynamic, sized, tag) # 0 =>
            NumberOf(TRUE, c.dynamic, sized2, tag)
              = NumberOf(TRUE, b.dynamic, sized, tag)
    BY <1>1, Zenon DEF Grows
  <2> QED
    BY <2>1, <2>2, Zenon
<1> QED
  BY <1>3, <1>4, <1>5, <1>6, <1>7, <1>8, Zenon DEF CacheFits

(* A section grows by itself: the others stay as they are.                 *)
LEMMA OthersStay ==
  ASSUME NEW b, Held(b), NEW section \in Sections, NEW content
  PROVE  LET c == [b EXCEPT ![section] = @ \o content] IN
         /\ DOMAIN c = DOMAIN b /\ c[section] = b[section] \o content
         /\ \A x \in Sections \cup Chains \cup {"present"} :
              x # section => c[x] = b[x]
BY DEF Held, Sections

LEMMA SameGrows ==
  ASSUME NEW b, Held(b), NEW sized \in BOOLEAN, NEW wrong
  PROVE  Grows(b, sized, b, sized, wrong)
<1>1. b.dynamic \in Seq(DynamicEntries) /\ Len(b.versym) \in Nat
  BY DEF Held
<1> DEFINE x == CountOf(TRUE, b.dynamic, sized)
<1>2. x \in Nat
  BY <1>1, CountIsNatural
<1> HIDE DEF x
<1>3. x <= x /\ Len(b.versym) <= Len(b.versym)
  BY <1>1, <1>2
<1> QED
  BY <1>3, Zenon DEF Grows, x

(* An accessor is made.                                                    *)
LEMMA Construction ==
  ASSUME CacheInv, NEW a \in Accessors, NEW r \in AccessorRecord,
         CacheFits(r, bytes, entsize, faults), Construct(a, r)
  PROVE  CacheInv'
<1>1. /\ acc' = [acc EXCEPT ![a] = r]
      /\ bytes' = bytes /\ entsize' = entsize /\ faults' = faults
      /\ noteLog' = noteLog /\ attrLog' = attrLog /\ adds' = adds
  BY DEF Construct, logs
<1>2. acc' \in [Accessors -> AccessorRecord]
  BY <1>1 DEF CacheInv
<1>3. \A x \in Accessors : acc'[x] = IF x = a THEN r ELSE acc[x]
  BY <1>1 DEF CacheInv
<1>4. \A x \in Accessors : CacheFits(acc'[x], bytes, entsize, faults)
  BY <1>3, Zenon DEF CacheInv
<1> QED
  BY <1>1, <1>2, <1>4, Zenon DEF CacheInv

LEMMA Recorded ==
  ASSUME NEW on, NEW list, NEW num,
         \/ on = "note" /\ list \in Seq(Nat) /\ num = 0
         \/ on = "modinfo" /\ list \in Seq(Pairs) /\ num = 0
         \/ on \in Counting /\ list = <<>> /\ num \in Nat
  PROVE  /\ Accessor(on, list, num) \in AccessorRecord
         /\ Accessor(on, list, num).on = on
         /\ Accessor(on, list, num).list = list
         /\ Accessor(on, list, num).num = num
BY DEF Accessor, AccessorRecord

(* None of the kinds is another one.                                       *)
LEMMA Kinds ==
  /\ Counting \cap {"note", "modinfo"} = {}
  /\ Chains \cap {"note", "modinfo", "dynamic", "versym", "none"} = {}
BY DEF Counting, Chains

LEMMA RecordOf ==
  ASSUME NEW r \in AccessorRecord
  PROVE  /\ r.on \in {"note", "modinfo"} \cup Counting
         /\ r.on = "note" => r.list \in Seq(Nat) /\ r.num = 0
         /\ r.on = "modinfo" => r.list \in Seq(Pairs) /\ r.num = 0
         /\ r.on \in Counting => r.list = <<>> /\ r.num \in Nat
         /\ r = [on |-> r.on, list |-> r.list, num |-> r.num]
BY DEF AccessorRecord, Counting, Chains

LEMMA ConstructsNote ==
  ASSUME CacheInv, NEW a \in Accessors, ConstructNote(a)
  PROVE  CacheInv'
<1> DEFINE list == IF bytes.present THEN NotePositions(bytes.note) ELSE <<>>
           r == Accessor("note", list, 0)
<1>1. bytes.note \in Seq(Nat)
  BY DEF CacheInv, Held
<1>2. /\ NotePositions(bytes.note) \in Seq(Nat)
      /\ \A p \in Range0(NotePositions(bytes.note)) :
           p \in Nat /\ IsNote(bytes.note, p)
  BY <1>1, PositionsInside
<1>3. list \in Seq(Nat)
  BY <1>2
<1>4. r \in AccessorRecord /\ r.on = "note" /\ r.list = list
  <2> HIDE DEF list
  <2> QED
    BY <1>3, Recorded
<1>5. bytes.present => list = NotePositions(bytes.note)
  OBVIOUS
<1> HIDE DEF list, r
<1>6. CacheFits(r, bytes, entsize, faults)
  BY <1>2, <1>4, <1>5 DEF CacheFits, Chains
<1>7. Construct(a, r)
  BY Zenon DEF ConstructNote, r, list
<1> QED
  BY <1>4, <1>6, <1>7, Construction

LEMMA ConstructsModinfo ==
  ASSUME CacheInv, NEW a \in Accessors, ConstructModinfo(a)
  PROVE  CacheInv'
<1> DEFINE list == IF bytes.present THEN Attributes(bytes.modinfo) ELSE <<>>
           r == Accessor("modinfo", list, 0)
<1>1. bytes.modinfo \in Seq(Strings)
  BY DEF CacheInv, Held
<1>2. Attributes(bytes.modinfo) \in Seq(Pairs)
  BY <1>1, AttributesTyped
<1>3. list \in Seq(Pairs)
  BY <1>2
<1>4. r \in AccessorRecord /\ r.on = "modinfo" /\ r.list = list
  <2> HIDE DEF list
  <2> QED
    BY <1>3, Recorded
<1>5. bytes.present => list = Attributes(bytes.modinfo)
  OBVIOUS
<1> HIDE DEF list, r
<1>6. CacheFits(r, bytes, entsize, faults)
  BY <1>4, <1>5 DEF CacheFits, Chains
<1>7. Construct(a, r)
  BY Zenon DEF ConstructModinfo, r, list
<1> QED
  BY <1>4, <1>6, <1>7, Construction

(* The accessors that keep a count only                                    *)
LEMMA ConstructsCounting ==
  ASSUME CacheInv, NEW a \in Accessors, NEW on \in Counting, NEW num \in Nat,
         Construct(a, Accessor(on, <<>>, num)),
         on = "dynamic" => num = 0,
         on = "versym" => num = Len(bytes.versym),
         on \in Chains => num = ChainCount(on)
  PROVE  CacheInv'
<1> DEFINE r == Accessor(on, <<>>, num)
<1>1. r \in AccessorRecord /\ r.on = on /\ r.num = num
  BY Recorded
<1>2. on # "note" /\ on # "modinfo"
  BY Kinds
<1>3. bytes.present /\ on \in Chains =>
        num = NumberOf(TRUE, bytes.dynamic, entsize, ChainTag(on))
  <2>1. ChainCount(on) =
          NumberOf(bytes.present, bytes.dynamic, entsize, ChainTag(on))
    BY CountsAreThose, Zenon
  <2>2. bytes.present => bytes.present = TRUE
    BY DEF CacheInv, Held
  <2> QED
    BY <2>1, <2>2, Zenon
<1>4. on = "dynamic" => num <= CountOf(TRUE, bytes.dynamic, entsize)
  <2> DEFINE y == CountOf(TRUE, bytes.dynamic, entsize)
  <2>1. y \in Nat
    BY CountIsNatural DEF CacheInv, Held
  <2> HIDE DEF y
  <2>2. on = "dynamic" => num <= y
    BY <2>1
  <2> QED
    BY <2>2 DEF y
<1>5. on = "versym" => num <= Len(bytes.versym)
  OBVIOUS
<1> HIDE DEF r
<1>6. CacheFits(r, bytes, entsize, faults)
  BY <1>1, <1>2, <1>3, <1>4, <1>5, Zenon DEF CacheFits
<1> QED
  BY <1>1, <1>6, Construction DEF r

(* A step after which every accessor still has its cache in the bytes      *)
LEMMA Changes ==
  ASSUME CacheInv, NEW a \in Accessors, NEW r \in AccessorRecord,
         Held(bytes'), entsize' \in BOOLEAN, acc' = [acc EXCEPT ![a] = r],
         faults \subseteq faults', faults' \subseteq Sections \cup {"cut"},
         adds' \in 0 .. MaxAdds,
         Grows(bytes, entsize, bytes', entsize', faults'),
         CacheFits(r, bytes', entsize', faults'),
         LogsFit(bytes', faults', noteLog', attrLog')
  PROVE  CacheInv'
<1>1. acc' \in [Accessors -> AccessorRecord]
  BY DEF CacheInv
<1>2. ASSUME NEW x \in Accessors
      PROVE  CacheFits(acc'[x], bytes', entsize', faults')
  <2>1. CASE x = a
    <3>1. acc'[x] = r
      BY <2>1 DEF CacheInv
    <3> QED
      BY <3>1
  <2>2. CASE x # a
    <3>1. acc'[x] = acc[x] /\ acc[x] \in AccessorRecord
      BY <2>2 DEF CacheInv
    <3>2. CacheFits(acc[x], bytes, entsize, faults) /\ Held(bytes) /\ entsize \in BOOLEAN
      BY DEF CacheInv
    <3>3. CacheFits(acc[x], bytes', entsize', faults')
      BY <3>1, <3>2, CachesGrow
    <3> QED
      BY <3>1, <3>3
  <2> QED
    BY <2>1, <2>2
<1> QED
  BY <1>1, <1>2, Zenon DEF CacheInv

LEMMA RangeAppended ==
  ASSUME NEW S, NEW s \in Seq(S), NEW x \in S
  PROVE  Range0(Append(s, x)) = Range0(s) \cup {x}
<1> DEFINE t == Append(s, x)
<1>1. /\ DOMAIN s = 1 .. Len(s) /\ DOMAIN t = 1 .. Len(s) + 1 /\ Len(s) \in Nat
      /\ t[Len(s) + 1] = x /\ \A i \in 1 .. Len(s) : t[i] = s[i]
  OBVIOUS
<1> HIDE DEF t
<1>2. 1 .. Len(s) + 1 = (1 .. Len(s)) \cup {Len(s) + 1}
  BY <1>1
<1>3. Range0(t) = Range0(s) \cup {x}
  BY <1>1, <1>2 DEF Range0
<1> QED
  BY <1>3 DEF t

(* The fault of an addition is noted.                                      *)
LEMMA Faulty ==
  ASSUME CacheInv, NEW section \in Sections, NEW condition \in BOOLEAN,
         Fault(section, condition)
  PROVE  /\ faults \subseteq faults' /\ faults' \subseteq Sections \cup {"cut"}
         /\ condition => section \in faults'
         /\ \A x : x # section => (x \in faults' <=> x \in faults)
BY DEF Fault, CacheInv

LEMMA AdditionsCount ==
  ASSUME CacheInv, NEW section, NEW content, NEW ok \in BOOLEAN,
         Append1(section, content, ok)
  PROVE  /\ adds' \in 0 .. MaxAdds
         /\ bytes' = IF ok THEN [bytes EXCEPT ![section] = @ \o content] ELSE bytes
         /\ ok => bytes.present
BY AccessorsAssumption DEF CacheInv, Append1

(* A note is added.                                                        *)
LEMMA AddsNote ==
  ASSUME CacheInv, NEW a \in Accessors, NEW n \in NotesToAdd,
         NEW isNull \in BOOLEAN, NEW ok \in BOOLEAN, AddNote(a, n, isNull, ok)
  PROVE  CacheInv'
<1> DEFINE s == bytes.note
           c == EncodedNote(n, isNull)
           L == Len(s)
           r == [acc[a] EXCEPT !.list = Append(@, L)]
           wrongNote == ~ok \/ (isNull /\ n.desc.size # 0)
<1>1. /\ acc[a].on = "note" /\ Append1("note", c, ok)
      /\ acc' = [acc EXCEPT ![a] = r]
      /\ noteLog' = Append(noteLog, n) /\ attrLog' = attrLog
      /\ entsize' = entsize /\ Fault("note", wrongNote)
  <2>1. /\ acc' = [acc EXCEPT ![a].list = Append(@, L)]
        /\ Fault("note", ~ok \/ (isNull /\ n.desc.size # 0))
    BY Zenon DEF AddNote, NewPosition
  <2> QED
    BY <2>1 DEF AddNote
<1>2. /\ n \in NoteRecord /\ c \in Seq(Nat) /\ s \in Seq(Nat) /\ L \in Nat
      /\ Held(bytes) /\ entsize \in BOOLEAN
  <2>1. n \in NoteRecord /\ s \in Seq(Nat) /\ Held(bytes) /\ entsize \in BOOLEAN
    BY AccessorsAssumption DEF CacheInv, Held
  <2>2. c \in Seq(Nat)
    BY <2>1, EncodedNotes
  <2> QED
    BY <2>1, <2>2
<1>3. /\ acc[a] \in AccessorRecord /\ acc[a].list \in Seq(Nat)
      /\ CacheFits(acc[a], bytes, entsize, faults)
  BY <1>1, RecordOf DEF CacheInv
<1> DEFINE list == acc[a].list
<1>4. /\ r \in AccessorRecord /\ r.on = "note" /\ r.list = Append(list, L)
  <2>1. /\ acc[a] = [on |-> "note", list |-> list, num |-> 0]
    BY <1>1, <1>3, RecordOf
  <2> DEFINE old == acc[a]
  <2> HIDE DEF list, L, old
  <2>4. old = [on |-> "note", list |-> list, num |-> 0]
    BY <2>1 DEF old
  <2>5. [old EXCEPT !.list = Append(@, L)]
          = [on |-> "note", list |-> Append(list, L), num |-> 0]
    <3>1. /\ DOMAIN old = {"on", "list", "num"} /\ old.on = "note"
          /\ old.num = 0 /\ old.list = list
      BY <2>4
    <3> DEFINE new == Append(list, L)
    <3> HIDE DEF new
    <3>2. [old EXCEPT !.list = new] = [on |-> "note", list |-> new, num |-> 0]
      BY <2>4
    <3> QED
      BY <3>1, <3>2, Zenon DEF new
  <2>2. r = [on |-> "note", list |-> Append(list, L), num |-> 0]
    BY <2>5 DEF old
  <2>3. Append(list, L) \in Seq(Nat)
    BY <1>2, <1>3 DEF list
  <2> QED
    BY <2>2, <2>3 DEF AccessorRecord
<1>5. Range0(r.list) = Range0(list) \cup {L}
  <2>1. list \in Seq(Nat) /\ L \in Nat /\ r.list = Append(list, L)
    BY <1>2, <1>3, <1>4
  <2> HIDE DEF list, L, r
  <2> QED
    BY <2>1, RangeAppended
<1>6. /\ adds' \in 0 .. MaxAdds /\ (ok => bytes.present)
      /\ bytes' = IF ok THEN [bytes EXCEPT !["note"] = @ \o c] ELSE bytes
  BY <1>1, AdditionsCount
<1>7. /\ faults \subseteq faults' /\ faults' \subseteq Sections \cup {"cut"}
      /\ wrongNote => "note" \in faults'
      /\ \A x : x # "note" => (x \in faults' <=> x \in faults)
  <2>1. "note" \in Sections /\ wrongNote \in BOOLEAN
    BY DEF Sections
  <2> QED
    BY <1>1, <2>1, Faulty
<1> HIDE DEF r, c, L, list
<1>8. CASE ~ok
  <2>1. bytes' = bytes /\ "note" \in faults'
    BY <1>6, <1>7, <1>8
  <2>2. CacheFits(r, bytes', entsize', faults')
    BY <1>4, <2>1 DEF CacheFits, Chains
  <2>3. Grows(bytes, entsize, bytes', entsize', faults')
    BY <1>1, <1>2, <2>1, SameGrows
  <2>4. LogsFit(bytes', faults', noteLog', attrLog')
    BY <1>1, <1>7, <2>1 DEF LogsFit, CacheInv
  <2> QED
    BY <1>1, <1>2, <1>4, <1>6, <1>7, <2>1, <2>2, <2>3, <2>4, Changes
<1>9. CASE ok
  <2> DEFINE t == s \o c
  <2>1. /\ bytes' = [bytes EXCEPT !["note"] = @ \o c] /\ bytes.present
    BY <1>6, <1>9
  <2>2. /\ DOMAIN bytes' = DOMAIN bytes /\ bytes'.note = t
        /\ bytes'.present = bytes.present /\ bytes'.modinfo = bytes.modinfo
        /\ bytes'.dynamic = bytes.dynamic /\ bytes'.versym = bytes.versym
        /\ bytes'.verneed = bytes.verneed /\ bytes'.verdef = bytes.verdef
    BY <1>2, <2>1 DEF Held, Sections, Chains
  <2>3. t \in Seq(Nat)
    BY <1>2, Appended
  <2> HIDE DEF t
  <2>4. Held(bytes')
    BY <1>2, <2>2, <2>3 DEF Held
  <2>5. ASSUME faults' \cap {"note", "cut"} = {}
        PROVE  /\ NotePositions(t) = Append(NotePositions(s), L)
               /\ OnlyNotes(t) /\ Notes(t) = Append(noteLog, n)
    <3>1. ~wrongNote /\ faults \cap {"note", "cut"} = {}
      BY <1>7, <2>5
    <3>2. isNull => n.desc.size = 0
      BY <3>1
    <3>3. OnlyNotes(s) /\ Notes(s) = noteLog
      BY <3>1 DEF CacheInv, LogsFit
    <3>4. /\ NotePositions(t) = Append(NotePositions(s), L)
          /\ OnlyNotes(t) /\ Notes(t) = Append(Notes(s), n)
      BY <1>2, <3>2, <3>3, NotesExtend DEF t, c, L
    <3> QED
      BY <3>3, <3>4
  <2>6. ASSUME NEW p \in Nat, IsNote(s, p)
        PROVE  IsNote(t, p)
    <3>1. p + 3 <= Len(s)
      BY <2>6 DEF IsNote
    <3> QED
      BY <1>2, <2>6, <3>1, WordsKeep DEF t
  <2>7. faults' \cap {"note", "cut"} = {} =>
          Range0(NotePositions(t)) = Range0(NotePositions(s)) \cup {L}
    <3>1. NotePositions(s) \in Seq(Nat)
      BY <1>2, PositionsInside
    <3>2. Range0(Append(NotePositions(s), L)) = Range0(NotePositions(s)) \cup {L}
      BY <1>2, <3>1, RangeAppended
    <3> QED
      BY <2>5, <3>2
  <2>8. "note" \notin faults' => IsNote(t, L)
    <3> HAVE "note" \notin faults'
    <3>1. isNull => n.desc.size = 0
      BY <1>7
    <3>2. IsAppendedNote(s, c)
      BY <1>2, <3>1, NoteAppended DEF c
    <3> QED
      BY <3>2 DEF IsAppendedNote, t, L
  <2>9. Grows(bytes, entsize, bytes', entsize', faults')
    <3>1. Grows(bytes, entsize, bytes, entsize, faults')
      BY <1>2, SameGrows
    <3>2. faults' \cap {"note", "cut"} = {} =>
            Range0(NotePositions(bytes.note)) \subseteq Range0(NotePositions(bytes'.note))
      BY <2>2, <2>7
    <3>3. \A p \in Nat : IsNote(bytes.note, p) => IsNote(bytes'.note, p)
      BY <2>2, <2>6
    <3> QED
      BY <1>1, <2>2, <3>1, <3>2, <3>3, Zenon DEF Grows
  <2>10. CacheFits(r, bytes', entsize', faults')
    <3>1. faults' \cap {"note", "cut"} = {} =>
            Range0(r.list) \subseteq Range0(NotePositions(bytes'.note))
      <4> HAVE faults' \cap {"note", "cut"} = {}
      <4>1. faults \cap {"note", "cut"} = {}
        BY <1>7
      <4>2. Range0(list) \subseteq Range0(NotePositions(s))
        BY <1>1, <1>3, <2>1, <4>1 DEF CacheFits, list
      <4> QED
        BY <1>5, <2>2, <2>7, <4>2
    <3>2. "note" \notin faults' =>
            \A p \in Range0(r.list) : p \in Nat /\ IsNote(bytes'.note, p)
      <4> HAVE "note" \notin faults'
      <4>1. "note" \notin faults
        BY <1>7
      <4>2. \A p \in Range0(list) : p \in Nat /\ IsNote(s, p)
        BY <1>1, <1>3, <2>1, <4>1 DEF CacheFits, list
      <4> QED
        BY <1>2, <1>5, <2>2, <2>6, <2>8, <4>2
    <3> QED
      BY <1>4, <3>1, <3>2 DEF CacheFits, Chains
  <2>11. LogsFit(bytes', faults', noteLog', attrLog')
    BY <1>1, <1>7, <2>2, <2>5 DEF LogsFit, CacheInv
  <2> QED
    BY <1>1, <1>2, <1>4, <1>6, <1>7, <2>4, <2>9, <2>10, <2>11, Changes
<1> QED
  BY <1>8, <1>9

(* An attribute is added.                                                  *)
LEMMA AddsAttribute ==
  ASSUME CacheInv, NEW a \in Accessors, NEW field \in Fields, NEW value \in Values,
         NEW ok \in BOOLEAN, AddAttribute(a, field, value, ok)
  PROVE  CacheInv'
<1> DEFINE s == bytes.modinfo
           info == field \o <<"=">> \o value
           pair == <<field, value>>
           r == [acc[a] EXCEPT !.list = Append(@, pair)]
           list == acc[a].list
           wrongInfo == ~ok \/ "=" \in Range0(field)
<1>1. /\ acc[a].on = "modinfo" /\ Append1("modinfo", <<info>>, ok)
      /\ acc' = [acc EXCEPT ![a] = r]
      /\ attrLog' = Append(attrLog, pair) /\ noteLog' = noteLog
      /\ entsize' = entsize /\ Fault("modinfo", wrongInfo)
  <2>1. /\ acc' = [acc EXCEPT ![a].list = Append(@, pair)]
        /\ Fault("modinfo", ~ok \/ "=" \in Range0(field))
    BY Zenon DEF AddAttribute
  <2> QED
    BY <2>1 DEF AddAttribute
<1>2. /\ field \in Strings /\ value \in Strings /\ pair \in Pairs
      /\ s \in Seq(Strings) /\ Held(bytes) /\ entsize \in BOOLEAN
  BY AccessorsAssumption DEF CacheInv, Held, Pairs
<1>3. info \in Strings
  <2>1. /\ field \in Seq(Characters) /\ value \in Seq(Characters)
        /\ "=" \in Characters
    BY <1>2, AccessorsAssumption DEF Strings
  <2>2. <<"=">> \in Seq(Characters)
    BY <2>1
  <2>3. info \in Seq(Characters)
    BY <2>1, <2>2, Appended
  <2> QED
    BY <2>3 DEF Strings
<1>4. /\ acc[a] \in AccessorRecord /\ list \in Seq(Pairs)
      /\ acc[a] = [on |-> "modinfo", list |-> list, num |-> 0]
      /\ CacheFits(acc[a], bytes, entsize, faults)
  BY <1>1, RecordOf DEF CacheInv
<1> HIDE DEF pair, info
<1>5. /\ r \in AccessorRecord /\ r.on = "modinfo" /\ r.list = Append(list, pair)
  <2> DEFINE old == acc[a]
  <2>1. old = [on |-> "modinfo", list |-> list, num |-> 0]
    BY <1>4
  <2> HIDE DEF list, old
  <2>2. [old EXCEPT !.list = Append(@, pair)]
          = [on |-> "modinfo", list |-> Append(list, pair), num |-> 0]
    <3>1. /\ DOMAIN old = {"on", "list", "num"} /\ old.on = "modinfo"
          /\ old.num = 0 /\ old.list = list
      BY <2>1
    <3> DEFINE new == Append(list, pair)
    <3> HIDE DEF new
    <3>2. [old EXCEPT !.list = new] = [on |-> "modinfo", list |-> new, num |-> 0]
      BY <2>1
    <3> QED
      BY <3>1, <3>2, Zenon DEF new
  <2>3. r = [on |-> "modinfo", list |-> Append(list, pair), num |-> 0]
    BY <2>2 DEF old
  <2>4. Append(list, pair) \in Seq(Pairs)
    BY <1>2, <1>4, AppendProperties DEF list
  <2> QED
    BY <2>3, <2>4 DEF AccessorRecord
<1>6. Range0(r.list) = Range0(list) \cup {pair}
  <2>1. list \in Seq(Pairs) /\ pair \in Pairs /\ r.list = Append(list, pair)
    BY <1>2, <1>4, <1>5
  <2> HIDE DEF list, r
  <2> QED
    BY <2>1, RangeAppended
<1>7. /\ adds' \in 0 .. MaxAdds /\ (ok => bytes.present)
      /\ bytes' = IF ok THEN [bytes EXCEPT !["modinfo"] = @ \o <<info>>] ELSE bytes
  <2> DEFINE section == "modinfo"
             content == <<info>>
  <2>1. Append1(section, content, ok)
    BY <1>1
  <2> HIDE DEF section, content
  <2>2. /\ adds' \in 0 .. MaxAdds /\ (ok => bytes.present)
        /\ bytes' = IF ok THEN [bytes EXCEPT ![section] = @ \o content] ELSE bytes
    BY <2>1, AdditionsCount
  <2> QED
    BY <2>2, Zenon DEF section, content
<1>8. /\ faults \subseteq faults' /\ faults' \subseteq Sections \cup {"cut"}
      /\ wrongInfo => "modinfo" \in faults'
      /\ \A x : x # "modinfo" => (x \in faults' <=> x \in faults)
  <2>1. "modinfo" \in Sections /\ wrongInfo \in BOOLEAN
    BY DEF Sections
  <2> QED
    BY <1>1, <2>1, Faulty
<1> HIDE DEF r, list
<1>9. CASE ~ok
  <2>1. bytes' = bytes /\ "modinfo" \in faults'
    BY <1>7, <1>8, <1>9
  <2>2. CacheFits(r, bytes', entsize', faults')
    BY <1>5, <2>1 DEF CacheFits, Chains
  <2>3. Grows(bytes, entsize, bytes', entsize', faults')
    BY <1>1, <1>2, <2>1, SameGrows
  <2>4. faults' \cap {"note", "cut"} = {} => faults \cap {"note", "cut"} = {}
    BY <1>8
  <2>5. LogsFit(bytes', faults', noteLog', attrLog')
    BY <1>1, <2>1, <2>4 DEF LogsFit, CacheInv
  <2> QED
    BY <1>1, <1>2, <1>5, <1>7, <1>8, <2>1, <2>2, <2>3, <2>5, Changes
<1>10. CASE ok
  <2> DEFINE t == s \o <<info>>
  <2>1. /\ bytes' = [bytes EXCEPT !["modinfo"] = @ \o <<info>>] /\ bytes.present
    BY <1>7, <1>10
  <2>2. /\ DOMAIN bytes' = DOMAIN bytes /\ bytes'.modinfo = t
        /\ bytes'.present = bytes.present /\ bytes'.note = bytes.note
        /\ bytes'.dynamic = bytes.dynamic /\ bytes'.versym = bytes.versym
        /\ bytes'.verneed = bytes.verneed /\ bytes'.verdef = bytes.verdef
    BY <1>2, <2>1 DEF Held, Sections, Chains
  <2>3. t \in Seq(Strings)
    BY <1>2, <1>3
  <2> HIDE DEF t
  <2>4. Held(bytes')
    BY <1>2, <2>2, <2>3 DEF Held
  <2>5. ASSUME "modinfo" \notin faults'
        PROVE  /\ Attributes(t) = Append(Attributes(s), pair)
               /\ Attributes(s) = attrLog
               /\ Range0(Attributes(t)) = Range0(Attributes(s)) \cup {pair}
    <3>1. "=" \notin Range0(field) /\ "modinfo" \notin faults
      BY <1>8, <2>5
    <3>2. info # <<>> /\ Attribute(info) = pair
      BY <1>2, <3>1, SplitsAtFirst DEF info, pair
    <3>3. Attributes(t) = Append(Attributes(s), pair) /\ Attributes(s) \in Seq(Pairs)
      BY <1>2, <1>3, <3>2, AttributesExtend DEF t
    <3>4. Attributes(s) = attrLog
      BY <3>1 DEF CacheInv, LogsFit
    <3> QED
      BY <1>2, <3>3, <3>4, RangeAppended
  <2>6. Grows(bytes, entsize, bytes', entsize', faults')
    <3>1. Grows(bytes, entsize, bytes, entsize, faults')
      BY <1>2, SameGrows
    <3>2. "modinfo" \notin faults' =>
            Range0(Attributes(bytes.modinfo)) \subseteq Range0(Attributes(bytes'.modinfo))
      BY <2>2, <2>5
    <3> QED
      BY <1>1, <2>2, <3>1, <3>2, Zenon DEF Grows
  <2>7. CacheFits(r, bytes', entsize', faults')
    <3>1. "modinfo" \notin faults' =>
            Range0(r.list) \subseteq Range0(Attributes(bytes'.modinfo))
      <4> HAVE "modinfo" \notin faults'
      <4>1. "modinfo" \notin faults
        BY <1>8
      <4>2. Range0(list) \subseteq Range0(Attributes(s))
        BY <1>1, <1>4, <2>1, <4>1 DEF CacheFits, list
      <4> QED
        BY <1>6, <2>2, <2>5, <4>2
    <3> QED
      BY <1>5, <3>1 DEF CacheFits, Chains
  <2>8. faults' \cap {"note", "cut"} = {} => faults \cap {"note", "cut"} = {}
    BY <1>8
  <2>9. LogsFit(bytes', faults', noteLog', attrLog')
    BY <1>1, <2>2, <2>5, <2>8 DEF LogsFit, CacheInv
  <2> QED
    BY <1>1, <1>2, <1>5, <1>7, <1>8, <2>4, <2>6, <2>7, <2>9, Changes
<1> QED
  BY <1>9, <1>10

(* A step that leaves the accessors alone                                  *)
LEMMA ContentsChange ==
  ASSUME CacheInv, Held(bytes'), entsize' \in BOOLEAN, acc' = acc,
         noteLog' = noteLog, attrLog' = attrLog,
         bytes'.note = bytes.note, bytes'.modinfo = bytes.modinfo,
         faults \subseteq faults', faults' \subseteq Sections \cup {"cut"},
         adds' \in 0 .. MaxAdds,
         Grows(bytes, entsize, bytes', entsize', faults')
  PROVE  CacheInv'
<1>1. ASSUME NEW x \in Accessors
      PROVE  CacheFits(acc'[x], bytes', entsize', faults')
  <2>1. /\ acc'[x] = acc[x] /\ acc[x] \in AccessorRecord
        /\ CacheFits(acc[x], bytes, entsize, faults)
        /\ Held(bytes) /\ entsize \in BOOLEAN
    BY DEF CacheInv
  <2>2. CacheFits(acc[x], bytes', entsize', faults')
    BY <2>1, CachesGrow
  <2> QED
    BY <2>1, <2>2
<1>2. faults' \cap {"note", "cut"} = {} => faults \cap {"note", "cut"} = {}
  OBVIOUS
<1>3. LogsFit(bytes', faults', noteLog', attrLog')
  BY <1>2 DEF CacheInv, LogsFit
<1>4. acc' \in [Accessors -> AccessorRecord]
  BY DEF CacheInv
<1> QED
  BY <1>1, <1>3, <1>4, Zenon DEF CacheInv

(* An entry is added to the dynamic section.                               *)
LEMMA AddsDynamic ==
  ASSUME CacheInv, NEW a \in Accessors, NEW tag \in Tags, NEW value \in Numbers,
         NEW ok \in BOOLEAN, AddDynamic(a, tag, value, ok)
  PROVE  CacheInv'
<1> DEFINE d == bytes.dynamic
           x == [tag |-> tag, value |-> StoredValue(tag, value)]
<1>1. /\ Append1("dynamic", <<x>>, ok) /\ Fault("dynamic", ~ok)
      /\ acc' = acc /\ entsize' = entsize
      /\ noteLog' = noteLog /\ attrLog' = attrLog
  BY DEF AddDynamic
<1>2. d \in Seq(DynamicEntries) /\ Held(bytes) /\ entsize \in BOOLEAN
  BY DEF CacheInv, Held
<1>3. x \in DynamicEntries
  <2>1. tag \in {"NULL", "VERNEEDNUM", "VERDEFNUM", "FLAGS", "TEXTREL"}
        /\ value \in Nat
    BY AccessorsAssumption
  <2> QED
    BY <2>1 DEF DynamicEntries, StoredValue, NoValue
<1> HIDE DEF x
<1>4. /\ adds' \in 0 .. MaxAdds /\ (ok => bytes.present)
      /\ bytes' = IF ok THEN [bytes EXCEPT !["dynamic"] = @ \o <<x>>] ELSE bytes
  BY <1>1, AdditionsCount
<1>5. faults \subseteq faults' /\ faults' \subseteq Sections \cup {"cut"}
  <2>1. "dynamic" \in Sections /\ (~ok) \in BOOLEAN
    BY DEF Sections
  <2> QED
    BY <1>1, <2>1, Faulty
<1>6. CASE ~ok
  <2>1. bytes' = bytes
    BY <1>4, <1>6
  <2>2. Grows(bytes, entsize, bytes', entsize', faults')
    BY <1>1, <1>2, <2>1, SameGrows
  <2> QED
    BY <1>1, <1>2, <1>4, <1>5, <2>1, <2>2, ContentsChange
<1>7. CASE ok
  <2>1. /\ bytes' = [bytes EXCEPT !["dynamic"] = @ \o <<x>>] /\ bytes.present
    BY <1>4, <1>7
  <2> DEFINE more == Append(d, x)
  <2>2. more \in Seq(DynamicEntries) /\ more = d \o <<x>>
    BY <1>2, <1>3, AppendProperties, AppendIsConcat
  <2>3. /\ DOMAIN bytes' = DOMAIN bytes /\ bytes'.dynamic = more
        /\ bytes'.present = bytes.present /\ bytes'.note = bytes.note
        /\ bytes'.modinfo = bytes.modinfo /\ bytes'.versym = bytes.versym
        /\ bytes'.verneed = bytes.verneed /\ bytes'.verdef = bytes.verdef
    <3> HIDE DEF more
    <3> QED
      BY <1>2, <2>1, <2>2 DEF Held, Sections, Chains
  <2>4. /\ CountOf(TRUE, d, entsize) <= CountOf(TRUE, more, entsize)
        /\ \A t : NumberOf(TRUE, d, entsize, t) # 0 =>
             NumberOf(TRUE, more, entsize, t) = NumberOf(TRUE, d, entsize, t)
    BY <1>2, <1>3, CountsGrow
  <2> HIDE DEF more
  <2>5. Held(bytes')
    BY <1>2, <2>2, <2>3 DEF Held
  <2>6. Grows(bytes, entsize, bytes', entsize', faults')
    <3>1. Grows(bytes, entsize, bytes, entsize, faults')
      BY <1>2, SameGrows
    <3> QED
      BY <1>1, <2>3, <2>4, <3>1, Zenon DEF Grows
  <2> QED
    BY <1>1, <1>2, <1>4, <1>5, <2>3, <2>5, <2>6, ContentsChange
<1> QED
  BY <1>6, <1>7

LEMMA SetsEntrySize ==
  ASSUME CacheInv, SetEntrySize
  PROVE  CacheInv'
<1> DEFINE d == bytes.dynamic
<1>1. /\ entsize = FALSE /\ entsize' = TRUE /\ bytes' = bytes /\ acc' = acc
      /\ noteLog' = noteLog /\ attrLog' = attrLog /\ faults' = faults /\ adds' = adds
  BY DEF SetEntrySize, logs, CacheInv
<1>2. /\ Held(bytes) /\ d \in Seq(DynamicEntries) /\ entsize \in BOOLEAN
      /\ adds \in 0 .. MaxAdds /\ faults \subseteq Sections \cup {"cut"}
  BY DEF CacheInv, Held
<1>3. CountOf(TRUE, d, entsize) <= CountOf(TRUE, d, TRUE)
  <2> DEFINE z == CountOf(TRUE, d, FALSE)
             y == CountOf(TRUE, d, TRUE)
  <2>1. z = 0
    BY UncountedIsZero
  <2>2. y \in Nat
    BY <1>2, CountIsNatural, TRUE \in BOOLEAN, Zenon
  <2> HIDE DEF z, y
  <2>3. z <= y
    BY <2>1, <2>2
  <2> QED
    BY <1>1, <2>3, Zenon DEF z, y
<1>4. \A tag : NumberOf(TRUE, d, entsize, tag) = 0
  BY <1>1, UncountedIsZero, Zenon
<1>5. Grows(bytes, entsize, bytes, TRUE, faults)
  <2>1. Grows(bytes, entsize, bytes, entsize, faults)
    BY <1>2, SameGrows
  <2> QED
    BY <1>3, <1>4, <2>1, Zenon DEF Grows
<1>6. Grows(bytes, entsize, bytes', entsize', faults')
  BY <1>1, <1>5, Zenon
<1> QED
  BY <1>1, <1>2, <1>6, ContentsChange

(* The count of the dynamic section, when it is first asked for            *)
LEMMA GetsEntriesNum ==
  ASSUME CacheInv, NEW a \in Accessors, GetEntriesNum(a)
  PROVE  CacheInv'
<1> DEFINE r == [acc[a] EXCEPT !.num = DynamicCount]
<1>1. /\ acc[a].on = "dynamic" /\ acc' = [acc EXCEPT ![a] = r]
      /\ entsize' = entsize /\ bytes' = bytes /\ noteLog' = noteLog
      /\ attrLog' = attrLog /\ faults' = faults /\ adds' = adds
  BY DEF GetEntriesNum, logs
<1>2. /\ Held(bytes) /\ bytes.dynamic \in Seq(DynamicEntries)
      /\ bytes.present \in BOOLEAN /\ entsize \in BOOLEAN
      /\ adds \in 0 .. MaxAdds /\ faults \subseteq Sections \cup {"cut"}
  BY DEF CacheInv, Held
<1> DEFINE count == DynamicCount
<1>3. /\ count \in Nat
      /\ bytes.present => count = CountOf(TRUE, bytes.dynamic, entsize)
  <2>1. count = CountOf(bytes.present, bytes.dynamic, entsize)
    BY CountsAreThose, Zenon
  <2> HIDE DEF count
  <2>2. count \in 0 .. Len(bytes.dynamic)
    BY <1>2, <2>1, CountsInside
  <2>3. count \in Nat
    BY <2>2
  <2>4. bytes.present => bytes.present = TRUE
    BY <1>2
  <2> QED
    BY <2>1, <2>3, <2>4, Zenon
<1>4. r \in AccessorRecord /\ r.on = "dynamic" /\ r.num = count
  <2>1. /\ acc[a] = [on |-> "dynamic", list |-> <<>>, num |-> acc[a].num]
    <3>1. acc[a] \in AccessorRecord /\ acc[a].on \in Counting
      BY <1>1 DEF CacheInv, Counting
    <3> QED
      BY <1>1, <3>1, RecordOf
  <2> DEFINE old == acc[a]
  <2> HIDE DEF count, old
  <2>2. [old EXCEPT !.num = count]
          = [on |-> "dynamic", list |-> <<>>, num |-> count]
    <3>1. old = [on |-> "dynamic", list |-> <<>>, num |-> old.num]
      BY <2>1 DEF old
    <3> QED
      BY <3>1
  <2>3. r = [on |-> "dynamic", list |-> <<>>, num |-> count]
    BY <2>2, Zenon DEF old, count
  <2> HIDE DEF r
  <2> QED
    BY <1>3, <2>3 DEF AccessorRecord, Counting
<1> HIDE DEF r, count
<1>5. CacheFits(r, bytes, entsize, faults)
  <2> SUFFICES ASSUME bytes.present
               PROVE  r.num <= CountOf(TRUE, bytes.dynamic, entsize)
    BY <1>4 DEF CacheFits, Chains
  <2> DEFINE y == CountOf(TRUE, bytes.dynamic, entsize)
  <2>1. r.num = y /\ r.num \in Nat
    BY <1>3, <1>4
  <2> HIDE DEF y
  <2>2. r.num <= y
    BY <2>1
  <2> QED
    BY <2>2 DEF y
<1>6. Construct(a, r)
  BY <1>1 DEF Construct, GetEntriesNum, logs
<1> QED
  BY <1>4, <1>5, <1>6, Construction

(* A version is added to the version section.                              *)
LEMMA AddsVersym ==
  ASSUME CacheInv, NEW a \in Accessors, NEW value \in Numbers,
         NEW ok \in BOOLEAN, AddVersym(a, value, ok)
  PROVE  CacheInv'
<1> DEFINE s == bytes.versym
           num == acc[a].num
           r == [acc[a] EXCEPT !.num = @ + 1]
<1>1. /\ acc[a].on = "versym" /\ Append1("versym", <<value>>, ok)
      /\ acc' = [acc EXCEPT ![a] = r] /\ Fault("versym", ~ok)
      /\ entsize' = entsize /\ noteLog' = noteLog /\ attrLog' = attrLog
  <2>1. acc' = [acc EXCEPT ![a].num = @ + 1]
    BY Zenon DEF AddVersym
  <2> QED
    BY <2>1 DEF AddVersym
<1>2. /\ s \in Seq(Nat) /\ Held(bytes) /\ entsize \in BOOLEAN /\ value \in Nat
  BY AccessorsAssumption DEF CacheInv, Held
<1>3. /\ acc[a] = [on |-> "versym", list |-> <<>>, num |-> num] /\ num \in Nat
      /\ CacheFits(acc[a], bytes, entsize, faults)
  <2>1. acc[a] \in AccessorRecord /\ acc[a].on \in Counting
    BY <1>1 DEF CacheInv, Counting
  <2> QED
    BY <1>1, <2>1, RecordOf DEF CacheInv
<1>4. r \in AccessorRecord /\ r.on = "versym" /\ r.num = num + 1
  <2> DEFINE old == acc[a]
  <2> HIDE DEF num, old
  <2>1. old = [on |-> "versym", list |-> <<>>, num |-> num]
    BY <1>3 DEF old
  <2>2. [old EXCEPT !.num = @ + 1]
          = [on |-> "versym", list |-> <<>>, num |-> num + 1]
    BY <2>1
  <2>3. r = [on |-> "versym", list |-> <<>>, num |-> num + 1]
    BY <2>2, Zenon DEF old
  <2> HIDE DEF r
  <2>4. num + 1 \in Nat
    BY <1>3
  <2> QED
    BY <2>3, <2>4 DEF AccessorRecord, Counting
<1>5. /\ adds' \in 0 .. MaxAdds /\ (ok => bytes.present)
      /\ bytes' = IF ok THEN [bytes EXCEPT !["versym"] = @ \o <<value>>] ELSE bytes
  <2> DEFINE section == "versym"
             content == <<value>>
  <2>1. Append1(section, content, ok)
    BY <1>1
  <2> HIDE DEF section, content
  <2>2. /\ adds' \in 0 .. MaxAdds /\ (ok => bytes.present)
        /\ bytes' = IF ok THEN [bytes EXCEPT ![section] = @ \o content] ELSE bytes
    BY <2>1, AdditionsCount
  <2> QED
    BY <2>2, Zenon DEF section, content
<1>6. /\ faults \subseteq faults' /\ faults' \subseteq Sections \cup {"cut"}
      /\ ~ok => "versym" \in faults'
      /\ \A x : x # "versym" => (x \in faults' <=> x \in faults)
  <2>1. "versym" \in Sections /\ (~ok) \in BOOLEAN
    BY DEF Sections
  <2> QED
    BY <1>1, <2>1, Faulty
<1>7. faults' \cap {"note", "cut"} = {} => faults \cap {"note", "cut"} = {}
  BY <1>6
<1> HIDE DEF r, num
<1>8. CASE ~ok
  <2>1. bytes' = bytes /\ "versym" \in faults'
    BY <1>5, <1>6, <1>8
  <2>2. CacheFits(r, bytes', entsize', faults')
    BY <1>4, <2>1 DEF CacheFits, Chains
  <2>3. Grows(bytes, entsize, bytes', entsize', faults')
    BY <1>1, <1>2, <2>1, SameGrows
  <2>4. LogsFit(bytes', faults', noteLog', attrLog')
    BY <1>1, <1>6, <1>7, <2>1 DEF LogsFit, CacheInv
  <2> QED
    BY <1>1, <1>2, <1>4, <1>5, <1>6, <2>1, <2>2, <2>3, <2>4, Changes
<1>9. CASE ok
  <2> DEFINE t == s \o <<value>>
  <2>1. /\ bytes' = [bytes EXCEPT !["versym"] = @ \o <<value>>] /\ bytes.present
    BY <1>5, <1>9
  <2>2. /\ DOMAIN bytes' = DOMAIN bytes /\ bytes'.versym = t
        /\ bytes'.present = bytes.present /\ bytes'.note = bytes.note
        /\ bytes'.modinfo = bytes.modinfo /\ bytes'.dynamic = bytes.dynamic
        /\ bytes'.verneed = bytes.verneed /\ bytes'.verdef = bytes.verdef
    BY <1>2, <2>1 DEF Held, Sections, Chains
  <2>3. t \in Seq(Nat) /\ Len(t) = Len(s) + 1 /\ Len(s) \in Nat
    BY <1>2
  <2> HIDE DEF t
  <2>4. Held(bytes')
    BY <1>2, <2>2, <2>3 DEF Held
  <2>5. Grows(bytes, entsize, bytes', entsize', faults')
    <3>1. Grows(bytes, entsize, bytes, entsize, faults')
      BY <1>2, SameGrows
    <3>2. Len(s) <= Len(t)
      BY <2>3
    <3> QED
      BY <1>1, <2>2, <3>1, <3>2, Zenon DEF Grows
  <2>6. CacheFits(r, bytes', entsize', faults')
    <3>1. "versym" \notin faults' => r.num <= Len(bytes'.versym)
      <4> HAVE "versym" \notin faults'
      <4>1. num <= Len(s)
        BY <1>1, <1>3, <1>6, <2>1 DEF CacheFits, num
      <4> QED
        BY <1>3, <1>4, <2>2, <2>3, <4>1
    <3> QED
      BY <1>4, <3>1 DEF CacheFits, Chains
  <2>7. LogsFit(bytes', faults', noteLog', attrLog')
    BY <1>1, <1>6, <1>7, <2>2 DEF LogsFit, CacheInv
  <2> QED
    BY <1>1, <1>2, <1>4, <1>5, <1>6, <2>4, <2>5, <2>6, <2>7, Changes
<1> QED
  BY <1>8, <1>9

LEMMA ModifiesVersym ==
  ASSUME CacheInv, NEW a \in Accessors, NEW no \in 0 .. acc[a].num - 1,
         NEW value \in Numbers, ModifyVersym(a, no, value)
  PROVE  CacheInv'
<1> DEFINE s == bytes.versym
           t == [s EXCEPT ![no + 1] = value]
<1>0. CASE ~VersymInside(no)
  BY <1>0, Zenon DEF ModifyVersym, logs, CacheInv
<1> SUFFICES ASSUME VersymInside(no)
             PROVE  CacheInv'
  BY <1>0
<1>1. /\ no < Len(s) /\ bytes' = [bytes EXCEPT !.versym[no + 1] = value]
      /\ acc' = acc /\ entsize' = entsize /\ noteLog' = noteLog
      /\ attrLog' = attrLog /\ faults' = faults /\ adds' = adds
  BY DEF ModifyVersym, VersymInside, logs
<1>2. /\ s \in Seq(Nat) /\ Held(bytes) /\ entsize \in BOOLEAN /\ value \in Nat
      /\ adds \in 0 .. MaxAdds /\ faults \subseteq Sections \cup {"cut"}
  BY AccessorsAssumption DEF CacheInv, Held
<1>3. t \in Seq(Nat) /\ Len(t) = Len(s) /\ Len(s) \in Nat
  <2>1. acc[a].num \in Nat
    BY DEF CacheInv, AccessorRecord
  <2>2. no + 1 \in 1 .. Len(s)
    BY <1>1, <1>2, <2>1
  <2> QED
    BY <1>2, <2>2, ExceptSeq
<1>4. /\ DOMAIN bytes' = DOMAIN bytes /\ bytes'.versym = t
      /\ bytes'.present = bytes.present /\ bytes'.note = bytes.note
      /\ bytes'.modinfo = bytes.modinfo /\ bytes'.dynamic = bytes.dynamic
      /\ bytes'.verneed = bytes.verneed /\ bytes'.verdef = bytes.verdef
  <2>1. bytes' = [bytes EXCEPT !["versym"] = t]
    BY <1>1
  <2> HIDE DEF t
  <2> QED
    BY <1>2, <2>1 DEF Held, Sections, Chains
<1> HIDE DEF t
<1>5. Held(bytes')
  BY <1>2, <1>3, <1>4 DEF Held
<1>6. Grows(bytes, entsize, bytes', entsize', faults')
  <2>1. Grows(bytes, entsize, bytes, entsize, faults')
    BY <1>2, SameGrows
  <2>2. Len(s) <= Len(t)
    BY <1>3
  <2> QED
    BY <1>1, <1>4, <2>1, <2>2, Zenon DEF Grows
<1> QED
  BY <1>1, <1>2, <1>4, <1>5, <1>6, ContentsChange

(* Accessors that count are made.                                          *)
LEMMA ConstructsOthers ==
  ASSUME CacheInv, NEW a \in Accessors,
         \/ ConstructDynamic(a) \/ ConstructVersym(a)
         \/ ConstructVerneed(a) \/ ConstructVerdef(a)
  PROVE  CacheInv'
<1>1. /\ {"dynamic", "versym", "verneed", "verdef"} \subseteq Counting
      /\ Len(bytes.versym) \in Nat /\ 0 \in Nat
      /\ "verneed" \in Chains /\ "verdef" \in Chains
      /\ "dynamic" \notin Chains /\ "versym" \notin Chains
  BY DEF Counting, Chains, CacheInv, Held
<1>2. \A chain : ChainCount(chain) \in Nat
  <2>1. /\ bytes.present \in BOOLEAN /\ entsize \in BOOLEAN
        /\ bytes.dynamic \in Seq(DynamicEntries)
    BY DEF CacheInv, Held
  <2> QED
    BY <2>1, CountsAreThose, NumbersAreNaturals, Zenon
<1>3. CASE ConstructDynamic(a)
  BY <1>1, <1>3, ConstructsCounting DEF ConstructDynamic
<1>4. CASE ConstructVersym(a)
  BY <1>1, <1>4, ConstructsCounting DEF ConstructVersym
<1>5. CASE ConstructVerneed(a)
  BY <1>1, <1>2, <1>5, ConstructsCounting DEF ConstructVerneed
<1>6. CASE ConstructVerdef(a)
  BY <1>1, <1>2, <1>6, ConstructsCounting DEF ConstructVerdef
<1> QED
  BY <1>3, <1>4, <1>5, <1>6

-----------------------------------------------------------------------------
(* The invariant holds in every state.                                     *)

LEMMA CachesInitially == Init => CacheInv
<1> SUFFICES ASSUME Init
             PROVE  CacheInv
  OBVIOUS
<1>1. PICK f \in Files :
        /\ bytes = [x \in DOMAIN f \ {"entsize"} |-> f[x]]
        /\ entsize = f.entsize
        /\ acc = [a \in Accessors |-> Accessor("none", <<>>, 0)]
        /\ noteLog = Notes(f.note) /\ attrLog = Attributes(f.modinfo)
        /\ faults = IF OnlyNotes(f.note) THEN {} ELSE {"cut"}
        /\ adds = 0 /\ outside = {}
  BY DEF Init
<1>2. IsFile(f)
  BY AccessorsAssumption
<1>3. /\ DOMAIN bytes = Sections \cup Chains \cup {"present"}
      /\ \A x \in Sections \cup Chains \cup {"present"} : bytes[x] = f[x]
  BY <1>1, <1>2 DEF IsFile, Sections, Chains
<1>4. /\ bytes.note = f.note /\ bytes.modinfo = f.modinfo
      /\ bytes.dynamic = f.dynamic /\ bytes.versym = f.versym
      /\ bytes.verneed = f.verneed /\ bytes.verdef = f.verdef
      /\ bytes.present = f.present
  BY <1>3 DEF Sections, Chains
<1>5. Held(bytes)
  BY <1>2, <1>3, <1>4 DEF Held, IsFile
<1>6. entsize \in BOOLEAN /\ adds \in 0 .. MaxAdds
      /\ faults \subseteq Sections \cup {"cut"}
  BY <1>1, <1>2, AccessorsAssumption DEF IsFile
<1>7. /\ Accessor("none", <<>>, 0) \in AccessorRecord
      /\ Accessor("none", <<>>, 0).on = "none"
  BY Recorded DEF Counting
<1>8. acc \in [Accessors -> AccessorRecord] /\ \A a \in Accessors : acc[a].on = "none"
  BY <1>1, <1>7
<1>9. \A a \in Accessors : CacheFits(acc[a], bytes, entsize, faults)
  BY <1>8 DEF CacheFits, Chains
<1>10. LogsFit(bytes, faults, noteLog, attrLog)
  <2>1. faults \cap {"note", "cut"} = {} => OnlyNotes(f.note)
    BY <1>1
  <2> QED
    BY <1>1, <1>4, <2>1 DEF LogsFit
<1> QED
  BY <1>5, <1>6, <1>8, <1>9, <1>10 DEF CacheInv

LEMMA CachesStepwise ==
  ASSUME CacheInv, [Next]_vars
  PROVE  CacheInv'
<1>1. CASE SetEntrySize
  BY <1>1, SetsEntrySize
<1>2. ASSUME NEW a \in Accessors, ConstructNote(a)
      PROVE  CacheInv'
  BY <1>2, ConstructsNote
<1>3. ASSUME NEW a \in Accessors, ConstructModinfo(a)
      PROVE  CacheInv'
  BY <1>3, ConstructsModinfo
<1>4. ASSUME NEW a \in Accessors,
             \/ ConstructDynamic(a) \/ ConstructVersym(a)
             \/ ConstructVerneed(a) \/ ConstructVerdef(a)
      PROVE  CacheInv'
  BY <1>4, ConstructsOthers
<1>5. ASSUME NEW a \in Accessors, GetEntriesNum(a)
      PROVE  CacheInv'
  BY <1>5, GetsEntriesNum
<1>6. ASSUME NEW a \in Accessors, NEW ok \in BOOLEAN, NEW n \in NotesToAdd,
             NEW isNull \in BOOLEAN, AddNote(a, n, isNull, ok)
      PROVE  CacheInv'
  BY <1>6, AddsNote
<1>7. ASSUME NEW a \in Accessors, NEW ok \in BOOLEAN, NEW field \in Fields,
             NEW value \in Values, AddAttribute(a, field, value, ok)
      PROVE  CacheInv'
  BY <1>7, AddsAttribute
<1>8. ASSUME NEW a \in Accessors, NEW ok \in BOOLEAN, NEW tag \in Tags,
             NEW value \in Numbers, AddDynamic(a, tag, value, ok)
      PROVE  CacheInv'
  BY <1>8, AddsDynamic
<1>9. ASSUME NEW a \in Accessors, NEW ok \in BOOLEAN, NEW value \in Numbers,
             AddVersym(a, value, ok)
      PROVE  CacheInv'
  BY <1>9, AddsVersym
<1>10. ASSUME NEW a \in Accessors, NEW no \in 0 .. acc[a].num - 1,
              NEW value \in Numbers, ModifyVersym(a, no, value)
       PROVE  CacheInv'
  BY <1>10, ModifiesVersym
<1>11. ASSUME NEW a \in Accessors, NEW i,
              GetNote(a, i) \/ GetVersym(a, i) \/ GetVersion(a, i)
       PROVE  CacheInv'
  <2>1. UNCHANGED <<bytes, entsize, acc, logs>>
    BY <1>11, Zenon DEF GetNote, GetVersym, GetVersion
  <2> QED
    BY <2>1, Zenon DEF logs, CacheInv
<1>12. CASE UNCHANGED vars
  BY <1>12, Zenon DEF vars, logs, CacheInv
<1> QED
  BY <1>1, <1>2, <1>3, <1>4, <1>5, <1>6, <1>7, <1>8, <1>9, <1>10, <1>11, <1>12,
     Zenon
     DEF Next

(* What the caches remember is in the bytes.                               *)
LEMMA InvTrails ==
  ASSUME CacheInv
  PROVE  CachesTrail
<1> SUFFICES ASSUME bytes.present, NEW a \in Accessors
             PROVE  CASE acc[a].on = "note" ->
                           WholeNotes =>
                             Range0(acc[a].list) \subseteq Range0(NotePositions(bytes.note))
                      [] acc[a].on = "modinfo" ->
                           "modinfo" \notin faults =>
                             Range0(acc[a].list) \subseteq Range0(Attributes(bytes.modinfo))
                      [] acc[a].on = "dynamic" -> acc[a].num <= DynamicCount
                      [] acc[a].on = "versym" ->
                           "versym" \notin faults => acc[a].num <= Len(bytes.versym)
                      [] acc[a].on \in Chains ->
                           acc[a].num # 0 => acc[a].num = ChainCount(acc[a].on)
                      [] OTHER -> TRUE
  BY Zenon DEF CachesTrail
<1>1. CacheFits(acc[a], bytes, entsize, faults) /\ bytes.present = TRUE
  BY DEF CacheInv, Held
<1>2. /\ acc[a].on = "note" /\ WholeNotes =>
           Range0(acc[a].list) \subseteq Range0(NotePositions(bytes.note))
      /\ acc[a].on = "modinfo" /\ "modinfo" \notin faults =>
           Range0(acc[a].list) \subseteq Range0(Attributes(bytes.modinfo))
      /\ acc[a].on = "versym" /\ "versym" \notin faults =>
           acc[a].num <= Len(bytes.versym)
  BY <1>1, Zenon DEF CacheFits, WholeNotes
<1>3. DynamicCount = CountOf(TRUE, bytes.dynamic, entsize)
  BY <1>1, CountsAreThose, Zenon
<1>4. acc[a].on = "dynamic" => acc[a].num <= DynamicCount
  BY <1>1, <1>3, Zenon DEF CacheFits
<1>5. acc[a].on \in Chains /\ acc[a].num # 0 => acc[a].num = ChainCount(acc[a].on)
  <2>1. ChainCount(acc[a].on) =
          NumberOf(TRUE, bytes.dynamic, entsize, ChainTag(acc[a].on))
    BY <1>1, CountsAreThose, Zenon
  <2> QED
    BY <1>1, <2>1, Zenon DEF CacheFits
<1>6. Chains \cap {"note", "modinfo", "dynamic", "versym", "none"} = {}
  BY Kinds
<1> DEFINE count == DynamicCount
           number == ChainCount(acc[a].on)
           on == acc[a].on
           ok1 == Range0(acc[a].list) \subseteq Range0(NotePositions(bytes.note))
           ok2 == Range0(acc[a].list) \subseteq Range0(Attributes(bytes.modinfo))
           ok3 == acc[a].num <= DynamicCount
           ok4 == acc[a].num <= Len(bytes.versym)
           ok5 == acc[a].num # 0 => acc[a].num = number
<1>7. /\ on = "note" /\ WholeNotes => ok1
      /\ on = "modinfo" /\ "modinfo" \notin faults => ok2
      /\ on = "dynamic" => ok3
      /\ on = "versym" /\ "versym" \notin faults => ok4
      /\ on \in Chains => ok5
  BY <1>2, <1>4, <1>5
<1> HIDE DEF count, number, on, ok1, ok2, ok3, ok4, ok5
<1>8. CASE on = "note"
  BY <1>6, <1>7, <1>8 DEF on, ok1
<1>9. CASE on = "modinfo"
  BY <1>6, <1>7, <1>9 DEF on, ok2
<1>10. CASE on = "dynamic"
  BY <1>6, <1>7, <1>10 DEF on, ok3
<1>11. CASE on = "versym"
  BY <1>6, <1>7, <1>11 DEF on, ok4
<1>12. CASE on \in Chains
  BY <1>6, <1>7, <1>12 DEF on, ok5, number
<1>13. CASE on \notin {"note", "modinfo", "dynamic", "versym"} \cup Chains
  BY <1>13 DEF on
<1> QED
  BY <1>8, <1>9, <1>10, <1>11, <1>12, <1>13

LEMMA RangeInside ==
  ASSUME NEW S, NEW s \in Seq(S)
  PROVE  Range0(s) \subseteq S
BY DEF Range0

LEMMA InvTyped ==
  ASSUME CacheInv, outside \subseteq Places
  PROVE  AccessorsTypeOK
<1>1. /\ bytes.note \in Seq(Nat) /\ bytes.dynamic \in Seq(DynamicEntries)
      /\ bytes.versym \in Seq(Nat) /\ entsize \in BOOLEAN
      /\ faults \subseteq Sections \cup {"cut"} /\ adds \in 0 .. MaxAdds
  BY DEF CacheInv, Held
<1>2. Range0(bytes.note) \subseteq Nat /\ Range0(bytes.versym) \subseteq Nat
      /\ Range0(bytes.dynamic) \subseteq DynamicEntries
  BY <1>1, RangeInside
<1>3. \A e \in Range0(bytes.dynamic) :
        e.value \in Nat /\ (e.tag \in NoValue => e.value = 0)
  <2>1. \A e \in DynamicEntries : e.value \in Nat /\ (e.tag \in NoValue => e.value = 0)
    BY DEF DynamicEntries
  <2> QED
    BY <1>2, <2>1
<1>4. ASSUME NEW a \in Accessors
      PROVE  /\ acc[a].on \in {"none"} \cup Sections \cup Chains
             /\ acc[a].num \in Nat
             /\ acc[a].num = 0 \/ acc[a].list = <<>>
  BY DEF CacheInv, AccessorRecord, Counting, Sections
<1>5. CachesTrail
  BY InvTrails
<1> QED
  BY <1>1, <1>2, <1>3, <1>4, <1>5, Zenon DEF AccessorsTypeOK, Places

LEMMA NotesAreInside ==
  ASSUME NEW s \in Seq(Nat), NEW p \in Nat, IsNote(s, p)
  PROVE  NoteName(s, p) \cup NoteDesc(s, p) \subseteq 0 .. Len(s) - 1
<1> DEFINE x == WordsOf(Word(s, p))
           y == WordsOf(Word(s, p + 1))
<1>1. /\ p + 3 <= Len(s) /\ p + Advance(s, p) <= Len(s) /\ Len(s) \in Nat
      /\ Word(s, p) \in Nat /\ Word(s, p + 1) \in Nat
      /\ Advance(s, p) = 3 + x + y
  BY Advances DEF IsNote, NoteFits
<1>2. x \in Nat /\ y \in Nat
  BY <1>1, WordsOfText
<1>3. NoteName(s, p) = p + 3 .. p + 2 + x
  BY DEF NoteName
<1>4. NoteDesc(s, p) = p + 3 + x .. p + 3 + x + y - 1
  BY DEF NoteDesc
<1> HIDE DEF x, y
<1>5. p + 3 + x + y <= Len(s)
  <2>1. p + (3 + x + y) <= Len(s)
    BY <1>1
  <2> QED
    BY <1>1, <1>2, <2>1
<1>6. /\ p + 3 .. p + 2 + x \subseteq 0 .. Len(s) - 1
      /\ p + 3 + x .. p + 3 + x + y - 1 \subseteq 0 .. Len(s) - 1
  <2> DEFINE L == Len(s)
  <2>1. L \in Nat /\ p + 3 + x + y <= L
    BY <1>1, <1>5
  <2> HIDE DEF L
  <2>2. \A i \in p + 3 .. p + 2 + x : i \in 0 .. L - 1
    BY <1>2, <2>1
  <2>3. \A i \in p + 3 + x .. p + 3 + x + y - 1 : i \in 0 .. L - 1
    BY <1>2, <2>1
  <2> QED
    BY <2>2, <2>3 DEF L
<1> QED
  BY <1>3, <1>4, <1>6

(* What the caches remember can be reached.                                *)
LEMMA NotesReachable ==
  ASSUME CacheInv, NEW a \in Accessors, acc[a].on = "note", bytes.present,
         "note" \notin faults, NEW i \in DOMAIN acc[a].list
  PROVE  NoteInside(acc[a].list[i])
<1> DEFINE p == acc[a].list[i]
<1>1. bytes.note \in Seq(Nat) /\ CacheFits(acc[a], bytes, entsize, faults)
  BY DEF CacheInv, Held
<1>2. p \in Range0(acc[a].list)
  BY DEF Range0
<1>3. p \in Nat /\ IsNote(bytes.note, p)
  BY <1>1, <1>2 DEF CacheFits
<1>4. p + 3 <= Len(bytes.note)
  BY <1>3 DEF IsNote
<1>5. NoteName(bytes.note, p) \cup NoteDesc(bytes.note, p)
        \subseteq 0 .. Len(bytes.note) - 1
  BY <1>1, <1>3, NotesAreInside
<1> QED
  BY <1>4, <1>5 DEF NoteInside

LEMMA VersymReachable ==
  ASSUME CacheInv, NEW a \in Accessors, acc[a].on = "versym", bytes.present,
         "versym" \notin faults, NEW no \in 0 .. acc[a].num - 1
  PROVE  VersymInside(no)
<1>1. /\ bytes.versym \in Seq(Nat) /\ acc[a].num \in Nat
      /\ CacheFits(acc[a], bytes, entsize, faults)
  BY DEF CacheInv, Held, AccessorRecord
<1>2. acc[a].num <= Len(bytes.versym) /\ Len(bytes.versym) \in Nat
  BY <1>1 DEF CacheFits
<1> QED
  BY <1>1, <1>2 DEF VersymInside

LEMMA ChainsReachable ==
  ASSUME CacheInv, NEW a \in Accessors, acc[a].on \in Chains,
         NEW no \in 0 .. acc[a].num - 1
  PROVE  {Position(acc[a].on, no), AuxPosition(acc[a].on, no)}
           \subseteq 0 .. Len(bytes[acc[a].on]) - 1
<1> DEFINE on == acc[a].on
           num == acc[a].num
<1>1. num \in Nat /\ IsChain(bytes["verneed"]) /\ IsChain(bytes["verdef"])
  BY DEF CacheInv, Held, AccessorRecord
<1>2. no \in Nat /\ IsChain(bytes[on])
  BY <1>1 DEF Chains
<1> DEFINE last == Len(bytes[on]) \div 2
           r == Reached(last, no)
<1>3. /\ r \in 0 .. last - 1 /\ last \in Nat /\ Len(bytes[on]) = 2 * last
      /\ Position(on, no) = 2 * r /\ AuxPosition(on, no) = 2 * r + 1
  <2>1. on \in Chains
    OBVIOUS
  <2> HIDE DEF on
  <2> QED
    BY <1>2, <2>1, Chained
<1> HIDE DEF last, r, on
<1>4. 2 * r \in 0 .. 2 * last - 1 /\ 2 * r + 1 \in 0 .. 2 * last - 1
  BY <1>3
<1> QED
  BY <1>3, <1>4 DEF on

(* Everything above                                                        *)
AccInv ==
  /\ CacheInv
  /\ Unlisted
  /\ outside \subseteq Places /\ ReadsInside

(* A step that is no read leaves everything inside.                        *)
LEMMA StaysInside ==
  ASSUME outside = {}, UNCHANGED outside
  PROVE  (outside \subseteq Places)' /\ ReadsInside'
BY DEF ReadsInside

LEMMA ReadsNote ==
  ASSUME AccInv, NEW a \in Accessors, NEW index \in 0 .. Len(acc[a].list),
         GetNote(a, index)
  PROVE  (outside \subseteq Places)' /\ ReadsInside'
<1> DEFINE at == acc[a].list
<1>1. /\ acc[a].on = "note" /\ faults' = faults /\ bytes' = bytes
      /\ index < Len(at) => Reach("note", NoteInside(at[index + 1]))
      /\ ~(index < Len(at)) => Reach("index", FALSE)
  BY DEF GetNote, logs
<1>2. at \in Seq(Nat)
  BY <1>1, RecordOf DEF AccInv, CacheInv
<1>3. CASE ~(index < Len(at))
  BY <1>1, <1>3 DEF Reach, ReadsInside, Places, Chains
<1>4. CASE index < Len(at)
  <2>1. index + 1 \in DOMAIN at
    BY <1>2, <1>4
  <2>2. "note" \in faults \/ NoteInside(at[index + 1])
    <3> SUFFICES ASSUME "note" \notin faults
                 PROVE  NoteInside(at[index + 1])
      OBVIOUS
    <3>1. bytes.present
      <4> SUFFICES ASSUME ~bytes.present
                   PROVE  FALSE
        OBVIOUS
      <4>1. at = <<>>
        BY <1>1 DEF AccInv, Unlisted
      <4> QED
        BY <2>1, <4>1
    <3> QED
      BY <1>1, <2>1, <3>1, NotesReachable DEF AccInv
  <2>3. outside' = {} \/ (outside' = {"note"} /\ "note" \in faults')
    BY <1>1, <1>4, <2>2 DEF Reach
  <2> QED
    BY <2>3 DEF ReadsInside, Places, Chains
<1> QED
  BY <1>3, <1>4

(* get_entry() and modify_entry() of version sections                      *)
LEMMA ReachesVersym ==
  ASSUME AccInv, NEW a \in Accessors, NEW no \in 0 .. acc[a].num - 1,
         acc[a].on = "versym", Reach("versym", VersymInside(no)),
         faults' = faults, bytes'.present = bytes.present
  PROVE  (outside \subseteq Places)' /\ ReadsInside'
<1>1. "versym" \in faults \/ ~bytes.present \/ VersymInside(no)
  BY VersymReachable DEF AccInv
<1>2. \/ outside' = {}
      \/ /\ outside' = {"versym"}
         /\ "versym" \in faults' \/ ~bytes'.present
  BY <1>1 DEF Reach
<1> QED
  BY <1>2 DEF ReadsInside, Places, Chains

LEMMA ReadsVersion ==
  ASSUME AccInv, NEW a \in Accessors, NEW no \in 0 .. acc[a].num - 1,
         GetVersion(a, no)
  PROVE  (outside \subseteq Places)' /\ ReadsInside'
<1> DEFINE chain == acc[a].on
           inside == /\ bytes.present
                     /\ {Position(chain, no), AuxPosition(chain, no)}
                          \subseteq 0 .. Len(bytes[chain]) - 1
<1>1. chain \in Chains /\ Reach(chain, inside) /\ bytes' = bytes
  BY DEF GetVersion
<1>2. ~bytes.present \/ inside
  BY <1>1, ChainsReachable DEF AccInv
<1> HIDE DEF chain, inside
<1>3. outside' = {} \/ (outside' = {chain} /\ ~bytes'.present)
  BY <1>1, <1>2 DEF Reach
<1> QED
  BY <1>1, <1>3 DEF ReadsInside, Places, Chains

LEMMA ReadsStepwise ==
  ASSUME AccInv, [Next]_vars
  PROVE  (outside \subseteq Places)' /\ ReadsInside'
<1>1. ASSUME NEW a \in Accessors, NEW index \in 0 .. Len(acc[a].list),
             GetNote(a, index)
      PROVE  (outside \subseteq Places)' /\ ReadsInside'
  BY <1>1, ReadsNote
<1>2. ASSUME NEW a \in Accessors, NEW no \in 0 .. acc[a].num - 1,
             \/ GetVersym(a, no)
             \/ \E value \in Numbers : ModifyVersym(a, no, value)
      PROVE  (outside \subseteq Places)' /\ ReadsInside'
  <2>1. /\ acc[a].on = "versym" /\ Reach("versym", VersymInside(no))
        /\ faults' = faults
    BY <1>2, Zenon DEF GetVersym, ModifyVersym, logs
  <2>2. bytes'.present = bytes.present
    BY <1>2 DEF GetVersym, ModifyVersym, AccInv, CacheInv, Held
  <2> QED
    BY <2>1, <2>2, ReachesVersym
<1>3. ASSUME NEW a \in Accessors, NEW no \in 0 .. acc[a].num - 1,
             GetVersion(a, no)
      PROVE  (outside \subseteq Places)' /\ ReadsInside'
  BY <1>3, ReadsVersion
<1>4. CASE UNCHANGED vars
  <2>1. UNCHANGED <<outside, faults, bytes>>
    BY <1>4 DEF vars, logs
  <2> QED
    BY <2>1, Zenon DEF AccInv, ReadsInside
<1>6. CASE SetEntrySize
  BY <1>6, StaysInside DEF SetEntrySize
<1>7. ASSUME NEW a \in Accessors,
             \/ ConstructNote(a) \/ ConstructModinfo(a) \/ ConstructDynamic(a)
             \/ ConstructVersym(a) \/ ConstructVerneed(a) \/ ConstructVerdef(a)
             \/ GetEntriesNum(a)
      PROVE  (outside \subseteq Places)' /\ ReadsInside'
  <2>1. outside = {} /\ outside' = outside
    BY <1>7, Zenon DEF ConstructNote, ConstructModinfo, ConstructDynamic,
       ConstructVersym, ConstructVerneed, ConstructVerdef, GetEntriesNum,
       Construct
  <2> QED
    BY <2>1, StaysInside
<1>8. ASSUME NEW a \in Accessors, NEW section, NEW content,
             NEW ok \in BOOLEAN, Append1(section, content, ok)
      PROVE  (outside \subseteq Places)' /\ ReadsInside'
  BY <1>8, StaysInside DEF Append1
<1>9. ASSUME NEW a \in Accessors, NEW ok \in BOOLEAN,
             \/ \E n \in NotesToAdd, isNull \in BOOLEAN :
                  AddNote(a, n, isNull, ok)
             \/ \E f \in Fields, v \in Values : AddAttribute(a, f, v, ok)
             \/ \E t \in Tags, v \in Numbers : AddDynamic(a, t, v, ok)
             \/ \E v \in Numbers : AddVersym(a, v, ok)
      PROVE  (outside \subseteq Places)' /\ ReadsInside'
  BY <1>8, <1>9, Zenon DEF AddNote, AddAttribute, AddDynamic, AddVersym
<1> QED
  BY <1>1, <1>2, <1>3, <1>4, <1>6, <1>7, <1>9, Zenon DEF Next

(* Without data an accessor of notes remembers none but what it could not  *)
(* add.                                                                    *)
LEMMA ListsNothing ==
  ASSUME CacheInv, Unlisted, NEW a \in Accessors, NEW r,
         acc' = [acc EXCEPT ![a] = r],
         ~bytes.present /\ r.on = "note" => r.list = <<>>,
         bytes'.present = bytes.present, faults' = faults
  PROVE  Unlisted'
<1>1. \A x \in Accessors : acc'[x] = IF x = a THEN r ELSE acc[x]
  BY DEF CacheInv
<1> QED
  BY <1>1 DEF Unlisted

LEMMA UnlistedStepwise ==
  ASSUME CacheInv, Unlisted, [Next]_vars
  PROVE  Unlisted'
<1>1. ASSUME faults \subseteq faults', bytes'.present = bytes.present,
             acc' = acc
      PROVE  Unlisted'
  BY <1>1 DEF Unlisted
<1>2. CASE UNCHANGED vars \/ SetEntrySize
  BY <1>1, <1>2 DEF SetEntrySize, vars, logs
<1>3. ASSUME NEW a \in Accessors, NEW r, Construct(a, r),
             ~bytes.present /\ r.on = "note" => r.list = <<>>
      PROVE  Unlisted'
  BY <1>3, ListsNothing, Zenon DEF Construct, logs
<1>4. ASSUME NEW a \in Accessors, ConstructNote(a) \/ ConstructModinfo(a)
      PROVE  Unlisted'
  <2> DEFINE r1 == Accessor("note",
                IF bytes.present THEN NotePositions(bytes.note) ELSE <<>>, 0)
             r2 == Accessor("modinfo",
                IF bytes.present THEN Attributes(bytes.modinfo) ELSE <<>>, 0)
  <2>1. Construct(a, r1) \/ Construct(a, r2)
    BY <1>4, Zenon DEF ConstructNote, ConstructModinfo
  <2>2. ~bytes.present => r1.list = <<>>
    BY DEF Accessor
  <2>3. r2.on # "note"
    BY DEF Accessor
  <2> HIDE DEF r1, r2
  <2> QED
    BY <1>3, <2>1, <2>2, <2>3
<1>5. ASSUME NEW a \in Accessors,
             \/ ConstructDynamic(a) \/ ConstructVersym(a)
             \/ ConstructVerneed(a) \/ ConstructVerdef(a)
      PROVE  Unlisted'
  <2>1. \E on, num : Construct(a, Accessor(on, <<>>, num))
    BY <1>5, Zenon DEF ConstructDynamic, ConstructVersym, ConstructVerneed,
       ConstructVerdef
  <2>2. PICK on, num : Construct(a, Accessor(on, <<>>, num))
    BY <2>1
  <2>3. Accessor(on, <<>>, num).list = <<>>
    BY DEF Accessor
  <2> QED
    BY <1>3, <2>2, <2>3
<1>6. ASSUME NEW a \in Accessors, GetEntriesNum(a)
      PROVE  Unlisted'
  <2>1. /\ acc[a].on = "dynamic" /\ faults' = faults /\ bytes' = bytes
        /\ acc' = [acc EXCEPT ![a].num = DynamicCount]
    BY <1>6 DEF GetEntriesNum, logs
  <2>2. \A x \in Accessors : acc'[x].on = acc[x].on /\
          (acc[x].on = "note" => acc'[x] = acc[x])
    <3> HIDE DEF DynamicCount
    <3> QED
      BY <2>1 DEF CacheInv, AccessorRecord
  <2> QED
    BY <2>1, <2>2, Zenon DEF Unlisted
<1>7. ASSUME NEW section \in Sections, NEW content, NEW ok \in BOOLEAN,
             Append1(section, content, ok)
      PROVE  bytes'.present = bytes.present /\ (~bytes.present => ~ok)
  BY <1>7 DEF Append1, CacheInv, Held, Sections
<1>8. ASSUME NEW a \in Accessors, NEW ok \in BOOLEAN,
             \E n \in NotesToAdd, isNull \in BOOLEAN : AddNote(a, n, isNull, ok)
      PROVE  Unlisted'
  <2>1. PICK n \in NotesToAdd, isNull \in BOOLEAN : AddNote(a, n, isNull, ok)
    BY <1>8
  <2> DEFINE c == EncodedNote(n, isNull)
  <2>2. Append1("note", c, ok) /\ Fault("note", ~ok \/ (isNull /\ n.desc.size # 0))
    BY <2>1, Zenon DEF AddNote
  <2>3. bytes'.present = bytes.present /\ (~bytes.present => ~ok)
    BY <1>7, <2>2 DEF Sections
  <2>4. acc' = [acc EXCEPT ![a].list = Append(@, NewPosition(ok, c))]
    BY <2>1, Zenon DEF AddNote
  <2>5. ~ok => "note" \in faults'
    BY <2>2 DEF Fault
  <2> QED
    BY <2>3, <2>5, Zenon DEF Unlisted
<1>9. ASSUME NEW a \in Accessors, NEW ok \in BOOLEAN, NEW f \in Fields,
             NEW v \in Values, AddAttribute(a, f, v, ok)
      PROVE  Unlisted'
  <2>1. /\ acc[a].on = "modinfo" /\ Append1("modinfo", <<f \o <<"=">> \o v>>, ok)
        /\ acc' = [acc EXCEPT ![a].list = Append(@, <<f, v>>)]
        /\ faults \subseteq faults'
    BY <1>9 DEF AddAttribute, Fault
  <2>2. bytes'.present = bytes.present
    BY <1>7, <2>1 DEF Sections
  <2>3. \A x \in Accessors : acc'[x].on = acc[x].on /\
          (acc[x].on = "note" => acc'[x] = acc[x])
    BY <2>1 DEF CacheInv, AccessorRecord
  <2> QED
    BY <2>1, <2>2, <2>3 DEF Unlisted
<1>10. ASSUME NEW a \in Accessors, NEW ok \in BOOLEAN, NEW t \in Tags,
              NEW v \in Numbers, AddDynamic(a, t, v, ok)
       PROVE  Unlisted'
  <2>1. /\ Append1("dynamic", <<[tag |-> t, value |-> StoredValue(t, v)]>>, ok)
        /\ acc' = acc /\ faults \subseteq faults'
    BY <1>10 DEF AddDynamic, Fault
  <2>2. bytes'.present = bytes.present
    BY <1>7, <2>1 DEF Sections
  <2> QED
    BY <1>1, <2>1, <2>2
<1>11. ASSUME NEW a \in Accessors, NEW ok \in BOOLEAN, NEW v \in Numbers,
              AddVersym(a, v, ok)
       PROVE  Unlisted'
  <2>1. /\ acc[a].on = "versym" /\ Append1("versym", <<v>>, ok)
        /\ acc' = [acc EXCEPT ![a].num = @ + 1] /\ faults \subseteq faults'
    BY <1>11 DEF AddVersym, Fault
  <2>2. bytes'.present = bytes.present
    BY <1>7, <2>1 DEF Sections
  <2>3. \A x \in Accessors : acc'[x].on = acc[x].on /\
          (acc[x].on = "note" => acc'[x] = acc[x])
    BY <2>1 DEF CacheInv, AccessorRecord
  <2> QED
    BY <2>1, <2>2, <2>3 DEF Unlisted
<1>12. ASSUME NEW a \in Accessors, NEW i,
              \/ GetNote(a, i) \/ GetVersym(a, i) \/ GetVersion(a, i)
              \/ \E v \in Numbers : ModifyVersym(a, i, v)
       PROVE  Unlisted'
  <2>1. acc' = acc /\ faults' = faults
    BY <1>12, Zenon DEF GetNote, GetVersym, GetVersion, ModifyVersym, logs
  <2>2. bytes'.present = bytes.present
    BY <1>12 DEF GetNote, GetVersym, GetVersion, ModifyVersym, CacheInv, Held
  <2> QED
    BY <1>1, <2>1, <2>2
<1> QED
  BY <1>2, <1>4, <1>5, <1>6, <1>8, <1>9, <1>10, <1>11, <1>12, Zenon DEF Next

LEMMA AccInitially == Init => AccInv
<1> SUFFICES ASSUME Init
             PROVE  AccInv
  OBVIOUS
<1>1. CacheInv
  BY CachesInitially
<1>2. outside = {} /\ acc = [a \in Accessors |-> Accessor("none", <<>>, 0)]
  BY Zenon DEF Init
<1>3. Unlisted
  BY <1>2 DEF Unlisted, Accessor
<1> QED
  BY <1>1, <1>2, <1>3 DEF AccInv, ReadsInside

LEMMA AccStepwise ==
  ASSUME AccInv, [Next]_vars
  PROVE  AccInv'
<1>1. CacheInv'
  BY CachesStepwise DEF AccInv
<1>2. Unlisted'
  BY UnlistedStepwise DEF AccInv
<1>3. (outside \subseteq Places)' /\ ReadsInside'
  BY ReadsStepwise
<1> QED
  BY <1>1, <1>2, <1>3 DEF AccInv

LEMMA InvFollows ==
  ASSUME CacheInv
  PROVE  VersionsFollow
<1> SUFFICES ASSUME bytes.present,
                    NEW a \in Accessors, acc[a].on \in Chains,
                    NEW no \in 0 .. acc[a].num - 1
             PROVE  ChainEntry(acc[a].on, no)
                      = Written(acc[a].on)[IF no < Len(Written(acc[a].on))
                                           THEN no + 1 ELSE Len(Written(acc[a].on))]
  BY Zenon DEF VersionsFollow
<1> DEFINE on == acc[a].on
           c == bytes[on]
           last == Len(c) \div 2
           r == Reached(last, no)
<1>1. on \in {"verneed", "verdef"} /\ no \in Nat /\ IsChain(c) /\ on \in Chains
  BY DEF CacheInv, Held, AccessorRecord, Chains
<1>2. /\ r \in 0 .. last - 1 /\ last \in Nat /\ last >= 1
      /\ Position(on, no) = 2 * r /\ AuxPosition(on, no) = 2 * r + 1
  <2> HIDE DEF on
  <2> QED
    BY <1>1, Chained
<1>3. ChainEntry(on, no) = <<c[2 * r + 1].text, c[(2 * r + 1) + 1].text>>
  <2> HIDE DEF on, r
  <2>1. CASE on = "verneed"
    BY <1>2, <2>1 DEF ChainEntry, VerneedEntry
  <2>2. CASE on = "verdef"
    BY <1>2, <2>2 DEF ChainEntry, VerdefEntry
  <2> QED
    BY <1>1, <2>1, <2>2
<1>4. Written(on) = [i \in 1 .. last |-> <<c[2 * i - 1].text, c[2 * i].text>>]
  BY Zenon DEF Written
<1> HIDE DEF c, last
<1> DEFINE texts == [i \in 1 .. last |-> <<c[2 * i - 1].text, c[2 * i].text>>]
<1>5. Len(texts) = last
  BY <1>2
<1>6. r = IF no < last THEN no ELSE last - 1
  BY DEF Reached
<1> HIDE DEF r
<1>7. /\ r + 1 = (IF no < last THEN no + 1 ELSE last) /\ r + 1 \in 1 .. last
      /\ 2 * (r + 1) - 1 = 2 * r + 1 /\ 2 * (r + 1) = (2 * r + 1) + 1
  BY <1>1, <1>2, <1>6
<1>8. texts[r + 1] = <<c[2 * r + 1].text, c[(2 * r + 1) + 1].text>>
  <2>1. texts[r + 1] = <<c[2 * (r + 1) - 1].text, c[2 * (r + 1)].text>>
    BY <1>7
  <2> QED
    BY <1>7, <2>1
<1> HIDE DEF texts
<1> QED
  BY <1>3, <1>4, <1>5, <1>7, <1>8, Zenon DEF texts, on

(* The inductive invariant: what the sections hold, the notes and          *)
(* attributes that were added and what each accessor remembers of them.    *)
THEOREM AccessorsInvariance == Spec => []AccInv
<1>1. Init => AccInv
  BY AccInitially
<1>2. AccInv /\ [Next]_vars => AccInv'
  BY AccStepwise
<1> QED
  BY <1>1, <1>2, PTL DEF Spec

(* The sections hold what their accessors write, and no cache is ahead of  *)
(* the bytes: what one accessor counts or remembers another one finds.     *)
THEOREM AccessorsTypeCorrect == Spec => []AccessorsTypeOK
<1>1. AccInv => AccessorsTypeOK
  BY InvTyped DEF AccInv
<1> QED
  BY <1>1, AccessorsInvariance, PTL

(* add_note() and add_attribute(), called by any accessors in any order,   *)
(* write what process_section() reads back: the padding of a note's name   *)
(* and description is the one that the walk over the section steps by.     *)
THEOREM WhatIsAddedIsReparsed == Spec => []AddedIsReparsed
<1>1. AccInv => AddedIsReparsed
  BY Zenon DEF AccInv, CacheInv, LogsFit, AddedIsReparsed, WholeNotes
<1> QED
  BY <1>1, AccessorsInvariance, PTL

(* get_note() with an index that get_notes_num() allows, and get_entry()   *)
(* and modify_entry() of versions, stay inside the section, unless an      *)
(* addition could not be written as it was asked for or a section with     *)
(* versions has no data.                                                   *)
THEOREM ReadsStayInside == Spec => []ReadsInside
<1>1. AccInv => ReadsInside
  BY DEF AccInv
<1> QED
  BY <1>1, AccessorsInvariance, PTL

(* get_entry(no) of a version accessor gives the no-th record of the chain *)
(* with its own auxiliary record.                                          *)
THEOREM VersionsAreFollowed == Spec => []VersionsFollow
<1>1. AccInv => VersionsFollow
  BY InvFollows DEF AccInv
<1> QED
  BY <1>1, AccessorsInvariance, PTL

=============================================================================
