------------------------------- MODULE MCArio -------------------------------
(* Names on both sides of the width of the header field, data and symbols  *)
(* of odd and even sizes, and archives written by other tools: without and *)
(* with long names and symbols, damaged in each of the ways load() meets.  *)
EXTENDS Ario

(* The text of a name from some character on; from -1, with a newline      *)
Text(n, d) == <<n, d>>

N15 == Text("n15", 0)
N16 == Text("n16", 0)
N21 == Text("n21", 0)

MCNames == {N15, N16, N21}
MCNameSize == [n \in Names |-> CASE n = N15 -> 15 [] n = N16 -> 16
                                  [] n = N21 -> 21]
MCTexts == {Text(n[1], d) : n \in Names, d \in -1..20}

(* The last 16 characters of one name are another one.                     *)
MCSuffix(n, d) == IF n = N21 /\ d = 5 THEN N16 ELSE Text(n[1], d)
MCLined(n) == Text(n[1], -1)

MCSymbolSize == [s \in Symbols |-> IF s = "f" THEN 1 ELSE 2]
MCSize == [c \in Contents |-> IF c = "odd" THEN 3 ELSE 4]

(* What ar(1) writes: every symbol at the position of its member           *)
Packed(owners, dir, entries, tail) ==
  LET bare == File(owners, dir, entries, tail)
  IN [bare EXCEPT !.symbols =
        [s \in DOMAIN owners |-> FilePos(bare, owners[s])]]

Odd(short) == Entry(short, 3, "odd")
EvenEntry(short) == Entry(short, 4, "even")

Nobody == [s \in {} |-> 0]

Blank == Packed(Nobody, <<>>, <<>>, "clean")
Alien == Packed(Nobody, <<>>, <<>>, "alien")

(* The same name twice                                                     *)
Twice == Packed([s \in {"f"} |-> 2], <<>>,
                <<Odd(InHeader(N15)), EvenEntry(InHeader(N15))>>, "clean")

CutShort == Packed([s \in {"f", "g"} |-> IF s = "f" THEN 1 ELSE 2],
                   <<N21, N16>>,
                   <<Odd(InDirectory(23)), Odd(InDirectory(0))>>, "cut")

Long == Packed([s \in {"g"} |-> 2], <<N16>>,
               <<EvenEntry(InHeader(N15)), EvenEntry(InDirectory(0))>>,
               "clean")

JunkBehind == Packed([s \in {"g"} |-> 1], <<N16>>,
                     <<Odd(InDirectory(0))>>, "junk")

(* A long name, and no directory for it                                    *)
Nameless == Packed([s \in {"g"} |-> 2], <<>>,
                   <<Odd(InHeader(N15)), Odd(InDirectory(0))>>, "clean")

(* Locations in the middle of a name and at a newline                      *)
Inside == Packed([s \in {"f", "g"} |-> IF s = "f" THEN 1 ELSE 2],
                 <<N21, N16>>,
                 <<Odd(InDirectory(5)), EvenEntry(InDirectory(22))>>, "clean")

(* Cut behind the symbol table                                             *)
Memberless == Packed([s \in {"f"} |-> 1], <<>>, <<>>, "clean")

Noise == Packed([s \in {"g"} |-> 1], <<>>, <<Odd(InHeader(N15))>>, "noise")

Disk(in, out) == [x \in Files |-> IF x = "in" THEN in ELSE out]

MCDisks ==
  {Disk(None, None), Disk(Long, Blank), Disk(Twice, Nameless),
   Disk(CutShort, None), Disk(JunkBehind, Alien), Disk(Long, Nameless),
   Disk(Inside, Memberless), Disk(Noise, None)}
=============================================================================
