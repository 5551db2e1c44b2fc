----------------------------- MODULE MCEncoding -----------------------------
(* Numbers that tell apart the bytes, the widths and the signs             *)
EXTENDS Encoding

SomeFormats == {<<Class32, LSB>>, <<Class64, MSB>>}

Short == <<1, 2, 3, 4, 0, 0, 0, 0>>
Long == <<1, 2, 3, 4, 5, 6, 7, 8>>
Wide == <<0, 0, 0, 0, 1, 0, 0, 0>>
Negative == <<254, 255, 255, 255, 255, 255, 255, 255>>

SomeEntries(what) ==
  CASE what = "none" -> {}
    [] what = "REL" ->
         {[offset |-> Short, symbol |-> <<1, 2, 3, 0>>, type |-> <<7, 0, 0, 0>>],
          [offset |-> Long, symbol |-> <<1, 2, 3, 4>>, type |-> <<7, 8, 0, 0>>]}
    [] what = "RELA" ->
         {[offset |-> Short, symbol |-> <<1, 2, 3, 0>>, type |-> <<7, 0, 0, 0>>,
           addend |-> Negative],
          [offset |-> Short, symbol |-> <<1, 2, 3, 4>>, type |-> <<7, 0, 0, 0>>,
           addend |-> Long]}
    [] what = "SYMTAB" ->
         {[name |-> <<1, 2, 3, 4>>, value |-> Short, size |-> Number(300),
           bind |-> 1, type |-> 2, other |-> <<3>>, shndx |-> <<4, 5>>],
          [name |-> <<1, 0, 0, 0>>, value |-> Long, size |-> Long,
           bind |-> 17, type |-> 2, other |-> <<3>>, shndx |-> <<4, 5>>]}
    [] what = "DYNAMIC" ->
         {[tag |-> Negative, value |-> Short], [tag |-> Null, value |-> Short],
          [tag |-> Number(22), value |-> Short], [tag |-> Wide, value |-> Long]}
    [] what = "INIT_ARRAY" -> {[address |-> Short], [address |-> Long]}

Values == {<<"e_entry", Long>>}

(* The header and the rest of the file apart; and a cut through the middle *)
(* of what lies between the headers                                        *)
SomeDumps(c, size) ==
  LET top == Size["Ehdr"][c]
      cut == top + (size - top - Size["Shdr"][c]) \div 2
      range(start, length, mapped) ==
        [start |-> start, size |-> length, mapped |-> mapped]
  IN {IF size = top THEN {range(0, top, 2)}
      ELSE {range(0, top, 2), range(top, size - top, top + 9)}}
     \cup IF cut > top
          THEN {{range(0, cut, 0), range(cut, size - cut, cut + 5)}} ELSE {}
=============================================================================
