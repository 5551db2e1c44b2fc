----------------------------- MODULE MCElfFile -----------------------------
(***************************************************************************)
(* Two objects and nine files: two sound ones; one with a section, one    *)
(* with a segment, one with an entry of the section table and one with an  *)
(* entry of the segment table outside the file; one whose section header   *)
(* entries have a wrong size; one that is cut in the header and one that   *)
(* is no ELF file.                                                         *)
(***************************************************************************)
EXTENDS ElfFile, TLC

Null == [type |-> "NULL", nameoff |-> 0, table |-> TRUE, inside |-> TRUE,
         text |-> <<>>]
Bits(nameoff, text) == [Null EXCEPT !.type = "BITS", !.nameoff = nameoff,
                                    !.text = text]

Good == [kind |-> "elf", shstrndx |-> 1, shentsize_ok |-> TRUE,
         phentsize_ok |-> TRUE,
         secs |-> <<Null, Bits(1, <<"names">>)>>,
         segs |-> <<[table |-> TRUE, inside |-> TRUE, bytes |-> TRUE,
                     members |-> {1}]>>]

Small == [Good EXCEPT !.segs = <<>>]

(* The string table at the end, and an empty segment                       *)
Empty == [Good EXCEPT !.shstrndx = 2,
            !.secs = <<Null, Bits(1, <<"b">>), Bits(2, <<"x", "names">>)>>,
            !.segs = <<[table |-> TRUE, inside |-> TRUE, bytes |-> FALSE,
                        members |-> {}]>>]

Corrupt == [Empty EXCEPT !.secs[2].inside = FALSE]
CutTable == [Empty EXCEPT !.secs[2].type = "NOBITS", !.secs[3].table = FALSE]
CutSegment == [Good EXCEPT !.segs[1].inside = FALSE]
CutEntry == [Empty EXCEPT !.segs[1].table = FALSE]
NoEntries == [Good EXCEPT !.shentsize_ok = FALSE]
Short == [Good EXCEPT !.kind = "short"]
Foreign == [Good EXCEPT !.kind = "foreign"]

MCFiles == {Small, Empty, Corrupt, CutTable, CutSegment, CutEntry, NoEntries,
            Short, Foreign}

Symmetry == Permutations(Objects)
============================================================================
