--------------------------- MODULE MCSectionData ---------------------------
(* A file of two bytes, two strings to store and insert, an offset inside  *)
(* the file, an Elf_Xword small enough for sizes to hit it, and a class of *)
(* files with a narrower size field.                                       *)
EXTENDS SectionData

MCFile == <<"a", "b">>
MCPayload == {<<"b">>, <<"a", "b">>}
MCOffsets == {1}
MCSizeLimits == {2, 4}
=============================================================================
