------------------------------ MODULE MCLayout ------------------------------
(* Objects of three sections (and the null section) under segments that    *)
(* are absent, disjoint, nested or listed inner first, that hold the null  *)
(* section, that start at offset 0 and hold the headers, or whose memory   *)
(* size the client has set.                                                *)
EXTENDS Reload

Null == [type |-> "NULL", size |-> 0, align |-> 0, addr |-> 0,
         addr_set |-> FALSE, alloc |-> FALSE, tls |-> FALSE, offset |-> 0]

Sect(type, size, align) ==
  [Null EXCEPT !.type = type, !.size = size, !.align = align, !.alloc = TRUE]

At(s, addr) == [s EXCEPT !.addr = addr, !.addr_set = TRUE]

Kinds == {Sect("PROGBITS", 3, 1), Sect("PROGBITS", 5, 4),
          Sect("PROGBITS", 0, 4), Sect("NOBITS", 3, 4)}

ThreadLocal(s) == [s EXCEPT !.tls = TRUE]

Table(a, b, c) ==
  [x \in 0..3 |-> CASE x = 0 -> Null [] x = 1 -> a [] x = 2 -> b [] OTHER -> c]

(* .tdata and .tbss                                                        *)
ThreadLocals ==
  {ThreadLocal(Sect("PROGBITS", 3, 4)), ThreadLocal(Sect("NOBITS", 3, 4))}

(* A section that is not loaded into memory                                *)
Plain == [Sect("PROGBITS", 3, 4) EXCEPT !.alloc = FALSE]

IsMember(x, t) == \E g \in DOMAIN t : x \in Members(t[g].sections)

(* Nothing has an address yet, and what is in no segment is not loaded.    *)
NewTables(t) ==
  {[x \in 0..3 |-> [tab[x] EXCEPT !.alloc = @ /\ (t = <<>> \/ IsMember(x, t))]] :
     tab \in {Table(a, b, c) : a \in Kinds, b \in Kinds \cup ThreadLocals,
                    c \in Kinds \cup {Plain}}}

(* The addresses of a file whose first segment starts at offset 0 and      *)
(* address 128 and has room for 40 bytes of headers                        *)
ReadTables ==
  {Table(At(a, 168), At(b, 176), At(c, 184)) : a, b, c \in Kinds}

Segm(type, sections, vaddr, align) ==
  [type |-> type, sections |-> sections, vaddr |-> vaddr, align |-> align,
   offset |-> 0, offset_set |-> FALSE, memsz |-> 0, filesz |-> 0]

FromZero(s) == [s EXCEPT !.offset_set = TRUE]
AtOffset(s, off) == [s EXCEPT !.offset = off, !.offset_set = TRUE]

NewSegments(vaddr, align) ==
  {<<>>,
   <<Segm("LOAD", <<1, 2, 3>>, vaddr, align)>>,
   <<Segm("LOAD", <<0, 1, 2>>, vaddr, align)>>,
   <<[Segm("LOAD", <<1, 2, 3>>, vaddr, align) EXCEPT !.memsz = 32]>>,
   <<Segm("LOAD", <<1, 2>>, vaddr, align),
     Segm("LOAD", <<3>>, vaddr + 64, align)>>,
   <<Segm("TLS", <<2>>, vaddr, 1),
     Segm("LOAD", <<1, 2, 3>>, vaddr, align)>>,
   <<Segm("NOTE", <<2>>, vaddr, 1), Segm("RELRO", <<2, 3>>, vaddr, 1),
     Segm("LOAD", <<1, 2, 3>>, vaddr, align)>>}

ReadSegments ==
  {<<Segm("PHDR", <<>>, 0, 1), FromZero(Segm("LOAD", <<1, 2>>, 128, 8)),
     Segm("LOAD", <<3>>, 184, 8)>>,
   <<AtOffset(Segm("LOAD", <<3>>, 184, 8), 56),
     FromZero(Segm("LOAD", <<1, 2>>, 128, 8))>>,
   <<FromZero(Segm("NOTE", <<>>, 0, 1)),
     FromZero(Segm("LOAD", <<1, 2, 3>>, 128, 8))>>}

MCSegTables ==
  UNION {NewSegments(v, a) : v \in {0, 37}, a \in {1, 8}}
    \cup ReadSegments

MCSecTables(t) == IF t \in ReadSegments THEN ReadTables ELSE NewTables(t)

(* The segments 3, 6 and 9 of ELFIOTest.cpp:1176-1188: .tdata begins a     *)
(* PT_LOAD segment, is the PT_TLS segment and begins PT_GNU_RELRO.         *)
WithThreadLocals ==
  {<<Segm("LOAD", <<1, 2, 3>>, 37, 8), Segm("TLS", <<1>>, 37, 1),
     Segm("RELRO", <<1, 2>>, 37, 1)>>}

ThreadLocalTables(t) ==
  {Table(ThreadLocal(a), b, c) : a, b, c \in Kinds \ {Sect("PROGBITS", 0, 4)}}
=============================================================================
