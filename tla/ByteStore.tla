----------------------------- MODULE ByteStore -----------------------------
(***************************************************************************)
(* What a section promises its clients about its bytes: it is a string     *)
(* that can be read, replaced, spliced, resized and written out.  Each     *)
(* operation has the arguments of the call and what the call returns or    *)
(* writes as its parameters.                                               *)
(***************************************************************************)
EXTENDS Sequences, Naturals

CONSTANTS Payload,     \* the byte strings a client passes
          Types        \* the types a section can have

VARIABLES val,         \* the content of the section
          kind         \* its type

vars == <<val, kind>>

Init == val = <<>> /\ kind = "NULL"

(* The new content begins with as much of the old one as fits.             *)
KeepsPrefix ==
  \A i \in 1..Len(val) : i <= Len(val') => val'[i] = val[i]

(* load(): a section of type t with these bytes in the file                *)
Open(t, bytes) == val = <<>> /\ val' = bytes /\ kind' = t

(* get_data() returns the content.                                         *)
Read(bytes) == bytes = val /\ UNCHANGED vars

(* set_data(): the content is replaced.  An allocation that fails leaves   *)
(* the empty content.                                                      *)
Assign(p) == kind # "NOBITS" /\ val' \in {p, <<>>} /\ UNCHANGED kind

(* set_data() of a NOBITS section stores nothing, and shows again what a   *)
(* smaller size has hidden.                                                *)
Restore ==
  kind = "NOBITS" /\ Len(val') >= Len(val) /\ KeepsPrefix /\ UNCHANGED kind

(* insert_data(): the bytes p are spliced in at position pos.              *)
Splice(pos, p) ==
  /\ kind # "NOBITS" /\ pos \in 0..Len(val)
  /\ val' = SubSeq(val, 1, pos) \o p \o SubSeq(val, pos + 1, Len(val))
  /\ UNCHANGED kind

(* set_size(): the content is cut, or bytes of the buffer are added.       *)
Resize(n) == Len(val') = n /\ KeepsPrefix /\ UNCHANGED kind

(* set_type()                                                              *)
Retype(t) == kind' = t /\ UNCHANGED val

(* save(): exactly the content is written, if the type has bytes in a file.*)
Emit(bytes) ==
  /\ bytes = IF kind \in {"NULL", "NOBITS"} THEN <<>> ELSE val
  /\ UNCHANGED vars

(* The client breaks the promise: nothing is said of the content any more. *)
Abandon == val' = <<>> /\ kind' \in Types

Next ==
  \/ \E t \in Types : Open(t, val') \/ Retype(t)
  \/ \E p \in Payload : Assign(p)
  \/ Restore
  \/ \E pos \in 0..Len(val), p \in Payload : Splice(pos, p)
  \/ Resize(Len(val'))
  \/ Abandon

Spec == Init /\ [][Next]_vars
=============================================================================
