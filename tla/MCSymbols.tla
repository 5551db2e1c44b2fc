----------------------------- MODULE MCSymbols -----------------------------
(***************************************************************************)
(* Symbols on an empty table and on two that were loaded, one with a SysV  *)
(* and one with a GNU hash table.  Names "a" and "c" have the same hash,   *)
(* "b" differs from them in the bit that gnu_hash_lookup() ignores.        *)
(***************************************************************************)
EXTENDS Symbols, TLC

MCStrings == {"a", "b", "c"}
MCLength == [s \in MCStrings |-> IF s = "c" THEN 2 ELSE 1]
MCHash == [s \in MCStrings |-> IF s = "b" THEN 5 ELSE 4]

Empty == [strings |-> <<>>, str_size |-> 0, symbols |-> <<>>,
          hash |-> [kind |-> "none"]]

(* Two symbols, both not local, and their hash table                       *)
Loaded(table) ==
  [strings |-> (1 :> "a") @@ (3 :> "b"), str_size |-> 5,
   symbols |-> <<NoSymbol, Symbol(1, FALSE, 1, "a"), Symbol(3, FALSE, 2, "b")>>,
   hash |-> table]

SysV == [kind |-> "hash", nbucket |-> 1, nchain |-> 3,
         bucket |-> (0 :> 2), chain |-> (0 :> 0) @@ (1 :> 0) @@ (2 :> 1)]

Gnu == [kind |-> "gnu_hash", nbucket |-> 1, symoffset |-> 1,
        bucket |-> (0 :> 1), bloom |-> {"a", "b", "c"},
        chain |-> (0 :> [hash |-> 2, last |-> FALSE])
                  @@ (1 :> [hash |-> 2, last |-> TRUE])]

MCObjects == {Empty, Loaded(SysV), Loaded(Gnu)}
============================================================================
