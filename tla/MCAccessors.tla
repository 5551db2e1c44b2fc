---------------------------- MODULE MCAccessors ----------------------------
(***************************************************************************)
(* Accessors on four files: new and empty sections; sections loaded whole; *)
(* one whose notes are cut and whose dynamic section promises more         *)
(* versions than there are; and one without data, as debug files are.      *)
(***************************************************************************)
EXTENDS Accessors, TLC

Text(size, words) == [size |-> size, words |-> words]

MCNotesToAdd ==
  {[type |-> 1, name |-> Text(4, <<7>>), desc |-> Text(0, <<>>)],
   [type |-> 2, name |-> Text(5, <<7, 1>>), desc |-> Text(6, <<2, 3>>)]}

MCFields == {<<"a">>, <<"a", "=">>}
MCValues == {<<"=">>}

Entry(tag, value) == [tag |-> tag, value |-> value]
Rec(text, aux, next) == [text |-> text, aux |-> aux, next |-> next]

Chain == <<Rec("A", 1, 2), Rec("a", 0, 0), Rec("B", 1, 0), Rec("b", 0, 0)>>

Empty == [note |-> <<>>, modinfo |-> <<>>, dynamic |-> <<>>, versym |-> <<>>,
          verneed |-> Chain, verdef |-> Chain,
          present |-> TRUE, entsize |-> FALSE]

Whole ==
  [Empty EXCEPT !.note = <<4, 4, 1, 7, 9>>,
                !.modinfo = <<<<"a", "=", "=">>, <<>>, <<"a">>>>,
                !.dynamic = <<Entry("FLAGS", 1), Entry("VERNEEDNUM", 2),
                              Entry("VERDEFNUM", 1)>>,
                !.versym = <<1>>, !.entsize = TRUE]

(* The description of the second note is missing.                          *)
Cut ==
  [Whole EXCEPT !.note = <<4, 0, 1, 7, 4, 8, 1, 7>>,
                !.dynamic = <<Entry("VERNEEDNUM", 3), Entry("NULL", 0),
                              Entry("VERDEFNUM", 1)>>]

NoData == [Whole EXCEPT !.present = FALSE]

MCFiles == {Empty, Whole, Cut, NoData}

Sym == Permutations(Accessors)
============================================================================
