--------------------------- MODULE MCBenchDriver ----------------------------
(***************************************************************************)
(* Small instances of the driver, with two kinds of task list: a build and *)
(* a run of Roc, which share a directory and both measure the Run cell,    *)
(* and tasks of two languages, which share nothing.  A cell is a row (of a *)
(* language's only compiler) and a column.                                 *)
(***************************************************************************)
EXTENDS BenchDriverProps

MCCellsOf == <<{<<"Roc", "build">>, <<"Roc", "run">>}, {<<"Roc", "run">>}>>
MCLangOf == <<"Roc", "Roc">>
MCCell == MCCellsOf[1] \cup MCCellsOf[2]

ApartCellsOf == <<{<<"D", "check">>}, {<<"Roc", "run">>}>>
ApartLangOf == <<"D", "Roc">>
ApartCell == ApartCellsOf[1] \cup ApartCellsOf[2]

\* What the tasks measure makes no difference to who waits for whom.
NoCells == <<{}, {}>>
=============================================================================
