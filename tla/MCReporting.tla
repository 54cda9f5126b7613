----------------------------- MODULE MCReporting -----------------------------
(***************************************************************************)
(* Results of a few rows: a minimalist and two systems compilers, systems   *)
(* compilers with plain and templated programs, Zig with its AST check, or *)
(* Roc, whose `run` is a task of its own.                                  *)
(***************************************************************************)
EXTENDS Reporting, Languages

K(lang, templated, exe) == [lang |-> lang, templated |-> templated, exe |-> exe]
Empty == [c \in RawCol |-> NA]

\* What tasks leave of a row: a build with its run and size, one without, one
\* that timed out, no build at all; a check that ended, failed or timed out.
Builds == {[Empty EXCEPT !["build"] = 3, !["run"] = 1, !["output-size"] = 9, !["build-rss"] = 7],
           [Empty EXCEPT !["build"] = 2, !["build-rss"] = Missing], [Empty EXCEPT !["build"] = 5],
           [Empty EXCEPT !["build"] = Late], Empty}
Checked(R, C) == {[r EXCEPT !["check"] = c] : r \in R, c \in C}
Checks(R) == Checked(R, {1, 2, NA, Late})
Runs == {[Empty EXCEPT !["run"] = r] : r \in {4, Late}}
        \cup {[Empty EXCEPT !["build"] = 2, !["run"] = Late], [Empty EXCEPT !["build"] = 6]}

Systems == {K("C", FALSE, "gcc"), K("C", FALSE, "clang"), K("D", FALSE, "dmd"), K("D", TRUE, "dmd")}
MCTable ==
  [{K("C", FALSE, e) : e \in {"tcc", "gcc", "clang"}} -> Checked(Builds, {1, 2})]
  \cup [Systems -> Builds] \cup [Systems -> Checks({Empty})]
  \cup {[k \in {K("Zig", t, "zig") : t \in BOOLEAN} |->
           IF k.templated THEN [x EXCEPT !["ast-check"] = 1] ELSE [y EXCEPT !["ast-check"] = 2]] :
          x \in Checks({Empty}), y \in Checks(Builds)}
  \cup [{K("Roc", FALSE, "roc"), K("D", TRUE, "dmd"), K("Python", FALSE, "python3")} ->
          Runs \cup Builds]

MCRank == [t \in {<<"C", "clang">>, <<"C", "gcc">>, <<"C", "tcc">>, <<"D", "dmd">>, <<"Python", "python3">>,
                  <<"Roc", "roc">>, <<"Zig", "zig">>} |->
             CASE t[1] = "C" -> (CASE t[2] = "clang" -> 1 [] t[2] = "gcc" -> 2 [] OTHER -> 3)
               [] t[1] = "D" -> 4 [] t[1] = "Python" -> 5 [] t[1] = "Roc" -> 6 [] OTHER -> 7]
=============================================================================
