----------------------------- MODULE MCTaskPlan ------------------------------
(***************************************************************************)
(* The planning of main() with the real registry: a few requests that      *)
(* reach every limit, alias and operation, and machines of four CPUs.      *)
(***************************************************************************)
EXTENDS TaskPlan, Languages

Keys == {LANGUAGES[i].key : i \in DOMAIN LANGUAGES}

\* The names are case-insensitive; README.md:240-247 lists the aliases.
Documented ==
  [ts |-> "TypeScript", tsc |-> "TypeScript", fpc |-> "Pascal", ghc |-> "Haskell",
   gfortran |-> "Fortran", guild |-> "Guile", luajit |-> "Lua", chez |-> "Scheme",
   lisp |-> "Common-Lisp", sbcl |-> "Common-Lisp", commonlisp |-> "Common-Lisp",
   erl |-> "Erlang", ex |-> "Elixir", exs |-> "Elixir", pl |-> "Perl",
   node |-> "JavaScript", js |-> "JavaScript"]
MCMeaning ==
  Documented @@ [k \in Keys |-> LANGUAGES[CHOOSE i \in DOMAIN LANGUAGES :
                                            LANGUAGES[i].key = k].name]

DefaultOps == <<"check", "compile", "build", "run">>
Ask(spelled, ops, ast, fc, fd) ==
  [spelled |-> spelled, ops |-> ops, astCheck |-> ast, fc |-> fc, fd |-> fd]

\* Every language with the defaults, above all limits and below; then some
\* names at the edges of the limits, and what the parser accepts below one.
MCRequest ==
  {Ask(Keys, DefaultOps, FALSE, 200, 200), Ask(Keys, <<"build">>, TRUE, 20, 20),
   Ask(DOMAIN Documented, <<"build", "link", "build">>, FALSE, 2, 3)}
  \cup {Ask(s, o, FALSE, d[1], d[2]) :
          s \in {{"js", "lisp", "cobol", "r"}, {"ocaml", "nim", "julia"}, {"lua", "roc", "pony"}},
          o \in {<<"run", "build">>, <<"check">>},
          d \in {<<100, 100>>, <<1, 20001>>, <<60, 51>>, <<1, 1>>}}
  \cup {Ask({"nim", "swift", "c"}, <<"build">>, FALSE, d[1], d[2]) :
          d \in {<<0, 100>>, <<3, 0>>, <<-200, 200>>, <<-200, -200>>}}

-----------------------------------------------------------------------------
\* Four CPUs: the core of each, and which are performance cores.
Layouts == {[core |-> <<0, 0, 1, 2>>, P |-> {0, 1}], [core |-> <<0, 1, 0, 1>>, P |-> {0, 2}],
            [core |-> <<0, 1, 2, 3>>, P |-> {3}], [core |-> <<0, 1, 2, 3>>, P |-> 0 .. 3]}

OnCpus(f(_)) == [c \in 0 .. 3 |-> f(c)]
Unknown == [c \in {} |-> 0]

\* What such a machine may say of itself.
MCMachine ==
  UNION {{[affinity |-> a, core |-> c, kind |-> k, pmu |-> p, capacity |-> q, maxFreq |-> f,
           perf0 |-> n] :
            a \in {0 .. 3, {1, 2, 3}, {0}},
            c \in {OnCpus(LAMBDA i : l.core[i + 1]), Unknown},
            k \in {OnCpus(LAMBDA i : IF i \in l.P THEN "P" ELSE "E"), Unknown},
            p \in {<<>>, <<{}, l.P>>},
            q \in {OnCpus(LAMBDA i : IF i \in l.P THEN 1024 ELSE 512), Unknown},
            f \in {OnCpus(LAMBDA i : IF i \in l.P THEN 5 ELSE 4), OnCpus(LAMBDA i : 0)},
            n \in {0, 2}} : l \in Layouts}

-----------------------------------------------------------------------------
\* The real registry is as PlanIsExactTheorem supposes.
ASSUME DataAssumption == AliasesAsDocumented /\ NoIdleRunner
=============================================================================
