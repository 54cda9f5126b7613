----------------------------- MODULE Languages ------------------------------
(***************************************************************************)
(* The registry LANGUAGES (cbench_pkg/types.py) as the language modules    *)
(* fill it: for each language what the driver, the runners and the tables  *)
(* read of its LangSupport record.  The text of the generated program is   *)
(* abstracted to the order of its sections and to whether each repetition  *)
(* has a source file of its own.                                           *)
(*                                                                         *)
(* A runner is the sequence of its call sites: the places where it looks   *)
(* a compiler up and hands it to benchmark_compiler_op.                    *)
(***************************************************************************)
EXTENDS Naturals, Sequences

\* What a build is told: to write the output file, and whether the runner has
\* it run afterwards (exec_cmd).
Quiet    == [writes |-> FALSE, exec |-> FALSE]
Output   == [writes |-> TRUE,  exec |-> FALSE]
Program  == [writes |-> TRUE,  exec |-> TRUE]
RunsOnly == [writes |-> FALSE, exec |-> TRUE]

AnyOp == {"ast-check", "check", "compile", "build", "run"}

\* find: "path" for resolve_compiler_path, "versions" for
\* find_compiler_versions, "listed" for a lookup that ignores --path, "which" for
\* one that ignores the compilers asked for as well.
Call(find, exe, ops, build) ==
  [find |-> find, exes |-> <<exe>>, ops |-> ops, build |-> build]

\* `resolve_compiler_path(...) or resolve_compiler_path(...)`.
FirstOf(exes, ops, build) == [find |-> "path", exes |-> exes, ops |-> ops, build |-> build]

\* A limiter of a language: once the number of functions reaches least, both
\* dimensions become dim (_make_dim_limiter and its hand-written likes); Nim's
\* caps the depth alone.
Above(max, dim) == [kind |-> "total", least |-> max + 1, dim |-> dim]
From(max, dim) == [kind |-> "total", least |-> max, dim |-> dim]
DepthAbove(dim) == [kind |-> "depth", least |-> dim + 1, dim |-> dim]
NoLimit == [kind |-> "none", least |-> 0, dim |-> 0]

Prefix(p) == [prefixes |-> {p}, fixed |-> FALSE]
Fixed(p) == [prefixes |-> {p}, fixed |-> TRUE]

\* LangSupport with its defaults.  key is the name in lower case, under which
\* lang_support finds it and which names its scratch directory; native the
\* compilers whose build is machine code.
Support(name, key, exes, ops, runners) ==
  [name |-> name, key |-> key, exes |-> exes, ops |-> ops, runners |-> runners,
   templated |-> {FALSE}, tier |-> 2, exeTiers |-> {}, aliases |-> {},
   outBinary |-> "main", native |-> exes, versions |-> <<>>, limit |-> NoLimit,
   ownSource |-> TRUE, sections |-> "defs first"]

-----------------------------------------------------------------------------
LangAda ==
  [Support("Ada", "ada", {"gnat"}, {"check", "build"},
           << <<Call("versions", "gnat", {"check", "compile", "build"}, Program)>> >>)
   EXCEPT !.limit = Above(10000, 100), !.sections = "header first", !.ownSource = FALSE]

LangBend ==
  [Support("Bend", "bend", {"bend"}, {"check", "build"},
           << <<Call("path", "bend", {"check", "build"}, Program)>> >>)
   EXCEPT !.templated = BOOLEAN, !.aliases = {"bendlang"}, !.tier = 3,
          !.versions = <<Prefix("bend")>>]

\* Cuik's runner caps the dimensions once more, in a copy of the arguments that no
\* other compiler sees: CompilerOp's ownArgs, not a limit of the language.
LangC ==
  [Support("C", "c", {"tcc", "cuik", "cproc", "gcc", "clang"}, {"check", "compile", "build"},
           << <<Call("path", "tcc", {"check", "compile", "build"}, Program)>>,
              <<Call("path", "cuik", {"check", "compile", "build"}, Program)>>,
              <<Call("path", "cproc", {"check", "compile", "build"}, Program)>>,
              <<Call("versions", "gcc", {"check", "compile", "build"}, Program)>>,
              <<Call("versions", "clang", {"check", "compile", "build"}, Program)>> >>)
   EXCEPT !.exeTiers = {"tcc", "cuik", "cproc"},
          !.versions = <<Fixed("cproc"), Fixed("cuik"), Prefix("tcc")>>]

LangC3 ==
  [Support("C3", "c3", {"c3c"}, {"check", "compile", "build"},
           << <<Call("path", "c3c", {"check", "compile", "build"}, Program)>> >>)
   EXCEPT !.templated = BOOLEAN, !.versions = <<Prefix("c3c")>>]

LangClojure ==
  [Support("Clojure", "clojure", {"clojure"}, {"check", "build"},
           << <<Call("path", "clojure", {"check", "build"}, Quiet)>> >>)
   EXCEPT !.aliases = {"clojure", "clj"}, !.templated = BOOLEAN, !.tier = 3,
          !.native = {}, !.versions = <<Prefix("clojure")>>, !.limit = Above(10000, 100)]

\* The expression given to --eval saves the executable itself.
LangCommonLisp ==
  [Support("Common-Lisp", "common-lisp", {"sbcl"}, {"check", "compile", "build"},
           << <<Call("path", "sbcl", {"check", "compile", "build"}, Program)>> >>)
   EXCEPT !.aliases = {"commonlisp", "common-lisp", "lisp", "sbcl"}, !.tier = 3]

LangCrystal ==
  [Support("Crystal", "crystal", {"crystal"}, {"check", "build"},
           << <<Call("path", "crystal", {"check", "build"}, Program)>> >>)
   EXCEPT !.templated = BOOLEAN, !.tier = 3, !.limit = Above(10000, 100)]

LangCSharp ==
  [Support("C#", "c#", {"mcs", "csc"}, {"check", "build"},
           << <<Call("path", "mcs", AnyOp, Program)>>, <<Call("path", "csc", AnyOp, Program)>> >>)
   EXCEPT !.tier = 3, !.native = {}, !.versions = <<Prefix("csc")>>]

LangCxx ==
  [Support("C++", "c++", {"g++", "clang++"}, {"check", "compile", "build"},
           << <<Call("versions", "g++", {"check", "compile", "build"}, Program)>>,
              <<Call("versions", "clang++", {"check", "compile", "build"}, Program)>> >>)
   EXCEPT !.templated = BOOLEAN]

LangD ==
  [Support("D", "d", {"dmd", "ldmd2", "gdc"}, {"check", "compile", "build"},
           << <<Call("listed", "dmd", {"check", "compile", "build"}, Program),
                Call("listed", "ldmd2", {"check", "compile", "build"}, Program),
                Call("listed", "gdc", {"check", "compile", "build"}, Program)>> >>)
   EXCEPT !.templated = BOOLEAN]

LangDart ==
  [Support("Dart", "dart", {"dart"}, {"check", "compile", "build"},
           << <<Call("path", "dart", {"check", "compile", "build"}, Program)>> >>)
   EXCEPT !.templated = BOOLEAN, !.tier = 3]

LangElixir ==
  [Support("Elixir", "elixir", {"elixir"}, {"build"},
           << <<Call("which", "elixir", {"build"}, RunsOnly)>> >>)
   EXCEPT !.aliases = {"ex", "exs"}, !.tier = 3, !.outBinary = "main.exs", !.native = {},
          !.versions = <<Prefix("elixir")>>, !.limit = Above(22500, 150)]

LangEmacsLisp ==
  [Support("Emacs-Lisp", "emacs-lisp", {"emacs"}, {"check", "compile", "build", "run"},
           << <<Call("path", "emacs", {"check", "compile", "build", "run"}, Program)>> >>)
   EXCEPT !.aliases = {"elisp", "emacs-lisp", "el"}, !.tier = 3, !.outBinary = "main.elc",
          !.native = {}, !.versions = <<Prefix("emacs")>>, !.limit = Above(10000, 100)]

LangErlang ==
  [Support("Erlang", "erlang", {"erlc"}, {"compile", "build"},
           << <<Call("which", "erlc", {"compile", "build"}, Program)>> >>)
   EXCEPT !.aliases = {"erl"}, !.tier = 3, !.outBinary = "main.beam", !.native = {},
          !.versions = <<Prefix("erl")>>, !.limit = Above(40000, 200)]
\* Both image operations need the helper gforthmi.
LangForth ==
  [Support("Forth", "forth", {"gforth"}, {"check", "compile", "build"},
           << <<Call("path", "gforth", {"check", "compile", "build"}, Program)>> >>)
   EXCEPT !.aliases = {"forth"}, !.tier = 3, !.outBinary = "main.fi", !.native = {},
          !.versions = <<Prefix("gforth")>>, !.limit = Above(10000, 100)]

LangFortran ==
  [Support("Fortran", "fortran", {"gfortran"}, {"check", "compile", "build"},
           << <<Call("versions", "gfortran", {"check", "compile", "build"}, Program)>> >>)
   EXCEPT !.aliases = {"gfortran"}, !.limit = Above(10000, 100)]

LangFSharp ==
  [Support("F#", "f#", {"dotnet"}, {"check", "build"},
           << <<Call("path", "dotnet", {"check", "build", "run"}, Quiet)>> >>)
   EXCEPT !.aliases = {"fsharp", "f#", "fsi", "dotnet-fsi"}, !.tier = 3, !.native = {},
          !.versions = <<Prefix("dotnet")>>, !.limit = Above(10000, 100)]

\* gccgo is told no output file.
LangGo ==
  [Support("Go", "go", {"go", "gccgo"}, {"check", "build"},
           << <<Call("path", "go", {"check", "build"}, Program),
                Call("versions", "gccgo", AnyOp, RunsOnly)>> >>)
   EXCEPT !.templated = BOOLEAN, !.versions = <<Prefix("go")>>]

\* A binary in the source tree stands in for a goose that is not installed.
LangGoose ==
  [Support("Goose", "goose", {"goose"}, {"check", "build"},
           << <<Call("path", "goose", {"check", "build"}, Program)>> >>)
   EXCEPT !.templated = BOOLEAN, !.versions = <<Prefix("goose")>>]

\* The runner falls back on guile, whose command line is not guild's.
LangGuile ==
  [Support("Guile", "guile", {"guild"}, {"check", "compile", "build"},
           << <<FirstOf(<<"guild", "guile">>, {"check", "compile", "build"}, Program)>> >>)
   EXCEPT !.aliases = {"guild"}, !.tier = 3, !.outBinary = "main.go", !.native = {},
          !.limit = Above(5000, 70)]
LangHare ==
  [Support("Hare", "hare", {"hare"}, {"check", "build"},
           << <<Call("path", "hare", {"check", "build"}, Program)>> >>)
   EXCEPT !.versions = <<Prefix("hare")>>]

LangHaskell ==
  [Support("Haskell", "haskell", {"ghc"}, {"check", "build"},
           << <<Call("path", "ghc", {"check", "build"}, Program)>> >>)
   EXCEPT !.templated = BOOLEAN, !.aliases = {"ghc"}, !.tier = 3, !.limit = Above(10000, 100)]

LangHylo ==
  [Support("Hylo", "hylo", {"hc"}, {"check", "build"},
           << <<Call("path", "hc", {"check", "build"}, Program)>> >>)
   EXCEPT !.templated = BOOLEAN]

\* javac writes class files, java is given the output file's path.
LangJava ==
  [Support("Java", "java", {"javac"}, {"check", "build"},
           << <<Call("path", "javac", AnyOp, RunsOnly)>> >>)
   EXCEPT !.tier = 3, !.native = {}, !.versions = <<Prefix("javac")>>,
          !.limit = Above(10000, 100)]

LangJavaScript ==
  [Support("JavaScript", "javascript", {"node"}, {"check", "build"},
           << <<Call("path", "node", {"check", "build"}, RunsOnly)>> >>)
   EXCEPT !.aliases = {"node", "js"}, !.tier = 3, !.outBinary = "main.js", !.native = {},
          !.versions = <<Prefix("node")>>]

LangJulia ==
  [Support("Julia", "julia", {"julia"}, {"check", "build"},
           << <<Call("path", "julia", {"check", "build"}, Quiet)>> >>)
   EXCEPT !.templated = BOOLEAN, !.tier = 3, !.native = {}, !.limit = From(10000, 200)]

LangKoka ==
  [Support("Koka", "koka", {"koka"}, {"check", "build"},
           << <<Call("path", "koka", {"check", "build"}, Program)>> >>)
   EXCEPT !.aliases = {"koka"}, !.tier = 3, !.native = {}, !.versions = <<Prefix("koka")>>,
          !.limit = Above(2000, 35), !.ownSource = FALSE]

\* Without a java the jar is not run.
LangKotlin ==
  [Support("Kotlin", "kotlin", {"kotlinc"}, {"check", "build"},
           << <<Call("path", "kotlinc", {"check", "build"}, Program)>> >>)
   EXCEPT !.aliases = {"kt", "kotlinc"}, !.tier = 3, !.outBinary = "main.jar", !.native = {},
          !.versions = <<Prefix("kotlinc")>>, !.limit = Above(10000, 100)]

LangLua ==
  [Support("Lua", "lua", {"luajit"}, {"check", "compile", "build"},
           << <<Call("path", "luajit", {"check", "compile", "build"}, Program)>> >>)
   EXCEPT !.aliases = {"luajit"}, !.tier = 3, !.outBinary = "main.luac", !.native = {},
          !.versions = <<Prefix("luajit")>>, !.limit = Above(20000, 150)]

LangMojo ==
  Support("Mojo", "mojo", {"mojo"}, {"build"}, << <<Call("path", "mojo", AnyOp, Program)>> >>)

LangMoonBit ==
  [Support("MoonBit", "moonbit", {"moon"}, {"check", "build"},
           << <<Call("path", "moon", {"check", "build"}, Quiet)>> >>)
   EXCEPT !.aliases = {"moonbit", "moon"}, !.tier = 3, !.versions = <<Prefix("moon")>>]

LangNim ==
  [Support("Nim", "nim", {"nim"}, {"check", "build"},
           << <<Call("path", "nim", {"check", "build"}, Program)>> >>)
   EXCEPT !.templated = BOOLEAN, !.limit = DepthAbove(50)]

LangOCaml ==
  [Support("OCaml", "ocaml", {"ocamlc", "ocamlopt"}, {"check", "build"},
           << <<Call("path", "ocamlopt", {"check", "build"}, Program)>>,
              <<Call("path", "ocamlc", {"check", "build"}, Program)>> >>)
   EXCEPT !.tier = 3, !.native = {"ocamlopt"}, !.limit = From(10000, 200)]

LangOdin ==
  [Support("Odin", "odin", {"odin"}, {"check", "build"},
           << <<Call("path", "odin", {"check", "build"}, Program)>> >>)
   EXCEPT !.templated = BOOLEAN, !.versions = <<Prefix("odin")>>]

LangPareas ==
  [Support("Pareas", "pareas", {"pareas"}, {"check", "build"},
           << <<Call("path", "pareas", AnyOp, Output)>> >>)
   EXCEPT !.versions = <<Fixed("pareas")>>]

LangPascal ==
  [Support("Pascal", "pascal", {"fpc"}, {"check", "compile", "build"},
           << <<Call("path", "fpc", {"check", "compile", "build"}, Program)>> >>)
   EXCEPT !.aliases = {"fpc"}, !.versions = <<Prefix("fpc")>>]

LangPerl ==
  [Support("Perl", "perl", {"perl"}, {"check", "build"},
           << <<Call("path", "perl", {"check", "build"}, RunsOnly)>> >>)
   EXCEPT !.aliases = {"pl"}, !.tier = 3, !.outBinary = "main.pl", !.native = {},
          !.versions = <<Prefix("perl")>>, !.limit = Above(22500, 150)]

LangPony ==
  [Support("Pony", "pony", {"ponyc"}, {"check", "build"},
           << <<Call("path", "ponyc", {"check", "build"}, Program)>> >>)
   EXCEPT !.limit = Above(1000, 30)]
LangPython ==
  [Support("Python", "python", {"python3", "python3.15", "pypy3"}, {"check", "compile", "build"},
           << <<Call("path", "python3", {"check", "compile", "build"}, Program),
                Call("path", "python3.15", {"check", "compile", "build"}, Program),
                Call("path", "pypy3", {"check", "compile", "build"}, Program)>> >>)
   EXCEPT !.templated = BOOLEAN, !.tier = 3, !.outBinary = "main.pyc", !.native = {}]

LangR ==
  [Support("R", "r", {"R"}, {"check", "compile", "build"},
           << <<Call("path", "R", {"check", "compile", "build"}, Program)>> >>)
   EXCEPT !.aliases = {"r", "rlang"}, !.tier = 3, !.outBinary = "main.Rc", !.native = {},
          !.versions = <<Prefix("R")>>, !.limit = Above(10000, 100)]

LangRoc ==
  [Support("Roc", "roc", {"roc"}, {"check", "build", "run"},
           << <<Call("path", "roc", {"check", "build", "run"}, Program)>> >>)
   EXCEPT !.versions = <<Prefix("roc")>>, !.limit = Above(2500, 50)]

\* With rustup both channels are set one after the other and call rustc.
LangRust ==
  [Support("Rust", "rust", {"rustc"}, {"check", "build"},
           << <<Call("listed", "rustc", {"check", "build"}, Program),
                Call("listed", "rustc", {"check", "build"}, Program)>> >>)
   EXCEPT !.templated = BOOLEAN]

\* scalac writes class files, scala is given the output file's path.
LangScala ==
  [Support("Scala", "scala", {"scalac", "scalac3"}, {"check", "build"},
           << <<FirstOf(<<"scalac", "scalac3">>, {"check", "build"}, RunsOnly)>> >>)
   EXCEPT !.aliases = {"scala"}, !.tier = 3, !.native = {},
          !.versions = <<[prefixes |-> {"scalac", "scalac3"}, fixed |-> FALSE]>>,
          !.limit = Above(10000, 100)]

\* What to do is said on standard input.
LangScheme ==
  [Support("Scheme", "scheme", {"chez", "scheme"}, {"check", "compile", "build"},
           << <<FirstOf(<<"chez", "scheme">>, {"check", "compile", "build"}, Program)>> >>)
   EXCEPT !.aliases = {"chez"}, !.tier = 3, !.native = {},
          !.versions = <<[prefixes |-> {"scheme", "chez"}, fixed |-> FALSE]>>]

LangSwift ==
  [Support("Swift", "swift", {"swiftc"}, {"check", "build"},
           << <<Call("path", "swiftc", {"check", "build"}, Program)>> >>)
   EXCEPT !.templated = BOOLEAN, !.limit = Above(10000, 100)]

LangTypeScript ==
  [Support("TypeScript", "typescript", {"tsc"}, {"check", "compile", "build"},
           << <<Call("path", "tsc", {"check", "compile", "build"}, Program)>> >>)
   EXCEPT !.templated = BOOLEAN, !.aliases = {"ts", "tsc"}, !.tier = 3, !.outBinary = "main.js",
          !.native = {}, !.limit = Above(10000, 100)]

LangV ==
  [Support("V", "v", {"v"}, {"check", "build"},
           << <<Call("path", "v", {"check", "build"}, Program)>> >>)
   EXCEPT !.templated = BOOLEAN]

LangZig ==
  [Support("Zig", "zig", {"zig"}, {"ast-check", "check", "compile", "build"},
           << <<Call("path", "zig", {"ast-check", "check", "compile", "build"}, Program)>> >>)
   EXCEPT !.templated = BOOLEAN, !.versions = <<Prefix("zig")>>]

-----------------------------------------------------------------------------
\* The modules register in the order of their names (Vox is disabled).
LANGUAGES ==
  <<LangAda, LangBend, LangC, LangC3, LangClojure, LangCommonLisp, LangCrystal, LangCSharp,
    LangCxx, LangD, LangDart, LangElixir, LangEmacsLisp, LangErlang, LangForth, LangFortran,
    LangFSharp, LangGo, LangGoose, LangGuile, LangHare, LangHaskell, LangHylo, LangJava,
    LangJavaScript, LangJulia, LangKoka, LangKotlin, LangLua, LangMojo, LangMoonBit, LangNim,
    LangOCaml, LangOdin, LangPareas, LangPascal, LangPerl, LangPony, LangPython, LangR, LangRoc,
    LangRust, LangScala, LangScheme, LangSwift, LangTypeScript, LangV, LangZig>>
=============================================================================
