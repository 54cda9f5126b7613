---------------------------- MODULE MCCompilerOp ----------------------------
(***************************************************************************)
(* Runners of a few languages as sequences of calls, and durations that    *)
(* fall below, between and above the two adaptive thresholds.              *)
(***************************************************************************)
EXTENDS CompilerOp

MCDur == {1, 2, 3, 4}
MCKey == {"a", "b"}

CallOf(k, version) ==
  [key |-> k, version |-> version, writes |-> TRUE, ownArgs |-> FALSE, exec |-> "file"]

\* Two versions of one compiler, each with a row of its own (find_compiler_versions).
TwoVersions == <<CallOf("a", 1), CallOf("b", 2)>>

\* bm_Rust: the stable and the nightly channel call the same `rustc`.
TwoChannels == <<CallOf("a", 1), CallOf("a", 2)>>

\* bm_Go: `go build -o main`, then gccgo without an output flag.
GoThenGccgo == <<CallOf("a", 1), [CallOf("b", 2) EXCEPT !.writes = FALSE]>>

\* bm_C_using_cuik above CUIK_MAX_DIM: the arguments are a deep copy.
CuikCapped == <<[CallOf("a", 1) EXCEPT !.ownArgs = TRUE]>>

\* bm_Java: `javac` names no file, and `java` runs what it finds.
JavaClass == <<[CallOf("a", 1) EXCEPT !.writes = FALSE, !.exec = "interpreter"]>>

\* No compiler of the runner is installed.
NoneFound == <<>>

MCRunners == {TwoVersions, TwoChannels, GoThenGccgo, CuikCapped, JavaClass, NoneFound}
=============================================================================
