----------------------------- MODULE CompilerOp -----------------------------
(***************************************************************************)
(* What a runner does inside one task: one or more calls of                *)
(* benchmark_compiler_op (cbench_pkg/compiler.py), which compiles the      *)
(* generated program again and again, runs what a build produced and       *)
(* fills one row of the task's results; then _run_task's verdict on the    *)
(* task.                                                                   *)
(*                                                                         *)
(* The calls of a task share the arguments object that carries has_stderr, *)
(* the dictionary code_paths, the result rows and, because they share the  *)
(* scratch directory of the worker and language, the output file.          *)
(* Compilers, their processes and the clock are external: each compilation *)
(* is one of the outcomes measure_compilation can return.                  *)
(***************************************************************************)
EXTENDS Naturals, Sequences, FiniteSetsExt, Functions

CONSTANTS Runner,     \* runners: sequences of calls
          Key,        \* result keys
          Op,         \* the task's operation
          RunCounts,  \* values of --run-count
          Dur,        \* possible durations of a compilation
          FastDur, FastRuns,   \* ADAPTIVE_FAST_DUR_THRESHOLD, ..._RUN_COUNT
          SlowDur, SlowRuns    \* ADAPTIVE_SLOW_DUR_THRESHOLD, ..._RUN_COUNT

\* key: the row; version: what the version probe said; writes: the command
\* line names the output file, so a build that returns 0 has written it;
\* ownArgs: the runner passes a copy of the task's arguments; exec: what exec_cmd
\* says of the output file, False, True or the command of an interpreter.
CallRecord == [key : Key, version : Nat, writes : BOOLEAN, ownArgs : BOOLEAN,
               exec : {"no", "file", "interpreter"}]

ASSUME RunnerAssumption == Runner \subseteq Seq(CallRecord)
ASSUME OpAssumption ==
  /\ Op \in {"ast-check", "check", "compile", "build", "run"}
  /\ RunCounts \subseteq Nat /\ FastRuns \in Nat /\ SlowRuns \in Nat
  /\ Dur \subseteq Nat \ {0} /\ FastDur \in Nat /\ SlowDur \in Nat

\* A row's cell: the call that filled it, and with what.
NoCell == [by |-> 0, val |-> 0]
TimedOut == 0           \* the ">60s" tag in a duration cell
NoFile == 0             \* no output file

\* Why a runner raises: the source cannot be written, the run count is zero, the
\* compiler cannot be started or fed, a figure is divided by no functions, or
\* there is no output file, or nothing that starts it.
Raises == {"no_source", "no_repetition", "no_compiler", "no_functions", "no_file",
           "no_start"}

\* What measure_compilation and the filters on its output report.
Verdict == {"ok", "failed", "timeout"}

VARIABLES
  calls,     \* the calls the task's runner makes, in order
  runCount,  \* args.run_count
  noFunctions,  \* total_funcs is 0: --function-count or --function-depth is
  pc,        \* "call", "source", "compile", "judge", "run", "write", "end"
  call,      \* position of the current call
  rep,       \* run_ix
  durs,      \* durations of the successful repetitions
  last,      \* outcome of the last compilation
  paths,     \* keys of code_paths: the repetitions with a generated source
  artifact,  \* the call that wrote the output file
  ran,       \* run_dur_min: which artifact was measured, NotRun for None
  row,       \* the task's result rows
  flagged,   \* has_stderr or has_output of the task's arguments
  tried,     \* tried[c]: outcomes of the repetitions of call c so far
  printed,   \* some compiler printed, failed or timed out
  result     \* "running", "success", "kept" (scratch kept) or why it raised

inputs == <<calls, runCount, noFunctions>>
vars == <<inputs, pc, call, rep, durs, last, paths, artifact, ran, row, flagged,
          tried, printed, result>>

Call == 1 .. Len(calls)
Earlier == Len(calls) + 1   \* an output file an earlier task left behind
Artifact == 0 .. Earlier
NotRun == Earlier + 1

EmptyRow == [version |-> 0, dur |-> NoCell, run |-> NoCell, size |-> NoCell]
Cell(V) == [by : 0 .. Len(calls), val : V]

TypeOK ==
  /\ calls \in Runner
  /\ runCount \in RunCounts /\ noFunctions \in BOOLEAN
  /\ pc \in {"call", "source", "compile", "judge", "run", "write", "end"}
  /\ call \in 1 .. Len(calls) + 1
  /\ rep \in 0 .. runCount
  /\ durs \in Seq(Dur)
  /\ last \in [verdict : Verdict \cup {"raised"}, dur : Dur \cup {0}]
  /\ paths \subseteq 0 .. runCount
  /\ artifact \in Artifact /\ ran \in Artifact \cup {NotRun}
  /\ row \in [Key -> [version : Nat, dur : Cell(Dur \cup {TimedOut}),
                      run : Cell(Artifact), size : Cell(Artifact)]]
  /\ flagged \in BOOLEAN /\ printed \in BOOLEAN
  /\ tried \in [Call -> Seq([verdict : Verdict, dur : Dur])]
  /\ result \in {"running", "success", "kept"} \cup Raises

\* The scratch directory is empty, or an earlier task of the same worker and
\* language did not succeed and left its output file there.
Init ==
  /\ calls \in Runner
  /\ runCount \in RunCounts
  /\ noFunctions \in BOOLEAN
  /\ pc = "call" /\ call = 1 /\ rep = 0
  /\ durs = <<>>
  /\ last = [verdict |-> "ok", dur |-> 0]
  /\ paths = {}
  /\ artifact \in {NoFile, Earlier} /\ ran = NotRun
  /\ row = [k \in Key |-> EmptyRow]
  /\ flagged = FALSE /\ printed = FALSE
  /\ tried = [c \in Call |-> <<>>]
  /\ result = "running"

-----------------------------------------------------------------------------
This == calls[call]

\* `row = results.setdefault(key, {})`, the version included.
BeginCall ==
  /\ pc = "call"
  /\ call \in Call
  /\ pc' = "source"
  /\ rep' = 0
  /\ durs' = <<>>
  /\ ran' = NotRun
  /\ row' = [row EXCEPT ![This.key].version = This.version]
  /\ UNCHANGED <<inputs, call, last, paths, artifact, flagged, tried, printed, result>>

\* The runner raises; nobody catches that before the driver.
Raise(why) == pc' = "end" /\ result' = why

\* generate_test_program_file cannot write a source that no call has generated.
SourceRaises ==
  /\ pc = "source"
  /\ rep < runCount /\ rep \notin paths
  /\ Raise("no_source")
  /\ UNCHANGED <<inputs, call, rep, durs, last, ran, paths, artifact, row, flagged,
                 tried, printed>>

\* A source that an earlier call generated is compiled again.
PickSource ==
  /\ pc = "source"
  /\ rep < runCount
  /\ pc' = "compile"
  /\ paths' = paths \cup {rep}
  /\ UNCHANGED <<inputs, call, rep, durs, last, ran, artifact, row, flagged, tried, printed,
                 result>>

\* Mutant: a series of no repetition is skipped.
NoRepetitionSkips ==
  /\ pc = "source"
  /\ rep = runCount
  /\ pc' = "call"
  /\ call' = call + 1
  /\ UNCHANGED <<inputs, rep, durs, last, ran, paths, artifact, row, flagged,
                 tried, printed, result>>

\* A run count of zero: the loop is empty and `min(durs)` raises.
NoRepetition ==
  /\ pc = "source"
  /\ rep = runCount
  /\ Raise("no_repetition")
  /\ UNCHANGED <<inputs, call, rep, durs, last, ran, paths, artifact, row, flagged,
                 tried, printed>>

\* Mutant: only an exit status other than 0 is flagged, not printed output.
CompileFlagsExitOnly ==
  /\ pc = "compile"
  /\ pc' = "judge"
  /\ \E v \in Verdict, d \in Dur, noise \in BOOLEAN :
       /\ last' = [verdict |-> v, dur |-> d]
       /\ tried' = [tried EXCEPT ![call] = Append(@, last')]
       /\ printed' = (printed \/ noise \/ v # "ok")
       /\ flagged' = (flagged \/ (v # "ok" /\ ~This.ownArgs))
       /\ artifact' \in IF Op = "build" /\ This.writes
                        THEN IF v = "ok" THEN {call} ELSE {artifact, call}
                        ELSE {artifact}
  /\ UNCHANGED <<inputs, call, rep, durs, ran, paths, row, result>>

\* One compilation.  A build that returns 0 has written the output file it
\* was told to write; one that fails may have.
Compile ==
  /\ pc = "compile"
  /\ pc' = "judge"
  /\ \E v \in Verdict, d \in Dur, noise \in BOOLEAN :
       /\ last' = [verdict |-> v, dur |-> d]
       /\ tried' = [tried EXCEPT ![call] = Append(@, last')]
       /\ printed' = (printed \/ noise \/ v # "ok")
       /\ flagged' = (flagged \/ ((noise \/ v # "ok") /\ ~This.ownArgs))
       /\ artifact' \in IF Op = "build" /\ This.writes
                        THEN IF v = "ok" THEN {call} ELSE {artifact, call}
                        ELSE {artifact}
  /\ UNCHANGED <<inputs, call, rep, durs, ran, paths, row, result>>

\* measure_compilation raises: the compiler cannot be started, or is gone before
\* its script is written.
CompileRaises ==
  /\ pc = "compile"
  /\ last' = [verdict |-> "raised", dur |-> 0]
  /\ Raise("no_compiler")
  /\ UNCHANGED <<inputs, call, rep, durs, ran, paths, artifact, row, flagged, tried,
                 printed>>

NextCall ==
  /\ pc' = "call"
  /\ call' = call + 1

\* Mutant: a failed repetition is skipped and the series goes on to the run.
FailAndRun ==
  /\ pc = "judge"
  /\ last.verdict # "ok"
  /\ pc' = "run"
  /\ durs' = Append(durs, last.dur)
  /\ UNCHANGED <<inputs, call, rep, last, ran, paths, artifact, row,
                 flagged, tried, printed, result>>

\* Mutant: the repetitions before the failed one are recorded.
FailKeepsBest ==
  /\ pc = "judge"
  /\ last.verdict # "ok"
  /\ NextCall
  /\ row' = IF durs = <<>> THEN row
            ELSE [row EXCEPT ![This.key].dur = [by |-> call, val |-> Min(Range(durs))]]
  /\ UNCHANGED <<inputs, rep, durs, last, ran, paths, artifact, flagged,
                 tried, printed, result>>

\* A timeout leaves its tag in the row.
TagTimeout ==
  row' = IF last.verdict = "timeout"
         THEN [row EXCEPT ![This.key].dur = [by |-> call, val |-> TimedOut]]
         ELSE row

\* `if returncode != 0: ... return None`: the call ends and what the earlier
\* repetitions measured is dropped.
Fail ==
  /\ pc = "judge"
  /\ last.verdict # "ok"
  /\ NextCall
  /\ TagTimeout
  /\ UNCHANGED <<inputs, rep, durs, last, ran, paths, artifact, flagged, tried,
                 printed, result>>

\* The memory that was sampled of a failed check or build is divided by the number
\* of functions, after the tag.
FailRaises ==
  /\ pc = "judge"
  /\ last.verdict # "ok"
  /\ noFunctions /\ Op \in {"check", "build"}
  /\ TagTimeout
  /\ Raise("no_functions")
  /\ UNCHANGED <<inputs, call, rep, durs, last, ran, paths, artifact, flagged, tried,
                 printed>>

\* Mutant: the two run counts are swapped.
EnoughSwapped(d, n) ==
  \/ d >= SlowDur /\ n >= FastRuns
  \/ d >= FastDur /\ n >= SlowRuns

\* The adaptive cut: a slow repetition ends the series early.
Enough(d, n) ==
  \/ d >= SlowDur /\ n >= SlowRuns
  \/ d >= FastDur /\ n >= FastRuns

Accept ==
  /\ pc = "judge"
  /\ last.verdict = "ok"
  /\ durs' = Append(durs, last.dur)
  /\ rep' = rep + 1
  /\ pc' = IF Enough(last.dur, Len(durs')) \/ rep' = runCount THEN "run" ELSE "source"
  /\ UNCHANGED <<inputs, call, last, ran, paths, artifact, row, flagged, tried,
                 printed, result>>

Executes(c) == Op = "build" /\ c.exec # "no"
StartsFile(c) == Op = "build" /\ c.exec = "file"

\* run_target_binary: the program's own exit status is ignored, an interpreter's
\* that finds no file too, and a run that times out yields None.
RunArtifact ==
  /\ pc = "run"
  /\ StartsFile(This) => artifact # NoFile
  /\ pc' = "write"
  /\ ran' \in IF Executes(This) THEN {artifact, NotRun} ELSE {NotRun}
  /\ UNCHANGED <<inputs, call, rep, durs, last, paths, artifact, row, flagged,
                 tried, printed, result>>

\* sp.run raises: there is no such file, the system cannot execute it, or there is
\* no such interpreter (`which` answered None).
RunRaises ==
  /\ pc = "run"
  /\ Executes(This)
  /\ Raise(IF StartsFile(This) /\ artifact = NoFile THEN "no_file" ELSE "no_start")
  /\ UNCHANGED <<inputs, call, rep, durs, last, ran, paths, artifact, row, flagged,
                 tried, printed>>

\* `dur_min / total_funcs` comes before every other figure of the row.
RowRaises ==
  /\ pc = "write"
  /\ noFunctions
  /\ Raise("no_functions")
  /\ UNCHANGED <<inputs, call, rep, durs, last, ran, paths, artifact, row, flagged,
                 tried, printed>>

WriteRow ==
  /\ pc = "write"
  /\ ~noFunctions
  /\ NextCall
  /\ row' = [row EXCEPT ![This.key] =
       [version |-> This.version,
        dur |-> [by |-> call, val |-> Min(Range(durs))],
        run |-> IF ran = NotRun THEN @.run ELSE [by |-> call, val |-> ran],
        size |-> IF Op = "build" /\ artifact # NoFile
                 THEN [by |-> call, val |-> artifact] ELSE @.size]]
  /\ UNCHANGED <<inputs, rep, durs, last, ran, paths, artifact, flagged, tried,
                 printed, result>>

\* The runner has returned: _run_task calls the task a success, and sweeps
\* its scratch directory, unless the arguments carry has_stderr.
Finish ==
  /\ pc = "call"
  /\ call > Len(calls)
  /\ pc' = "end"
  /\ result' = IF flagged THEN "kept" ELSE "success"
  /\ UNCHANGED <<inputs, call, rep, durs, last, ran, paths, artifact, row, flagged,
                 tried, printed>>

Next ==
  \/ BeginCall \/ SourceRaises \/ PickSource \/ NoRepetition \/ Compile \/ CompileRaises
  \/ Fail \/ FailRaises \/ Accept \/ RunArtifact \/ RunRaises \/ RowRaises \/ WriteRow
  \/ Finish

Spec == Init /\ [][Next]_vars

-----------------------------------------------------------------------------
Succeeded(c) == \A i \in 1 .. Len(tried[c]) : tried[c][i].verdict = "ok"
DursOf(c) == {tried[c][i].dur : i \in 1 .. Len(tried[c])}

\* A duration cell is the fastest repetition of a series in which every
\* repetition succeeded, or the timeout tag of a series whose last repetition
\* was killed: a series that broke off never contributes what it measured
\* before (the early `return None`).
DurIsFastestOfWholeSeries ==
  \A k \in Key : LET cell == row[k].dur IN
    cell.by # 0 =>
      IF cell.val = TimedOut
      THEN tried[cell.by][Len(tried[cell.by])].verdict = "timeout"
      ELSE Succeeded(cell.by) /\ cell.val = Min(DursOf(cell.by))

OwnArtifact(k) ==
  /\ row[k].run.by # 0 => row[k].run.val = row[k].run.by
  /\ row[k].size.by # 0 => row[k].size.val = row[k].size.by

\* The run time and the output size of a compiler that is told where to write
\* are those of the file it wrote, not of one that an earlier compiler or an
\* earlier task left in the scratch directory they share (run_target_binary,
\* os.path.getsize).
RunMeasuresOwnArtifact ==
  \A k \in Key : (\A c \in Call : calls[c].key = k => calls[c].writes) => OwnArtifact(k)

\* A task counts as a success, and loses its scratch directory, only if every
\* repetition of every compiler was silent and returned 0, so that every compiler
\* that was called has its duration (for runners that pass on the arguments they
\* were given).
NoSilentFailure ==
  result = "success" /\ (\A c \in Call : ~calls[c].ownArgs) =>
    /\ ~printed
    /\ \A c \in Call : LET cell == row[calls[c].key].dur IN
         cell.by # 0 /\ cell.val # TimedOut

\* The adaptive run count: a repetition is spent only while the previous one
\* is fast enough, and a series that fails nowhere is cut short only by a slow
\* last repetition.
AdaptiveSeries ==
  \A c \in Call :
    /\ \A i \in 1 .. Len(tried[c]) - 1 :
         /\ i >= SlowRuns => tried[c][i].dur < SlowDur
         /\ i >= FastRuns => tried[c][i].dur < FastDur
    /\ c < call /\ Succeeded(c) /\ Len(tried[c]) < runCount =>
         \/ Len(tried[c]) >= FastRuns /\ tried[c][Len(tried[c])].dur >= FastDur
         \/ Len(tried[c]) >= SlowRuns /\ tried[c][Len(tried[c])].dur >= SlowDur

NoFigure(r) == r.dur.val = TimedOut /\ r.run = NoCell /\ r.size = NoCell

\* Two of the reasons a runner raises, traced back.  An output file that is missing
\* when run_target_binary starts it belongs to a compiler that was not told where to
\* write: no order of failures and timeouts leads there for any other compiler.  And
\* with no repetition to take the least of, or no function to divide by, every call
\* raises or breaks off before it has a figure: a row holds timeouts at most.
RaisesAreExplained ==
  /\ result = "no_file" => ~This.writes
  /\ runCount = 0 \/ noFunctions => \A k \in Key : NoFigure(row[k])

-----------------------------------------------------------------------------
\* The columns that a call may fill.
Columns(c) ==
  {"version", Op} \cup (IF Op = "build" THEN {"size"} ELSE {})
                  \cup (IF Executes(c) THEN {"run"} ELSE {})

\* The columns that a row fills; the version may be unknown.
Shown(r) ==
  (IF r.version # 0 THEN {"version"} ELSE {}) \cup (IF r.dur.by # 0 THEN {Op} ELSE {})
    \cup (IF r.size.by # 0 THEN {"size"} ELSE {}) \cup (IF r.run.by # 0 THEN {"run"} ELSE {})

\* Where the task is, how it ended, and what reaches the driver.
Phase == IF pc = "end" THEN "over" ELSE IF paths = {} THEN "idle" ELSE "compiling"

Outcome ==
  CASE result = "running" -> "pending"
    [] result = "success" -> IF calls = <<>> THEN "none" ELSE "clean"
    [] result = "kept" -> "noisy"
    [] result \in Raises -> "raised"

Measured ==
  IF result \in {"success", "kept"} THEN UNION {{k} \X Shown(row[k]) : k \in Key} ELSE {}

MayMeasure == UNION {{calls[c].key} \X Columns(calls[c]) : c \in Call}

\* A runner's calls are one run of a task, as the driver expects it: whatever
\* fails, times out or raises in whichever repetition, the task ends once, with
\* nothing if it raised and with cells of its own compilers otherwise, and it
\* has measured nothing before its program is generated (_run_task).
Run == INSTANCE TaskRun
  WITH phase <- Phase, outcome <- Outcome, measured <- Measured, may <- MayMeasure
RunSpec == Run!RunSpec
=============================================================================
