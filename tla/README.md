# A verification model of compiler-benchmark

`cbench` generates synthetic programs in some fifty languages, compiles and runs
them with every compiler it finds, in parallel, and prints one Markdown table.
This directory holds TLA+ modules of its control logic, TLC configurations that
check them on small instances, and theorems checked by TLAPS. Paths are relative
to `src/`; `cli.py` and so on are short for `cbench_pkg/cli.py`.

## 1. The system

| component | state | operations | interacts through |
| --- | --- | --- | --- |
| Registry: `types.py` 222-289, `lang/*.py` | `LANGUAGES`, `VERSION_SPECS`, filled at import | look up a language, an alias, a version probe, a tier | read by everything below |
| Discovery: `cli.py` 173-223, `version.py` 50-64 | `language_exes`, warnings | handle one specification, fall back to everything, look up a compiler | the lookup reads the table that the loop fills |
| Task list: `cli.py` 225-283, `lang/_shared.py` | arguments, `tasks`, reported warnings | nested loops, size limits, sort by weight | read by the driver |
| CPU topology: `cpu_topology.py`, `cli.py` 285-288 | none | four strategies, a fallback, the size of the pool | the driver pins one worker to one CPU |
| Driver: `cli.py` 290-382, `compiler.py` 383-441 | main thread's position, exit status, the table, task queue, result queue, CPU index, worker states, `active_tasks`, scratch files | start pool, initialise a worker, hand out / run / report a task, merge, errors, Ctrl-C, terminate, clean up, print | process pool and its queues, manager dictionary and counters, two locks of its own, the file system, signals |
| One compiler operation: `compiler.py` 201-380 | repetition, durations, row, `code_paths`, `has_stderr`, the output file | prepare, compile, judge, adaptive cut, run, write row | the arguments object and scratch directory that the calls of a task share |
| Process measurement: `compiler.py` 135-198, `timer.py` | a child process, its pipes, the largest memory seen, the current directory | spawn, write the script, poll, sample, time out, kill, drain | clock, `psutil`, pipes |
| Progress: `progress.py`, `cli.py` 336-377 | size of the status, print lock, stop event, terminal | poll, draw, erase, locked print, final clear | `active_tasks`, print lock and status length shared by all processes |
| Reporting: `reporting.py` | none | tiers, best figures, stacking, totals, sort | reads the table |
| Generation: `generation.py`, `types.py` 132-213 | pool of random constants | generate the text of a program, write it | scratch directory |
| Rust channels: `lang/rust.py` | `rustup`'s default toolchain (global to the machine) | switch, compile | concurrent tasks share it |
| Provisioning, top-level timer | none | install software; an unused copy | - |

### Hard behaviours

* Workers run concurrently with each other and with the main thread; results come
  in any order; a worker may die; Ctrl-C may land anywhere in the main thread.
* A monitor thread, the main thread and all workers write to one terminal under one lock
  that a killed worker never gives back.
* A compiler, its helpers, the clock and the polling loop race; pipes fill.
* The scratch directory belongs to a worker and a language while the verdict that
  decides its fate belongs to a task.
* Several compilers of one task share an argument object, an output file and
  sometimes a result row.
* Failures in the middle of a series of repetitions, of a task, or of the loop.
* A lookup that reads a table which is still being built; limiters that change their
  argument in place; name and prefix tables in which entries shadow each other.

`PROJECT.json` lists each hazard with its line and the properties aimed at it.

### What makes each component correct

* Registry, task list: exactly the tasks asked for, each with the program its own
  language's limits allow, and every compiler asked for its version in its own way.
* Discovery: exactly the compilers asked for, none dropped in silence.
* CPU topology: never more workers than CPUs, one worker to a core where cores are known.
* Driver: no task is run twice or lost silently; the table contains exactly what
  was measured; a complete-looking table is complete; workers do not share CPUs;
  scratch files disappear when, and only when, they should; the program ends.
* Compiler operation: a cell holds the fastest repetition of a series that
  succeeded throughout, and comes from this compiler's own output; no failure is
  taken for a success; the number of repetitions adapts as documented.
* Measurement: the verdict is the fate of the process, all of its output is read, nothing
  survives it, and it ends.
* Progress: whoever erases erases exactly what is drawn; nothing is printed onto the
  status; the lock never blocks the exit.
* Reporting: each figure stands where a reader looks for it, the best one is the least,
  the order is that of the figures shown.

## 2. Modules

| module | content |
| --- | --- |
| `TaskLedger` | abstract specification of the driver: tasks are collected at most once, a collected task overrides exactly the cells it measured, a table is shown at most once and is frozen from the end of collecting |
| `TaskRun` | abstract specification of one task: it generates at most once, ends at most once, an exception takes all it measured along, a killed worker ends it without an outcome |
| `Attempt` | abstract specification of one measurement: a compiler runs at most once; its fate and all it printed are reported once, after its end, or an exception while none runs |
| `BenchDriver`, `BenchDriverProps`, `MCBenchDriver` | the driver (main thread, workers, environment); its properties and the refinement mappings to `TaskLedger` and, task by task, to `TaskRun`; instances |
| `BenchDriverProofs` | types; custody of tasks; the table and the refinement; CPUs, `active_tasks` and files; runs of tasks; that every step counts and what may block |
| `CompilerOp`, `MCCompilerOp`, `CompilerOpProofs` | what a runner does inside one task |
| `Measurement`, `MeasurementProofs` | one call of `measure_compilation` with the process it watches |
| `Progress`, `ProgressProofs` | status, print lock and everyone who prints |
| `Discovery`, `MCDiscovery`, `DiscoveryProofs` | which compilers are measured |
| `Languages` | the registered languages as data |
| `LanguageRegistry` | the lookups in that data |
| `Generation` | names and constants of the generated program |
| `CpuTopology` | which CPUs, how many workers |
| `Sorting`, `SortingProofs` | Python's sort and its list comprehension, and what they return |
| `TaskPlan`, `MCTaskPlan`, `TaskPlanProofs` | from arguments to task list and pool; composes the five modules above |
| `Reporting`, `MCReporting`, `ReportingProofs` | from results to tables; uses the registry and `Sorting` |

`BenchDriver`, `CompilerOp` and `Measurement` describe one system at three levels, joined by
the two small specifications between them:

* `TaskRun` is what the driver may count on. Every task of `BenchDriver` is a `TaskRun` (`TaskRuns`), and so are
  the calls of every runner of `CompilerOp` (`RunSpec`): the driver's steps "generate a program" and "the runner
  returns or raises" stand for whole behaviours of `CompilerOp`. The driver admits *every* end that a
  `TaskRun` may have (`DriverAdmitsEveryRun`), so its theorems assume nothing of a runner that `RunRefinement`
  does not give.
* `Attempt` is what `CompilerOp` may count on: a verdict after the end with the whole output, or an exception.
  `Measurement` implements it (`AttemptSpec`); `Compile` and `CompileRaises` of `CompilerOp` are its `Report` and `Raise`.

`PoolFitsCpus` is the driver's assumption on `NWorkers` and `NCpus`, `PlanIsExact` the list it starts with.

Definitions called mutants in comments are wrong variants of the definition that
follows them; nothing uses them except the sensitivity check of the properties,
which substitutes each for the original and expects the property to fail.

### BenchDriver

A task is its position in the sorted list. A measurement is abstracted to the
identity of the task that made it; a table cell is a (row, column) pair and holds
the task whose measurement it shows. A scratch file is the pair of the worker and the
task that left it.

* Main thread: `setup` (manager, temporary root, monitor thread) → `pool` (the loop
  over `imap_unordered`) → `unwind` (`pool.__exit__`, which calls `terminate`) →
  `handler` (`except KeyboardInterrupt`) → `finally` (the status is cleared) → `cleanup` (empty
  directories) → `table` → `exiting` (atexit) → `exited`. `cause` says why the loop was left, `code` the exit status.
* Worker: `start` → `indexing` (holds the initialisation lock) → `idle` → `waiting` (for a task, holding
  the read lock of the task queue) → `taken` → `running` → `compiling` (it has generated a program) →
  `printing` (wants the print lock) → `speaking` (has it) → `printed` → `finishing` (the runner
  returned or raised) → `sending` → `putting` (holds the write lock of the result queue) → `put` → `idle`;
  a task need not print; `dead` when killed.
* `holder` says who has each of four locks: `lock` of `_worker_init`, `print_lock`, and those of the pool's two
  queues. Nobody releases a lock when its holder is killed, by `terminate` or from outside. The main
  thread takes the print lock where it prints or clears the status (`HandleInterrupt`, `ClearStatus`, `PrintTable`), and
  `terminate` takes the queues' locks before it kills (`TerminatePool`).
* A task ends `clean`, `noisy` (some compiler printed or failed), `none` (no
  compiler), `caught` (an exception that the loop swallows) or `raised` (any other).
* The pool is external and modelled as the driver uses it: chunks of one task in list
  order, results in the order sent, a dead worker is replaced but its task is not sent
  again, `terminate` kills workers wherever they are; a queue is a pipe each end of which has a lock.
* Ctrl-C is a nondeterministic step of the main thread. Workers ignore SIGINT. What
  it does depends on where it lands, the cases of `CtrlC`: traceback outside the pool
  block, handler inside it; in the `finally` clause it escapes from the monitor's join; where the print
  lock is held or waited for it is swallowed, and a print goes on without the lock.

What is printed is `Progress`; the driver has the waits only, and a task prints at most one message (a bound). Cuik's
warning comes before its compilation and is the same critical section. A Ctrl-C during `terminate` is placed
before the kill, so that the handler runs next to living workers; one after the kill goes the same way with dead ones, as
a Ctrl-C in the loop does, and is left out. Annotations in `compiler.py` (102, 113) name types the
file does not import, so the program needs Python 3.14, whose pool starts workers by `forkserver` or `spawn`:
a worker begins with the ordinary `print`, which `_worker_init` replaces. Left out: the contents of tasks, the
exceptions of the pool's own threads, a Ctrl-C before `setup` (nothing is created
yet) or after the table is printed, and compilers that survive their worker.

### CompilerOp

A task's runner is a sequence `calls` of calls of `benchmark_compiler_op`, picked from the
constant `Runner`. Each record
says which row the call fills, which version was probed, whether its command line
names the output file, whether the runner passes a copy of the arguments, and what
`exec_cmd` is: nothing, the output file itself, or an interpreter. A compilation is one of the outcomes `measure_compilation` can return:
verdict (`ok`, `failed`, `timeout`), duration, printed something or not. Every step that may raise has
an action for it, named in `Raises`: the source cannot be written (`SourceRaises`), there are no repetitions
(`NoRepetition`), the compiler cannot be started or is gone before its script is written (`CompileRaises`), a figure is divided by
no functions, in the row (`RowRaises`) or on the failure path (`FailRaises`, where memory was sampled), the output file is
missing, cannot be executed or its interpreter is not installed (`RunRaises`). Nobody catches that before the driver.
A runner that finds no compiler makes no call. Cells carry
the call that filled them. The scratch directory may start with an output file that an
earlier task left, because `BenchDriver` shows that this happens. Memory figures, the
filters for Scala's and Goose's messages and the exact tag text are left out; the output of the
compilers modelled is machine code, so a build's size is recorded when the file exists.

### Measurement

`world` is a compiler: whether it reads a script, whether there is a limit, how much it
prints, whether it hangs, what helper it starts and whether the system refuses to tell its
memory. Its output goes into a pipe of `PipeCap` units that nobody reads until
`Drain`; a full pipe blocks it. `Poll`, `Sample`, `WithinLimit` and `Sleep` are the parts of a turn
of either loop, `SampleFails` what `psutil` may raise in between: the loop over a script
catches `NoSuchProcess` and `AccessDenied`, `ProcessTimer` raises `AttributeError` for
want of `psutil.error`. `SleepFails` is `time.sleep(1.0 / sample_rate)` for a rate of zero or less, which the parser accepts. All
of them leave the loop that enforces the limit (`strayed`). `TimeOut` kills, `Drain`
and `Return` are `communicate()`, which reads until every holder of the pipe has closed it.
`ChildKilled` is a SIGKILL from elsewhere.

### Progress

`screen` is the size of the status on the terminal, `statusLen` what the shared counter says,
`lock` who holds `print_lock`. `LockedPrint(p)` are the five steps of `_locked_print` in any process,
`MonitorSteps` those of the monitor, which erases and draws (tree) or draws over (line); `main`
leaves the loop, is interrupted, joins with a timeout, clears, shuts the manager down (after
which the counter cannot be read) and prints the table. The width of the terminal, wrapping and
resizing are left out: a status is as many lines as were written.

### Discovery

One action per turn of the loop over `--languages` (a compiler was found or not), one
for the end with its fallback. `which` is a fixed set of installed names; a name is a
base and a version suffix. `Measured` is what the runners later find with the same
lookup. Unknown languages are ignored with a warning, which `TaskPlan` has as `Normalize`.

### Languages, LanguageRegistry, Generation, CpuTopology, Sorting, TaskPlan

Each `Lang...` definition is the `LangSupport` record of one language module: executables,
operations, tier, aliases, limit, version probes, and its runners as sequences of call sites:
how each looks its compiler up (`Call`), for which operations it goes on, whether the command
line names the output file and whether the result is run. Flags and the syntax of programs
are abstracted, and so is Cuik's second cap, which its runner puts on a copy of the arguments and no other compiler sees
(`CompilerOp` has that copy); `lang/vox.py` is not registered (`if False`, line 53).

`TaskPlan` runs the loops of `main()` one turn per action over this registry: `args` may only
be copied, `reported` are the warnings, `Sort` is the stable sort, `PickCpus` chooses the pool
for a machine of `CpuTopology`. There a machine is what its tables say, and
each of the four strategies is a function of it. `Generation` gives the names a program
defines and calls and the constant each function draws. `Sorting` has the two operations on
lists that the code leaves to Python, `InOrder` (sort) and `KeepOnly` (a comprehension with a condition).
Both say where each element ends up, the place being the number of elements before it, so that
what they return can be proved without induction over the list.

The parser accepts any integer for the number and depth of functions: a count of zero or less generates
nothing, and a depth below one generates calls of functions that are not defined. `CapShrinks` and
`ProgramsAreClosed` are about counts and depths that make sense, and say so in their premises; the other
properties hold for all.

### Reporting

A row maps raw columns to integers, `NA`, `Missing` (a text where a memory figure should be)
or `Late` (the timeout tag, a number above every sum of two figures, as the
code's infinity is when it sorts). A cell of a table is the sequence of its lines, a line a
figure, whether it is highlighted and the quotient of its relative value. `RenderTier` is a turn of the loop over
tiers; the rest are the functions of `reporting.py`. How a number is written is left out.

## 3. Runs

| run | checks | instance |
| --- | --- | --- |
| `DriverInterrupt` | completeness of the shown table, files, `active_tasks`, refinement, `Termination` | 2 tasks of two languages, 2 workers, 2 CPUs, no death, up to 2 Ctrl-C |
| `DriverCrash` | types, custody, contents of the table, `OverwritesAreShared`, CPUs, `OnlyLossesBlock`, every task one `TaskRun` | a build and a run of Roc with one cell in common, 2 workers, 2 CPUs, one death, one Ctrl-C |
| `DriverLive` | `EveryStepCounts`, `OnlyLostTasksBlock` | 2 tasks that measure nothing, 2 workers, 1 death, no Ctrl-C |
| `OpRunners` | five properties of `CompilerOp` and its refinement of `TaskRun` | six runners (none found; two rows; two channels in one row; one without output flag; one with a copy of the arguments; one without output flag whose result an interpreter runs), 0, 1 or 4 repetitions, with functions and without, durations below, between, at and above the thresholds |
| `MeasureProcess` | `VerdictIsFate`, `NothingOutlives`, refinement of `Attempt`, `LimitEndsMeasurement`, `OnlyKnownHangs` | up to 3 units of output into a pipe of 2, sample rates 0 and 1, every `World` |
| `TerminalStatus` | `StatusMatchesScreen`, `NothingPrintedOnStatus`, `ExitsUnlessLockIsLost` | 2 workers with 2 messages each, statuses of up to 3 lines, both modes, up to 3 Ctrl-C |
| `DiscoverySpecs` | `OneSpecIsExact`, `NoSilentOmission` | 2 languages, 3 compilers, suffixes none and 15, every set of installed names, up to 3 specifications in any order |
| `PlanRegistry` | six properties of `TaskPlan` | the whole registry; requests for all names and all aliases, repeated and unknown operations, dimensions below, at and above the limits, zero and negative; machines of four CPUs with four layouts and any of their tables missing |
| `ReportTables` | `EveryFigureShown`, `HighlightedIsLeast`, `OrderMatchesShown` | up to four rows of three tiers, plain and templated, an AST check, a `run` task, missing, equal and timed-out figures, five sort columns in both directions |

Why the bounds suffice. Two tasks on two workers give results out of order, a worker that takes both or one each, and a
queue that is empty or not when something is lost; the instances differ in whether the tasks share a directory and a cell or nothing.
More tasks repeat these situations, and the theorems of section 5 have no bound on tasks, workers, deaths or
Ctrl-C. Two Ctrl-C reach every handler from every position; with two workers on two CPUs one death already wraps the CPU index
round, and leaves one living worker next to a replacement. The liveness runs fix what they do not vary (no death,
or no Ctrl-C) to keep the behaviour graph small; `OnlyLossesBlock` has both at once. Four repetitions are one more than the larger cap. A pipe of two
units blocks a compiler that prints three and not one that prints two. With two workers and the monitor the lock has
waiters of every kind; the third Ctrl-C lands in the print that the first caused and again
later. A rate of 0 stands for every rate that is not positive. Registry and limits are the real ones, so the requests only have to reach each side of each
limit. Four CPUs have room for a core with two threads next to single ones.

`NoMergeAfterLoop`, `WatchedToTheEnd`, `MainWaitsForTheLiving` and the type invariants of the modules other than the driver
are proved and not run: the theorems hold for the instances too.

What some properties admit, because the code does: caps of Lua, Julia and OCaml may enlarge
a program (`CapShrinks`); goose is asked for its version as go is (`OwnVersionProbe`);
the frequency strategy may give two workers one core (`PoolFitsCpus`); a Ctrl-C inside a
critical section leaves remains of the status (`StatusMatchesScreen`); a late monitor may draw after
the table (`NothingPrintedOnStatus`); totals are compared only where no build timed out
(`HighlightedIsLeast`). Each exception is named in the definition.

The `Doc*` runs each check one sentence of the documentation or of a comment that the code does
not honour, and TLC finds the violation; `PROJECT.json` quotes the sentence:

| run | the code |
| --- | --- |
| `DocEveryRequest` | `--languages=C:tcc,C:gcc` ignores the second specification |
| `DocTimeoutBounds` | a helper that ends while memory is sampled disables the limit: a hanging compiler is never killed |
| `DocRunByBuild` | Roc and Emacs Lisp have a run task beside the build, and the Run figure shown is that of whichever arrives last |

`CHECK_DEADLOCK FALSE` everywhere: every model ends, and the driver, a measurement and a
printer may really wait for ever, which the liveness properties are about.

### Known divergences not run

Met while modelling; each is a reading of the code, not the result of a run.

* Driver. `_run_task` removes the directory of its worker and language as soon as one task of
  that pair succeeds, so the noisy scratch that README 351-354 promises to keep may go
  (`compiler.py` 426); the cleanup removes empty directories only, so the files of tasks in
  flight survive Ctrl-C (`cli.py` 302, README 355-356); a
  Ctrl-C outside the pool block ends in a traceback (`cli.py` 290-346, 366-378;
  `tests/test_smoke.py` 71 expects none).
* Runners. Both Rust channels fill one row, so a failing nightly leaves its version over stable's
  duration (`lang/rust.py` 59), and they switch the machine's default toolchain; gccgo is not told where to write
  and its row shows what `go build` wrote (`lang/go.py` 56); Cuik flags failures on a copy of the
  arguments (`lang/c.py` 99); the D runner uses `old_preload` where it may be unbound
  (`lang/d.py` 63-85); Elixir, JavaScript, Perl, Java, Scala and gccgo name no output file that
  the run step could find (`RunsOnly`; `lang/elixir.py` 59).
* One operation. The adaptive cut looks at the current repetition only, so a slow one followed by
  fast ones is not capped (`compiler.py` 329, README 344-346); every repetition compiles the same
  text (`generation.py` 42, README 471-473); a row's memory is the last repetition's
  (`compiler.py` 277).
* Measurement. Any SIGKILL is reported as a timeout (`compiler.py` 300); the status 124 is
  overwritten by `communicate()` (192).
* Planning. `--languages=C:gcc` hides an installed `gcc-15` (`version.py` 52, README 235-239);
  repeated `--operations` repeat tasks; the warning of Julia's and OCaml's cap names neither.
* Reporting. A timed-out build counts as 0.0 in the totals, so no total is highlighted and every relative
  one is 1.0 (`reporting.py` 242, README 320-322, 384); a `run` that timed out sorts last
  while its cell shows the build alone; an AST check under a plain figure sits where the legend says
  templated (line 474); the unit is always µs (223-225, README 398-401).

## 4. Fairness

* `BenchDriver`: weak fairness of the main thread as a whole, of the pool's maintenance
  thread, and of each worker: the operating system schedules them, and every compilation
  and run is bounded by a timeout, so a worker that can step eventually does. Ctrl-C and
  deaths are never fair. Choices inside a step (how a task ends, who takes the next task)
  are not fair either.
* `Measurement`: weak fairness of the worker's code, of a compiler that can print or exit, of a helper that
  works, and of the clock. Nothing forces a kill from elsewhere, a helper to start, or a
  hanging compiler to end. That every compilation is bounded, which the driver assumes, is what
  `LimitEndsMeasurement` and `OnlyKnownHangs` qualify.
* `Progress`: weak fairness of every thread's next step, and strong fairness of acquiring the lock for
  printers and for `main()`: the monitor sleeps 0.2 s between two drawings, and the semaphore
  lets a waiter in within that time. Task errors and Ctrl-C are not fair.
* `CompilerOp`, `Discovery`, `TaskPlan`, `Reporting` have safety properties only and state no fairness.

## 5. Proofs

The theorems hold for every value of the constants that the modules' assumptions allow.
Assumptions are statements that TLC evaluates for the instances of the runs:

* `DriverAssumption`: at least one worker and CPU, no more workers than CPUs (`cli.py` 286, checked by
  `PoolFitsCpus`), tasks measure cells of the table. `MeasurementAssumption`: a pipe holds
  something, no compiler exits with 124. `RunnerAssumption` and `OpAssumption`: runners are sequences of
  calls, counts and thresholds are naturals, durations positive. `ProgressAssumption`: actors have different names.
  `DiscoveryAssumption`: every language has a compiler, requests name languages and executables.
* `RegistryAssumption`: names of languages are unique (`register_language` refuses others). `TaskPlanAssumption`:
  requests are lists of texts and integers, a machine lets the program use at least one CPU, and the
  entries of the registry have the types of `LangSupport`. `CapAssumption`: the caps of all languages but
  three are within the bounds they replace. The run `PlanRegistry` evaluates them on the whole registry.
* `PlanIsExactTheorem` has two premises about the data, `AliasesAsDocumented` and `NoIdleRunner`, each a
  comparison of two places of the source; `DataAssumption` has TLC establish both for the real registry.
* `ReportingAssumption`: figures are at most `MaxFigure` and a timeout is above any sum of two of them, builds and runs
  are never a text other than the timeout tag, the tiers are 1 to 3, and different compilers have
  different titles.

The arguments:

* `TypeCorrect` (driver). `TypeOK` is not inductive alone: a worker in a holding state must hold a task,
  and only spawned workers are in a state other than `absent`; `TypeInv` adds both, and implies `TypeOK`
  (`DriverTypes`).
* `OneHolder`. The inductive invariant `Custody`: at most one worker holds a task and then its
  status is `held`, a task occurs at most once among the results and then is `sent`,
  and the tasks from `next` on are exactly the queued ones. Each action touches one task
  in one of these places; `CustodySteps` groups the actions by that.
* `TableShowsCollectedTheorem`. `ConsumeEffect` states what consuming a result does, from
  `HeadIsSent`; every other step keeps table, outcome of merged tasks and what they
  measured (`OtherStepsKeepTable`), since only a held task's `wrote` changes.
* `ShownTableIsCompleteTheorem`. `completed` counts the merged tasks (`CountInvariant`), and main
  can be past the loop with cause `none` only if it counted all of them.
* `OverwritesAreSharedTheorem`. Only consuming a result changes the table, and only in cells that the consumed task measured;
  by the table invariant the task that a cell showed before had measured it too.
* `Refinement`. `Spec` implements `TaskLedger`: consuming a result is a `Collect`, leaving the pool
  is a `Stop`, printing is a `Show`, every other step stutters. `OwnCells` gives the guard
  of `Collect`.
* `NoMergeAfterLoopTheorem`, an action property: only consuming a result changes the table and the count
  (`OtherStepsKeepTable`), and that is a step of the loop.
* `DedicatedCpuTheorem`. Indices read under the lock are distinct and below the counter; up to
  `NCpus` of them are distinct modulo `NCpus`.
* `ActiveEntryTheorem`, `SuccessLeavesNoFilesTheorem`, `LeftoversTheorem`. Files always belong to
  the worker that held the task (`FilesOfTasks`), so the sweep of one directory suffices,
  and at exit the root directory exists only because of a file, whose task did not succeed.
* `TaskRunsTheorem`, `DriverAdmitsEveryRun`. `EndedOnce`: a task has an outcome exactly from the end of its runner on,
  not while it is queued or its holder works, and for good once it was sent; without an outcome it has no cells.
  With `Custody` (the task of a busy worker is held by it alone, `SoleHolder`), generating, ending and being killed are the steps of the
  one run concerned (`GenerateStep`, `EndStep`, `LostStep`); of all other runs, and in all other actions, nothing is seen
  (`NoRunStep`). `EndingsAgree` compares the two sets of ends.
* `EveryStepCountsTheorem`. `Budget` adds up what is left: stages of the main thread, Ctrl-C, deaths, processes to start,
  steps of each worker until it waits for a task (`WaitsAhead`) and stages of each task (`TasksAhead`, sets, so that the order of
  numbers is that of inclusion). `StepCounts`: no action adds to any of these and each takes something away
  (`HolderMovesOn`, `IdlerMovesOn`, `JoinStep`, `LockStepCounts`, `TakeStep`, `SendStep`, `ConsumeStep`, `KillStep`, one lemma for
  each way to move; a task that was sent pays for its worker's way back to the queue). So a run of the driver has
  at most as many steps as its first budget, whatever the scheduler does: no livelock, no task run again.
* `OnlyLossesBlockTheorem`. `Blocked` says that no guard of the main thread, of the pool's maintenance and of any worker holds. Then
  every task is queued, merged or lost (`TasksArePlaced`: a held task has a living holder, a sent one is in the queue of
  results), and a full pool has a living worker, because before the pool is terminated processes die from outside only, and as
  many as were counted (`OnlyOutsideDeaths`, `SomeWorkerLives`). A living worker that has a lock is in the section
  that the lock guards (`LockHolder`) and can go on, with one exception: the one that waits for a task, when the queue is
  empty. So whoever waits for a lock waits for a dead holder, or for the queue of an empty list, and
  without a death all tasks would be merged and the loop over. After `terminate` the workers are
  dead, and only the print lock can keep the main thread. Together the two theorems are the safety
  part of `Termination` and `OnlyLostTasksBlock`; that a process which can step does step is the fairness TLC adds.
* `NoSilentFailureTheorem` (`CompilerOp`, any runner, run count and thresholds). `Flagged`: as long as
  no call owns its arguments, whatever was printed is flagged at once, in whichever call. `Figure`, `FiguresKept`:
  a call that is over without anything printed has left a duration, and later calls that share its row keep one
  (`SuccessInv`, on top of `SeriesInv`).
* `RunMeasuresOwnArtifactTheorem`, `RaisesAreExplainedTheorem`. `FileInv`: from the judgement of a build
  that returned 0 to the row of its call the output file is the one that call wrote (`OutputFile`),
  a repetition is under way only if one is left (`Series`), and a cell of a row comes from a call with
  that row's key (`OwnCells`). A missing file was never written by the call (`Missing`); with no repetitions or no
  functions every row that would have a figure raises first (`NoFigures`).
* `DurIsFastestTheorem`, `AdaptiveSeriesTheorem`, `OpTypeCorrect`. `SeriesInv` adds that `durs` is the history
  of the current series (`Current`), that the history of a call that is over says why it ended
  (`Histories`, `Over`), and that a duration cell names such a call (`Honest`). That `Min` of a nonempty set
  of naturals is one of its members (`MinMember`) follows from the library's well-foundedness of <.
* `RunRefinement` (`CompilerOp` implements `TaskRun`). `RunnerInv`: the columns of a row are those that some call with
  its key may fill (`Explained`), and whoever compiles has a program while a runner that calls nobody does nothing
  (`Begun`). The first `PickSource` is the run's `Generate`; `Finish` and the actions that raise are its `End`; all else stutters.
* `VerdictIsFateTheorem`, `NothingOutlivesTheorem` (`Measurement`, any pipe, output and statuses). `Inv` adds to
  `TypeOK`: `CountsKept`, what is still to print, in the pipe and read add up to the whole output;
  `StatusIsFinal`, a status is set exactly when the process has ended and a process that exited has
  printed everything; `ReturnsAreFinal`, what a return has reported. Both properties follow from these at
  the end of the measurement; `CodesApart` keeps 124, -9 and the exit statuses distinct.
* `AttemptRefinement` (`Measurement` implements `Attempt`), from the same `Inv`: spawning is `Start`, a unit that goes into
  the pipe is `Say`, an exit, a kill from elsewhere and a kill at the limit are `End` (`EndStep`: the race with an exit
  is a step that is not seen), the return is `Report`, since by then what was read is all that was printed
  (`ReturnStep`). `UnseenStep` covers polling, sampling, reaping and the helper.
* `WatchedToTheEndTheorem`. Of the paths into `communicate()` only those of a failed sample and of a pause that cannot be slept leave the
  compiler running: the safety part of `LimitEndsMeasurement`. It is inductive together with `Inv`.
* `StatusMatchesScreenTheorem`, `NothingPrintedOnStatusTheorem` (`Progress`, any number of workers, lines,
  messages and Ctrl-C). `LockOK`: the lock is held by whoever is in a critical section, or was killed
  in one. `MainOK`: where `main()` prints and where it is in a critical section. `CountOK`: how far the count and
  the terminal are apart at each step of the holder. `QuietOK`: after the loop no worker lives, after
  the join no monitor, after the last erasure nothing is on the terminal. Each has one lemma with one step per action.
* `MainWaitsForTheLivingTheorem`, the safety part of `ExitsUnlessLockIsLost`, from the same invariant and `LoopOK`: workers are
  killed, and the monitor told to stop, when the loop is left and not before. `LockOK` then gives the holder of the lock a next step.
* `OneSpecIsExactTheorem`, `NoSilentOmissionTheorem` (`Discovery`, any languages, compilers, installed names and
  requests). The lookup depends on the table that the loop fills; both invariants say by how much. `LoneInv`: a language
  nobody asked for yet has no list, one asked for once the list that its specification finds without one, unless the
  fallback to everything has set the table. `Accounted`: what is in a list is installed under some name, and what was
  asked for is in the list of its language or in a warning.
* `InOrderLists`, `KeepOnlyPicks` (`Sorting`). The places of the elements of a finite strictly ordered set are
  an injection of the set into 1 to its size, hence a bijection (a pigeonhole of the library), hence
  the list is one without repetition, in order.
* `PlanIsExactTheorem` (`TaskPlan`, any registry, request and machine). `PlanInv`: every planned task is one of a
  language that was asked for and supports the operation (`Proper`). `Counted`: of each
  such task the list has as many as there are turns of the two outer loops over its operation and language so
  far; a turn of the inner loops adds exactly one of each (`HasGrows`: variant and runner are quotient and
  remainder of the position, `PlacesTyped`). The sort is a permutation (`SortPermutes`) and keeps the
  counts; `LoopsDone` says that they are then those of the request.
* `LimitsDoNotLeakTheorem`, `CapShrinksTheorem`, `ProgramsAreClosedTheorem` follow from `Proper`, whose dimensions
  are those a language's own limit makes of the unchanged arguments. `PoolFitsCpusTheorem`: each strategy of
  `CpuTopology` returns a nonempty set of usable CPUs, by cases of what the machine tells.
* `GeneratedProgramIsClosed`, `DefinedNamesDiffer`, `RandIndicesDiffer` (any number and depth of functions):
  arithmetic of the two loops, the last by division with remainder.
* `SectionsInvariant` (`Reporting`, any registry, results and way to sort). The sections are the tables of the tiers done that have
  rows, one each. `TableIsTabled`: `_skey` orders titles strictly (`SortKeyOrders`: by value or by
  title, the title deciding between equal values), so `InOrderLists` gives one row for each compiler, in this order.
* `EveryFigureShownTheorem`. A title's tier is that of its keys, so its row is in one section; `CellLayered` and
  `TotalLayered` say which line of a cell is whose, the AST check being appended and not in between.
* `HighlightedIsLeastTheorem`. The lines with figures in a column are exactly those of the rows of that variant
  (`FiguresOfColumn`), so the least value of the rows is the least value shown, and what equals it is what no other is
  below (`LeastIsBest`). Sums need that nothing timed out, which the property says.
* `OrderMatchesShownTheorem`. Sort key and cell are computed apart; `MetricCellMatches` and `TotalCellMatches` prove that
  the first line that says something shows the sort key, whichever variants there are, unless a `run` timed out.

Only model-checked: liveness (`Termination`, `OnlyLostTasksBlock`, `LimitEndsMeasurement`, `OnlyKnownHangs`,
`ExitsUnlessLockIsLost`), which the prover does not handle under fairness, so that only its safety parts are proved (that
`Blocked` means that no action of the program is enabled, and that whoever can go on does, is read off the guards and
checked by the liveness runs); and `OwnVersionProbe`, a statement about the prefixes
in the real registry, which is data: no weaker assumption about a registry implies it. No module uses a
RECURSIVE operator.

## 6. Not modelled

* `provision.sh` installs software; `process_timer.py` is not imported.
* The text of generated programs, of command lines and of the tables; argument parsing; the parsing of
  what `--version` prints; logging.
* `rustup`'s global default while several Rust tasks run: which toolchain a compiler then is lies
  outside the program. `CompilerOp` lets every call of a task have any outcome.
* Memory figures beyond whether one was obtained.
* The process pool, the manager, `which`, the compilers, the kernel and the clock are external and
  appear only through what the code relies on.

What could come next: the refinements give each task of the driver *a* run; a composition that runs several
`CompilerOp` side by side in one model would add what they share, the scratch directory of a worker and language, which now
enters as the two initial states of the output file. An external check of `psutil` and `rustup` would turn the
outcomes taken as arbitrary into facts.
