-------------------------- MODULE BenchDriverProps --------------------------
(***************************************************************************)
(* Correctness properties of the benchmark driver.                         *)
(***************************************************************************)
EXTENDS BenchDriver, FiniteSets

\* The driver implements the ledger: a merge step collects one task, the
\* table is frozen as soon as the pool loop is left, and shown at most once.
Ledger == INSTANCE TaskLedger
  WITH collected <- {t \in Task : st[t] = "merged"},
       table <- table,
       stage <- IF shown THEN "shown"
                ELSE IF main \in {"setup", "pool"} THEN "collecting" ELSE "stopped"
LedgerSpec == Ledger!LedgerSpec

\* Where the run of a task is, as its worker would tell.
Phase(t) ==
  IF outcome[t] # "pending" THEN "over"
  ELSE IF st[t] = "lost" THEN "killed"
  ELSE IF \E p \in Pid : wtask[p] = t /\ wst[p] \in Compiling THEN "compiling"
  ELSE "idle"

\* Every task of the driver is one run: whatever is killed, interrupted or
\* reported in whichever order, a task is run at most once, and once it is over
\* its outcome and its cells are final (_run_task in the pool's workers).
Run(t) == INSTANCE TaskRun
  WITH phase <- Phase(t), outcome <- outcome[t], measured <- wrote[t], may <- CellsOf[t]
TaskRuns ==
  /\ \A t \in Task : Run(t)!RunInit
  /\ [][\A t \in Task : [Run(t)!RunNext]_(Run(t)!runVars)]_vars

\* No two workers ever hold the same task, and a task a worker holds is
\* neither waiting in the list nor among the results already sent
\* (pool hand-out, _run_task, the result queue).
OneHolderPerTask ==
  /\ \A p, q \in Pid : p # q /\ wtask[p] # NoTask => wtask[p] # wtask[q]
  /\ \A p \in Pid : wtask[p] # NoTask =>
       /\ wtask[p] < next
       /\ \A i \in 1 .. Len(reports) : reports[i] # wtask[p]

\* The table shows measurements of collected tasks only, each in a cell that
\* the task measured, and no cell measured by a collected task is left empty
\* (_merge_results over every order in which results can arrive).
TableShowsCollected ==
  \A c \in Cell :
    /\ table[c] # NoTask => st[table[c]] = "merged" /\ c \in wrote[table[c]]
    /\ table[c] = NoTask => \A t \in Task : st[t] = "merged" => c \notin wrote[t]

\* A table is complete unless an IndexError, RuntimeError or EOFError of a
\* task was swallowed: whatever dies or interrupts, main() never prints the
\* results of some tasks only (cli.py, the loop and its except clause).
ShownTableIsComplete ==
  shown /\ cause # "caught" => \A t \in Task : st[t] = "merged"

\* Two workers share a CPU only once more workers were started than there
\* are CPUs, that is, only after a worker died (_worker_init's counter).
DedicatedCpu ==
  idx <= NCpus =>
    \A p, q \in Pid : p # q /\ cpu[p] # Unpinned => cpu[p] # cpu[q]

\* When the result of a successful task is sent, no file it generated is left
\* in any worker's scratch directory (_run_task's finally clause).
SuccessLeavesNoFiles ==
  \A t \in Task : outcome[t] \in Success /\ st[t] \in {"sent", "merged"} =>
    \A p \in Pid : <<p, t>> \notin files

\* A live worker's entry of active_tasks is the task it is running: no entry
\* outlives its task unless the worker itself dies.
ActiveEntryIsCurrent ==
  \A p \in Pid : wst[p] # "dead" /\ active[p] # NoTask =>
    active[p] = wtask[p] /\ wst[p] \in {"running"} \cup Compiling

\* The root directory survives the program only if some task did not succeed:
\* it was noisy, raised, or was cut short by Ctrl-C or the death of a worker
\* (cleanup_call_empty_dirs).
LeftoversAreExplained ==
  main = "exited" /\ root =>
    \E t \in Task : <<outcome[t], st[t]>> \notin Success \X {"merged", "sent"}
                    /\ \E p \in Pid : <<p, t>> \in files

\* Once the pool loop is left the table no longer changes (main prints what
\* the loop collected, whatever the surviving workers still do).
NoMergeAfterLoop ==
  [][main # "pool" => UNCHANGED <<table, completed>>]_vars

\* A measured cell is overwritten by nothing but another collected task's
\* measurement of the same cell: what the table loses when results arrive in one
\* order and not in the other are cells that two tasks measure (_merge_results;
\* a build and a run of Roc or Emacs Lisp).
OverwritesAreShared ==
  [][\A c \in Cell : table[c] # NoTask /\ table'[c] # table[c] =>
       /\ table'[c] # NoTask /\ st'[table'[c]] = "merged"
       /\ c \in wrote[table[c]] \cap wrote'[table'[c]]]_vars

\* "Not a standalone task: the run is performed automatically right after each
\* successful `build`" (README.md:265): the Run figure in the table is that of a
\* build task.  Roc and Emacs Lisp have an operation of their own for it, whose
\* task measures the same cell (compiler.py:365, 371).
RunCell == {<<lang, "run">> : lang \in {LangOf[t] : t \in Task}}
DocRunByBuild ==
  \A c \in Cell \cap RunCell : table[c] # NoTask => <<c[1], "build">> \in CellsOf[table[c]]

\* What can keep the main thread for ever: in the loop, tasks that workers took
\* with them when they died, or a lock that one of them had; in terminate(), the
\* lock of a queue; and where main prints (in the handler, in the finally clause,
\* at the table), the print lock, which a worker that terminate() itself killed
\* may have taken with it.
ExplainedWait ==
  \/ /\ main = "pool" /\ deaths > 0
     /\ (\A t \in Task : st[t] \in {"merged", "lost"}) \/ (\E l \in Lock : Lost(l))
  \/ main = "unwind" /\ deaths > 0 /\ (Lost("get") \/ Lost("put"))
  \/ main \in {"handler", "finally", "table"} /\ Lost("print")

\* If no worker is killed from outside and none is killed by terminate() in the
\* middle of a message, the program exits, whatever the order of results,
\* errors, messages and interrupts.
Termination == <>(main = "exited" \/ deaths > 0 \/ Lost("print"))

\* Even if workers die, the replacements work the list off: in the end main() is
\* done, or waits for what was lost.
OnlyLostTasksBlock == <>[](main = "exited" \/ ExplainedWait)

-----------------------------------------------------------------------------
(***************************************************************************)
(* Why the driver ends, in terms of single states and steps: every step    *)
(* uses up something that was limited from the start, and where no process *)
(* of the program can step any more either main() is done or something was *)
(* lost.                                                                   *)
(***************************************************************************)
\* How many stages the main thread, a worker without a task, and a task that a
\* worker holds have before them.
MainLeft(s) ==
  CASE s = "setup" -> 8 [] s = "pool" -> 7 [] s = "unwind" -> 6 [] s = "handler" -> 5
    [] s = "finally" -> 4 [] s = "cleanup" -> 3 [] s = "table" -> 2 [] s = "exiting" -> 1
    [] OTHER -> 0

WaitLeft(s) ==
  CASE s = "absent" -> 4 [] s = "start" -> 3 [] s = "indexing" -> 2 [] s = "put" -> 2
    [] s = "idle" -> 1 [] OTHER -> 0

HeldLeft(s) ==
  CASE s = "taken" -> 12 [] s = "running" -> 11 [] s = "compiling" -> 10
    [] s = "printing" -> 9 [] s = "speaking" -> 8 [] s = "printed" -> 7
    [] s = "finishing" -> 6 [] s = "sending" -> 5 [] s = "putting" -> 4 [] OTHER -> 0

\* What a worker has before it until it waits for a task.
WaitsAhead == {x \in Pid \X (1 .. 4) : x[2] <= WaitLeft(wst[x[1]])}

\* A queued task has all stages before it, one that was sent the last; between
\* them it pays for its worker's way back to the queue.
TasksAhead ==
  {x \in Task \X (1 .. 13) :
     \/ st[x[1]] = "queued"
     \/ \E p \in Pid : wtask[p] = x[1] /\ x[2] <= HeldLeft(wst[p])
     \/ st[x[1]] = "sent" /\ x[2] = 1}

\* The steps that are left at most.
Budget ==
  MainLeft(main) + (MaxSigints - sigints) + (MaxDeaths - deaths)
    + (NWorkers + MaxDeaths - spawned) + Cardinality(WaitsAhead) + Cardinality(TasksAhead)

\* Every step of a process, every death and every Ctrl-C uses up the budget: the
\* main thread never goes back, no worker joins twice, no task is run twice.
EveryStepCounts == [][Budget' < Budget /\ Budget' >= 0]_vars

\* Neither the main thread nor a worker nor the pool's maintenance can step.
Blocked ==
  /\ main \notin {"setup", "cleanup", "exiting"}
  /\ main = "pool" => reports = <<>> /\ completed # NTasks /\ spawned >= NWorkers + deaths
  /\ main = "unwind" => Lost("get") \/ Lost("put")
  /\ main \in {"handler", "finally", "table"} => holder["print"] # NoPid
  /\ \A p \in Pid :
       /\ wst[p] \in {"absent", "start", "idle", "waiting", "printing", "sending", "dead"}
       /\ wst[p] = "start" => holder["init"] # NoPid
       /\ wst[p] = "idle" => holder["get"] # NoPid
       /\ wst[p] = "waiting" => next > NTasks
       /\ wst[p] = "printing" => holder["print"] # NoPid
       /\ wst[p] = "sending" => holder["put"] # NoPid

\* The program stops only at its end, or waits for what a killed worker took with
\* it: no two of its waits, for tasks, results, the four locks and the workers
\* themselves, make a circle.
OnlyLossesBlock == Blocked => main = "exited" \/ ExplainedWait
=============================================================================
