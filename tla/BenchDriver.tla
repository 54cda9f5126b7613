---------------------------- MODULE BenchDriver -----------------------------
(***************************************************************************)
(* The parallel benchmark driver: main() of cbench_pkg/cli.py from the     *)
(* creation of the process pool to the exit of the program, and the code   *)
(* of cbench_pkg/compiler.py that runs in the pool's workers               *)
(* (_worker_init, _run_task, _merge_results).                              *)
(*                                                                         *)
(* Actors: the main thread, the worker processes, and the environment      *)
(* (the user's Ctrl-C, the death of a worker).  The library's pool is      *)
(* modelled by what the driver relies on: tasks are handed out in list     *)
(* order, results arrive in the order the workers send them, a worker      *)
(* that dies is replaced but its task is never sent again, and terminate() *)
(* kills every worker where it stands.  Its two queues are pipes, each end *)
(* with many users guarded by a lock: a worker waits for its next task     *)
(* holding the lock of the task queue, and writes its result under that of *)
(* the result queue.  No lock is released when its holder is killed.       *)
(*                                                                         *)
(* A task is its position in the sorted task list.  What the compilers     *)
(* measure is abstracted to the set of table cells a task wrote, a scratch *)
(* file to the pair of the worker and the task that left it.               *)
(*                                                                         *)
(* What is printed is Progress's subject; here the print lock is: a task   *)
(* prints at most one message (bound), the main thread takes the lock in   *)
(* one step that it cannot take while a worker has it.                     *)
(***************************************************************************)
EXTENDS Naturals, Sequences

CONSTANTS NTasks,      \* length of the task list
          Cell,        \* (result row, metric column) pairs
          CellsOf,     \* CellsOf[t]: cells that task t may measure
          LangOf,      \* LangOf[t]: the language of task t
          NWorkers,    \* cpu_use_count
          NCpus,       \* len(cpus)
          CanPin,      \* hasattr(os, 'sched_setaffinity')
          MaxDeaths,   \* bound: workers killed from outside
          MaxSigints   \* bound: times the user presses Ctrl-C

ASSUME DriverAssumption ==
  /\ NTasks \in Nat
  /\ NWorkers \in Nat \ {0}
  /\ NCpus \in Nat \ {0}
  /\ NWorkers <= NCpus
  /\ CanPin \in BOOLEAN
  /\ MaxDeaths \in Nat
  /\ MaxSigints \in Nat
  /\ \A t \in 1 .. NTasks : CellsOf[t] \subseteq Cell

Task == 1 .. NTasks
NoTask == 0
Pid == 1 .. NWorkers + MaxDeaths   \* worker processes, in spawning order
NoPid == 0
Unpinned == NCpus                  \* the CPUs are 0 .. NCpus - 1

\* How a task ends.  "clean": the compilers were silent and returned 0;
\* "noisy": one of them printed or failed (has_stderr, has_output);
\* "none": no compiler of the runner was found; "caught": an IndexError,
\* RuntimeError or EOFError; "raised": any other exception.
Outcome == {"clean", "noisy", "none", "caught", "raised"}
Success == {"clean", "none"}
Error == {"caught", "raised"}

VARIABLES
  main,       \* what the main thread is doing
  cause,      \* why the pool loop was left: "none", "caught", "raised", "sigint"
  code,       \* exit status: "none" (running), "ok", "130", "traceback"
  shown,      \* the table was printed
  sigints,    \* Ctrl-C so far
  next,       \* position of the next task the pool hands out
  st,         \* where each task is
  reports,    \* results sent and not yet consumed by imap_unordered
  completed,  \* completed_counter
  outcome,    \* how each task ended ("pending" before that)
  wrote,      \* cells each task measured
  table,      \* `results`: the task whose measurement each cell holds
  wst,        \* what each worker is doing
  wtask,      \* the task each worker holds
  widx,       \* the index each worker read in _worker_init
  cpu,        \* the CPU each worker is pinned to
  idx,        \* idx_counter
  holder,     \* worker that has each lock, dead or alive
  spawned,    \* worker processes started so far
  deaths,     \* worker processes killed from outside so far
  active,     \* active_tasks: what the progress display believes each runs
  files,      \* <<p, t>>: worker p's scratch holds files of task t
  root        \* the temporary root directory exists

mainVars == <<main, cause, code, shown, sigints>>
taskVars == <<next, st, reports, completed, outcome, wrote, table>>
initVars == <<widx, cpu, idx, holder>>
procVars == <<wst, wtask, spawned, deaths>>
fileVars == <<files, root>>
vars == <<mainVars, taskVars, initVars, procVars, active, fileVars>>

MainState == {"setup", "pool", "unwind", "handler", "finally", "cleanup", "table",
              "exiting", "exited"}
TaskState == {"queued", "held", "sent", "merged", "error", "lost"}
Compiling == {"compiling", "printing", "speaking", "printed"}
Holding == {"taken", "running", "finishing", "sending", "putting"} \cup Compiling
WorkerState == {"absent", "start", "indexing", "idle", "waiting", "put", "dead"} \cup Holding

\* `lock`, print_lock, and those of the pool's task queue and result queue.
Lock == {"init", "print", "get", "put"}

MainTypeOK ==
  /\ main \in MainState
  /\ cause \in {"none", "caught", "raised", "sigint"}
  /\ code \in {"none", "ok", "130", "traceback"}
  /\ shown \in BOOLEAN
  /\ sigints \in 0 .. MaxSigints

TaskTypeOK ==
  /\ next \in 1 .. NTasks + 1
  /\ st \in [Task -> TaskState]
  /\ reports \in Seq(Task)
  /\ completed \in Nat
  /\ outcome \in [Task -> Outcome \cup {"pending"}]
  /\ wrote \in [Task -> SUBSET Cell]
  /\ table \in [Cell -> Task \cup {NoTask}]

WorkerTypeOK ==
  /\ wst \in [Pid -> WorkerState]
  /\ wtask \in [Pid -> Task \cup {NoTask}]
  /\ widx \in [Pid -> Nat]
  /\ cpu \in [Pid -> 0 .. NCpus]
  /\ idx \in Nat
  /\ holder \in [Lock -> Pid \cup {NoPid}]
  /\ spawned \in 0 .. NWorkers + MaxDeaths
  /\ deaths \in 0 .. MaxDeaths
  /\ active \in [Pid -> Task \cup {NoTask}]

TypeOK ==
  /\ MainTypeOK
  /\ TaskTypeOK
  /\ WorkerTypeOK
  /\ files \subseteq Pid \X Task
  /\ root \in BOOLEAN

Init ==
  /\ main = "setup" /\ cause = "none" /\ code = "none"
  /\ shown = FALSE /\ sigints = 0
  /\ next = 1
  /\ st = [t \in Task |-> "queued"]
  /\ reports = <<>>
  /\ completed = 0
  /\ outcome = [t \in Task |-> "pending"]
  /\ wrote = [t \in Task |-> {}]
  /\ table = [c \in Cell |-> NoTask]
  /\ wst = [p \in Pid |-> "absent"]
  /\ wtask = [p \in Pid |-> NoTask]
  /\ widx = [p \in Pid |-> 0]
  /\ cpu = [p \in Pid |-> Unpinned]
  /\ idx = 0
  /\ holder = [l \in Lock |-> NoPid]
  /\ spawned = 0 /\ deaths = 0
  /\ active = [p \in Pid |-> NoTask]
  /\ files = {}
  /\ root = TRUE

-----------------------------------------------------------------------------
(***************************************************************************)
(* Worker processes.                                                       *)
(***************************************************************************)

Step(p, from, to) ==
  /\ wst[p] = from
  /\ wst' = [wst EXCEPT ![p] = to]

Acquire(p, l, from, to) ==
  /\ holder[l] = NoPid
  /\ Step(p, from, to)
  /\ holder' = [holder EXCEPT ![l] = p]

Release(p, l, from, to) ==
  /\ Step(p, from, to)
  /\ holder' = [holder EXCEPT ![l] = NoPid]

\* Mutant: the counter is read without the lock.
ReadIndexUnlocked(p) ==
  /\ Step(p, "start", "indexing")
  /\ holder' = [holder EXCEPT !["init"] = p]
  /\ widx' = [widx EXCEPT ![p] = idx]
  /\ UNCHANGED <<mainVars, taskVars, cpu, idx, wtask, spawned, deaths, active, fileVars>>

\* `with lock: idx = idx_counter.value`
ReadIndex(p) ==
  /\ Acquire(p, "init", "start", "indexing")
  /\ widx' = [widx EXCEPT ![p] = idx]
  /\ UNCHANGED <<mainVars, taskVars, cpu, idx, wtask, spawned, deaths, active, fileVars>>

\* `idx_counter.value += 1`, the release of the lock and the pinning.
BumpIndexAndPin(p) ==
  /\ Release(p, "init", "indexing", "idle")
  /\ idx' = idx + 1
  /\ cpu' = [cpu EXCEPT ![p] = IF CanPin THEN widx[p] % NCpus ELSE Unpinned]
  /\ UNCHANGED <<mainVars, taskVars, widx, wtask, spawned, deaths, active, fileVars>>

\* A worker waits for a task with the task queue to itself, writes a message
\* under the print lock (_locked_print; the message follows a compilation,
\* but for Cuik's warning, which precedes it), and writes its result with the
\* result queue to itself.
AwaitTask(p) == Acquire(p, "get", "idle", "waiting")
WantPrint(p) == Step(p, "compiling", "printing") /\ UNCHANGED holder
BeginPrint(p) == Acquire(p, "print", "printing", "speaking")
EndPrint(p) == Release(p, "print", "speaking", "printed")
BeginPut(p) == Acquire(p, "put", "sending", "putting")
EndPut(p) == Release(p, "put", "put", "idle")

LockStep(p) ==
  /\ \/ AwaitTask(p) \/ WantPrint(p) \/ BeginPrint(p) \/ EndPrint(p)
     \/ BeginPut(p) \/ EndPut(p)
  /\ UNCHANGED <<mainVars, taskVars, widx, cpu, idx, wtask, spawned, deaths, active, fileVars>>

\* The pool hands out the tasks one at a time (chunk size 1), in list order.
TakeTask(p) ==
  /\ next <= NTasks
  /\ Step(p, "waiting", "taken")
  /\ wtask' = [wtask EXCEPT ![p] = next]
  /\ st' = [st EXCEPT ![next] = "held"]
  /\ next' = next + 1
  /\ UNCHANGED <<mainVars, reports, completed, outcome, wrote, table, initVars,
                 spawned, deaths, active, fileVars>>

\* The worker leaves the task queue to the others, and _run_task announces the
\* task to the progress display.
Announce(p) ==
  /\ Release(p, "get", "taken", "running")
  /\ active' = [active EXCEPT ![p] = wtask[p]]
  /\ UNCHANGED <<mainVars, taskVars, widx, cpu, idx, wtask, spawned, deaths, fileVars>>

\* The runner writes the generated program, creating the directories it
\* needs (the root too, should it be gone), and starts the compilers there.
GenerateProgram(p) ==
  /\ Step(p, "running", "compiling")
  /\ files' = files \cup {<<p, wtask[p]>>}
  /\ root' = TRUE
  /\ UNCHANGED <<mainVars, taskVars, initVars, wtask, spawned, deaths, active>>

\* How task t may end: before its runner wrote anything it can only find no
\* compiler or fail, afterwards it has measured some of its cells.
Ending(p, t) ==
  IF wst[p] = "running"
  THEN ({"none"} \cup Error) \X {{}}
  ELSE ({"clean", "noisy"} \X SUBSET CellsOf[t]) \cup (Error \X {{}})

\* Mutant: the entry of active_tasks is popped only when no exception is raised.
EndTaskPopsOnReturn(p) ==
  /\ wst[p] \in {"running", "compiling", "printed"}
  /\ \E e \in Ending(p, wtask[p]) :
       /\ outcome' = [outcome EXCEPT ![wtask[p]] = e[1]]
       /\ wrote' = [wrote EXCEPT ![wtask[p]] = e[2]]
       /\ active' = IF e[1] \in Error THEN active ELSE [active EXCEPT ![p] = NoTask]
  /\ wst' = [wst EXCEPT ![p] = "finishing"]
  /\ UNCHANGED <<mainVars, next, st, reports, completed, table, initVars,
                 wtask, spawned, deaths, fileVars>>

\* The runner returns or raises, and in both cases
\* `finally: _worker_active_tasks.pop(worker_pid, None)`.
EndTask(p) ==
  /\ wst[p] \in {"running", "compiling", "printed"}
  /\ \E e \in Ending(p, wtask[p]) :
       /\ outcome' = [outcome EXCEPT ![wtask[p]] = e[1]]
       /\ wrote' = [wrote EXCEPT ![wtask[p]] = e[2]]
  /\ wst' = [wst EXCEPT ![p] = "finishing"]
  /\ active' = [active EXCEPT ![p] = NoTask]
  /\ UNCHANGED <<mainVars, next, st, reports, completed, table, initVars,
                 wtask, spawned, deaths, fileVars>>

\* `if success: shutil.rmtree(lang_dir); os.rmdir(proc_dir)`.  lang_dir
\* belongs to the worker and the language, not to the task.
LangDir(p, t) == {p} \X {u \in Task : LangOf[u] = LangOf[t]}

\* Mutant: the scratch directory is swept when the task failed.
SweepScratchOfFailed(p) ==
  /\ Step(p, "finishing", "sending")
  /\ files' = IF outcome[wtask[p]] \notin Success
              THEN files \ LangDir(p, wtask[p])
              ELSE files
  /\ UNCHANGED <<mainVars, taskVars, initVars, wtask, spawned, deaths, active, root>>

SweepScratch(p) ==
  /\ Step(p, "finishing", "sending")
  /\ files' = IF outcome[wtask[p]] \in Success
              THEN files \ LangDir(p, wtask[p])
              ELSE files
  /\ UNCHANGED <<mainVars, taskVars, initVars, wtask, spawned, deaths, active, root>>

\* Mutant: an exception is not sent.
SendReturnedOnly(p) ==
  /\ Step(p, "putting", "put")
  /\ reports' = IF outcome[wtask[p]] \in Error THEN reports ELSE Append(reports, wtask[p])
  /\ st' = [st EXCEPT ![wtask[p]] = "sent"]
  /\ wtask' = [wtask EXCEPT ![p] = NoTask]
  /\ UNCHANGED <<mainVars, next, completed, outcome, wrote, table, initVars,
                 spawned, deaths, active, fileVars>>

\* The pool sends the result, or the exception, to the main process.
SendResult(p) ==
  /\ Step(p, "putting", "put")
  /\ reports' = Append(reports, wtask[p])
  /\ st' = [st EXCEPT ![wtask[p]] = "sent"]
  /\ wtask' = [wtask EXCEPT ![p] = NoTask]
  /\ UNCHANGED <<mainVars, next, completed, outcome, wrote, table, initVars,
                 spawned, deaths, active, fileVars>>

-----------------------------------------------------------------------------
(***************************************************************************)
(* The main thread.                                                        *)
(***************************************************************************)

Goto(from, to) ==
  /\ main = from
  /\ main' = to

\* `with mp.Pool(processes=cpu_use_count, initializer=_worker_init, ...)`
StartPool ==
  /\ Goto("setup", "pool")
  /\ wst' = [p \in Pid |-> IF p <= NWorkers THEN "start" ELSE "absent"]
  /\ spawned' = NWorkers
  /\ UNCHANGED <<cause, code, shown, sigints, taskVars, initVars, wtask, deaths,
                 active, fileVars>>

\* Mutant: the table is replaced by the incoming results.
MergeReplaces(t) ==
  table' = [c \in Cell |-> IF c \in wrote[t] THEN t ELSE NoTask]

\* Mutant: a task that measured something overrides every cell.
MergeOverridesAll(t) ==
  table' = [c \in Cell |-> IF wrote[t] # {} THEN t ELSE table[c]]

\* Mutant: the table is rebound to the incoming rows.
MergeRebinds(t) ==
  table' = [c \in wrote[t] |-> t]

\* _merge_results: the incoming cells override what the table holds.
MergeResults(t) ==
  table' = [c \in Cell |-> IF c \in wrote[t] THEN t ELSE table[c]]

\* One turn of `for res, worker_pid in pool.imap_unordered(_run_task, tasks)`.
ConsumeResult ==
  /\ main = "pool"
  /\ reports # <<>>
  /\ outcome[Head(reports)] \notin Error
  /\ reports' = Tail(reports)
  /\ completed' = completed + 1
  /\ st' = [st EXCEPT ![Head(reports)] = "merged"]
  /\ MergeResults(Head(reports))
  /\ UNCHANGED <<mainVars, next, outcome, wrote, initVars, procVars, active, fileVars>>

\* Mutant: a task's exception is dropped and the loop goes on.
ConsumeErrorAndGoOn ==
  /\ main = "pool"
  /\ reports # <<>>
  /\ outcome[Head(reports)] \in Error
  /\ reports' = Tail(reports)
  /\ st' = [st EXCEPT ![Head(reports)] = "error"]
  /\ UNCHANGED <<mainVars, next, completed, outcome, wrote, table, initVars,
                 procVars, active, fileVars>>

\* Mutant: the loop is started again at the task that failed.
ConsumeErrorRetries ==
  /\ main = "pool"
  /\ reports # <<>>
  /\ outcome[Head(reports)] \in Error
  /\ reports' = Tail(reports)
  /\ next' = Head(reports)
  /\ st' = [st EXCEPT ![Head(reports)] = "queued"]
  /\ UNCHANGED <<mainVars, completed, outcome, wrote, table, initVars, procVars,
                 active, fileVars>>

\* A task's exception is raised again by the iteration and ends the loop,
\* silently (`except (IndexError, RuntimeError, EOFError): pass`) or not.
ConsumeError ==
  /\ Goto("pool", "unwind")
  /\ reports # <<>>
  /\ outcome[Head(reports)] \in Error
  /\ reports' = Tail(reports)
  /\ st' = [st EXCEPT ![Head(reports)] = "error"]
  /\ cause' = outcome[Head(reports)]
  /\ UNCHANGED <<code, shown, sigints, next, completed, outcome, wrote, table,
                 initVars, procVars, active, fileVars>>

\* Mutant: the loop waits for one result more than there are tasks.
EndLoopTooLate ==
  /\ completed > NTasks
  /\ Goto("pool", "unwind")
  /\ UNCHANGED <<cause, code, shown, sigints, taskVars, initVars, procVars,
                 active, fileVars>>

\* The iterator is exhausted when it has yielded one result per task.
EndLoop ==
  /\ completed = NTasks
  /\ Goto("pool", "unwind")
  /\ UNCHANGED <<cause, code, shown, sigints, taskVars, initVars, procVars,
                 active, fileVars>>

\* SIGTERM to every worker: whatever it holds is lost where it stands.
KillWorkers ==
  /\ wst' = [p \in Pid |-> IF wst[p] = "absent" THEN "absent" ELSE "dead"]
  /\ wtask' = [p \in Pid |-> NoTask]
  /\ st' = [t \in Task |-> IF st[t] = "held" THEN "lost" ELSE st[t]]

\* A killed worker took the lock with it.
Lost(l) == holder[l] # NoPid /\ wst[holder[l]] = "dead"

\* pool.__exit__ calls terminate() however the block is left.  Before the
\* workers are killed it takes the lock of the task queue, from which those
\* that wait there are told to go, and writes to the result queue.
TerminatePool ==
  /\ ~ Lost("get") /\ ~ Lost("put")
  /\ Goto("unwind", IF cause = "sigint" THEN "handler" ELSE "finally")
  /\ KillWorkers
  /\ UNCHANGED <<cause, code, shown, sigints, next, reports, completed, outcome,
                 wrote, table, initVars, spawned, deaths, active, fileVars>>

\* `except KeyboardInterrupt:` a locked print, then `sys.exit(130)`
HandleInterrupt ==
  /\ holder["print"] = NoPid
  /\ Goto("handler", "finally")
  /\ code' = "130"
  /\ UNCHANGED <<cause, shown, sigints, taskVars, initVars, procVars, active, fileVars>>

\* `finally:` the monitor is stopped, the status cleared under the print lock.
ClearStatus ==
  /\ holder["print"] = NoPid
  /\ Goto("finally", "cleanup")
  /\ UNCHANGED <<cause, code, shown, sigints, taskVars, initVars, procVars, active, fileVars>>

\* Mutant: the empty directories stay.
KeepDirs == root' = root

\* cleanup_call_empty_dirs removes empty directories and never a file.
CleanupEmptyDirs == root' = (root /\ files # {})

\* Mutant: an interrupted run goes on to the table.
CleanupThenTable ==
  /\ Goto("cleanup", IF cause = "raised" THEN "exiting" ELSE "table")
  /\ code' = IF cause = "raised" THEN "traceback" ELSE code
  /\ CleanupEmptyDirs
  /\ UNCHANGED <<cause, shown, sigints, taskVars, initVars, procVars, active, files>>

Cleanup ==
  /\ Goto("cleanup", IF cause \in {"none", "caught"} THEN "table" ELSE "exiting")
  /\ code' = IF cause = "raised" THEN "traceback" ELSE code
  /\ CleanupEmptyDirs
  /\ UNCHANGED <<cause, shown, sigints, taskVars, initVars, procVars, active, files>>

\* Two locked prints, an empty line and the table.
PrintTable ==
  /\ holder["print"] = NoPid
  /\ Goto("table", "exiting")
  /\ code' = "ok"
  /\ shown' = TRUE
  /\ UNCHANGED <<cause, sigints, taskVars, initVars, procVars, active, fileVars>>

\* Interpreter exit: the atexit cleanup, then the workers still alive (they
\* are daemon processes) are killed.
AtExit ==
  /\ Goto("exiting", "exited")
  /\ CleanupEmptyDirs
  /\ KillWorkers
  /\ UNCHANGED <<cause, code, shown, sigints, next, reports, completed, outcome,
                 wrote, table, initVars, spawned, deaths, active, files>>

-----------------------------------------------------------------------------
(***************************************************************************)
(* The environment.                                                        *)
(***************************************************************************)

\* A worker is killed from outside (out of memory, a crash): its task is
\* never reported, its entry of active_tasks stays, the locks it has stay taken.
WorkerDies(p) ==
  /\ deaths < MaxDeaths
  /\ wst[p] \notin {"absent", "dead"}
  /\ wst' = [wst EXCEPT ![p] = "dead"]
  /\ deaths' = deaths + 1
  /\ st' = [t \in Task |-> IF t = wtask[p] THEN "lost" ELSE st[t]]
  /\ wtask' = [wtask EXCEPT ![p] = NoTask]
  /\ UNCHANGED <<mainVars, next, reports, completed, outcome, wrote, table,
                 initVars, spawned, active, fileVars>>

\* The pool's maintenance thread replaces a worker that is gone.
RespawnWorker ==
  /\ main = "pool"
  /\ spawned < NWorkers + deaths
  /\ spawned' = spawned + 1
  /\ wst' = [wst EXCEPT ![spawned + 1] = "start"]
  /\ UNCHANGED <<mainVars, taskVars, initVars, wtask, deaths, active, fileVars>>

\* Where KeyboardInterrupt lands in the main thread decides what runs next:
\* only the pool block has a handler; during terminate() the handler runs
\* with the workers alive; elsewhere it escapes as a traceback, except where the
\* print lock is held or waited for: there it is swallowed, and a print goes
\* on without the lock.
InterruptIn(to, why, status) ==
  /\ main' = to
  /\ cause' = why
  /\ code' = status
  /\ shown' = shown

SwallowedIn(to, status, printed) ==
  /\ main' = to
  /\ cause' = cause
  /\ code' = status
  /\ shown' = printed

CtrlC ==
  /\ sigints < MaxSigints
  /\ sigints' = sigints + 1
  /\ \/ main = "setup" /\ InterruptIn("exiting", "sigint", "traceback")
     \/ main = "pool" /\ InterruptIn("unwind", "sigint", code)
     \/ main = "unwind" /\ InterruptIn("handler", "sigint", code)
     \/ main = "handler" /\ InterruptIn("finally", "sigint", "traceback")
     \/ main = "handler" /\ SwallowedIn("finally", "130", shown)
     \/ main \in {"finally", "cleanup", "table"} /\ InterruptIn("exiting", "sigint", "traceback")
     \/ main = "finally" /\ SwallowedIn("cleanup", code, shown)
     \/ main = "table" /\ SwallowedIn("table", code, shown)
     \/ main = "table" /\ SwallowedIn("exiting", "ok", TRUE)
  /\ UNCHANGED <<taskVars, initVars, procVars, active, fileVars>>

-----------------------------------------------------------------------------
Main ==
  \/ StartPool \/ ConsumeResult \/ ConsumeError \/ EndLoop \/ TerminatePool
  \/ HandleInterrupt \/ ClearStatus \/ Cleanup \/ PrintTable \/ AtExit

Work(p) ==
  \/ ReadIndex(p) \/ BumpIndexAndPin(p) \/ LockStep(p) \/ TakeTask(p) \/ Announce(p)
  \/ GenerateProgram(p) \/ EndTask(p) \/ SweepScratch(p) \/ SendResult(p)

Next ==
  \/ Main
  \/ \E p \in Pid : Work(p)
  \/ \E p \in Pid : WorkerDies(p)
  \/ RespawnWorker
  \/ CtrlC

\* The operating system schedules every process, and every compilation and
\* run is bounded by a timeout; nobody has to press Ctrl-C or kill a worker.
Fairness ==
  /\ WF_vars(Main)
  /\ WF_vars(RespawnWorker)
  /\ \A p \in Pid : WF_vars(Work(p))

Spec == Init /\ [][Next]_vars /\ Fairness
=============================================================================
