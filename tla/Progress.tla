------------------------------ MODULE Progress -------------------------------
(***************************************************************************)
(* The status on the terminal (cbench_pkg/progress.py): a monitor thread   *)
(* of the main process draws it five times a second, and every print of    *)
(* the program, in any process, erases it first.  A lock shared by all of  *)
(* them protects the terminal and status_len, which counts what is drawn;  *)
(* main() (cbench_pkg/cli.py) erases the status for good at the end.       *)
(*                                                                         *)
(* What the driver does otherwise is BenchDriver's subject; here workers   *)
(* print a few messages and may be killed while they do, and Ctrl-C may    *)
(* come at any point of main().                                            *)
(***************************************************************************)
EXTENDS Naturals

CONSTANTS Worker,         \* worker processes
          MaxLines,       \* lines (or columns) of a status
          MaxPrints,      \* messages of a worker
          MaxInterrupts   \* Ctrl-C

Main == "main"
Monitor == "monitor"
Free == "free"
Printer == Worker \cup {Main}

ASSUME ProgressAssumption ==
  /\ {Main, Monitor, Free} \cap Worker = {}
  /\ MaxLines \in Nat \ {0} /\ MaxPrints \in Nat /\ MaxInterrupts \in Nat

VARIABLES
  mode,        \* "tree" or "line"
  main,        \* "loop", "say", "join", "clear", "cleanup", "table", "exited"
  cause,       \* why the loop was left: "none", "error" (swallowed), "interrupt"
  ppc,         \* printers: "idle", "locked", "erased", "zeroed", "said", "dead"
  left,        \* messages a printer has still to print
  mpc,         \* monitor: "sleep", "compose", "locked", "erased", "drawn", "gone"
  drawn,       \* size of the status the monitor has just drawn
  lock,        \* holder of print_lock
  statusLen,   \* status_len
  screen,      \* size of the status on the terminal
  stop,        \* stop_event
  managerUp,   \* the manager process, which holds status_len
  interrupts,  \* Ctrl-C so far
  cut,         \* one of them cut a critical section short
  late,        \* the join of the monitor timed out
  garbled      \* something was printed while a status was on the terminal

printers == <<ppc, left>>
monitor == <<mpc, drawn>>
flags == <<mode, cause, interrupts, cut, late>>
vars == <<flags, main, printers, monitor, lock, statusLen, screen, stop, managerUp, garbled>>

TypeOK ==
  /\ mode \in {"tree", "line"}
  /\ main \in {"loop", "say", "join", "clear", "cleanup", "table", "exited"}
  /\ cause \in {"none", "error", "interrupt"}
  /\ ppc \in [Printer -> {"idle", "locked", "erased", "zeroed", "said", "dead"}]
  /\ left \in [Printer -> Nat]
  /\ mpc \in {"sleep", "compose", "locked", "erased", "drawn", "gone"}
  /\ drawn \in 0 .. MaxLines /\ statusLen \in 0 .. MaxLines /\ screen \in Nat
  /\ lock \in Printer \cup {Monitor, Free}
  /\ interrupts \in 0 .. MaxInterrupts
  /\ {stop, managerUp, cut, late, garbled} \subseteq BOOLEAN

Init ==
  /\ mode \in {"tree", "line"}
  /\ main = "loop" /\ cause = "none"
  /\ ppc = [p \in Printer |-> "idle"]
  /\ left \in [Printer -> 0 .. MaxPrints] /\ left[Main] = 0
  /\ mpc = "sleep" /\ drawn = 0
  /\ lock = Free /\ statusLen = 0 /\ screen = 0
  /\ stop = FALSE /\ managerUp = TRUE
  /\ interrupts = 0 /\ cut = FALSE /\ late = FALSE /\ garbled = FALSE

-----------------------------------------------------------------------------
\* _clear_status: what is erased is what the count says.
ClearStatus == screen' = IF statusLen <= screen THEN screen - statusLen ELSE 0

(***************************************************************************)
(* _locked_print.  Without the manager the count cannot be read: nothing   *)
(* is erased and the message is printed all the same.                      *)
(***************************************************************************)
PrintAcquire(p) ==
  /\ ppc[p] = "idle" /\ left[p] > 0
  /\ lock = Free
  /\ lock' = p
  /\ ppc' = [ppc EXCEPT ![p] = "locked"]
  /\ UNCHANGED <<flags, main, left, monitor, statusLen, screen, stop, managerUp, garbled>>

PrintErase(p) ==
  /\ ppc[p] = "locked"
  /\ IF managerUp THEN ClearStatus ELSE UNCHANGED screen
  /\ ppc' = [ppc EXCEPT ![p] = "erased"]
  /\ UNCHANGED <<flags, main, left, monitor, lock, statusLen, stop, managerUp, garbled>>

\* Mutant: the count is left as it is.
PrintZeroForgotten(p) ==
  /\ ppc[p] = "erased"
  /\ ppc' = [ppc EXCEPT ![p] = "zeroed"]
  /\ UNCHANGED <<flags, main, left, monitor, lock, statusLen, screen, stop, managerUp, garbled>>

PrintZero(p) ==
  /\ ppc[p] = "erased"
  /\ statusLen' = IF managerUp THEN 0 ELSE statusLen
  /\ ppc' = [ppc EXCEPT ![p] = "zeroed"]
  /\ UNCHANGED <<flags, main, left, monitor, lock, screen, stop, managerUp, garbled>>

PrintMessage(p) ==
  /\ ppc[p] = "zeroed" /\ (p = Main => main # "clear")
  /\ garbled' = (garbled \/ screen > 0)
  /\ ppc' = [ppc EXCEPT ![p] = "said"]
  /\ UNCHANGED <<flags, main, left, monitor, lock, statusLen, screen, stop, managerUp>>

\* The lock is released; main() goes on after its print.
PrintRelease(p) ==
  /\ ppc[p] = "said"
  /\ lock' = Free
  /\ ppc' = [ppc EXCEPT ![p] = "idle"]
  /\ left' = [left EXCEPT ![p] = @ - 1]
  /\ main' = IF p # Main THEN main ELSE IF main = "say" THEN "join" ELSE "exited"
  /\ UNCHANGED <<flags, monitor, statusLen, screen, stop, managerUp, garbled>>

LockedPrint(p) ==
  PrintAcquire(p) \/ PrintErase(p) \/ PrintZero(p) \/ PrintMessage(p) \/ PrintRelease(p)

-----------------------------------------------------------------------------
(***************************************************************************)
(* _progress_monitor                                                       *)
(***************************************************************************)
\* `stop_event.wait(...)` has timed out; the tasks are read and laid out.
Compose ==
  /\ mpc = "sleep" /\ ~stop
  /\ mpc' = "compose"
  /\ UNCHANGED <<flags, main, printers, drawn, lock, statusLen, screen, stop, managerUp, garbled>>

MonitorStops ==
  /\ mpc = "sleep" /\ stop
  /\ mpc' = "gone"
  /\ UNCHANGED <<flags, main, printers, drawn, lock, statusLen, screen, stop, managerUp, garbled>>

MonitorAcquire ==
  /\ mpc = "compose"
  /\ lock = Free
  /\ lock' = Monitor
  /\ mpc' = "locked"
  /\ UNCHANGED <<flags, main, printers, drawn, statusLen, screen, stop, managerUp, garbled>>

\* The tree is erased; the line will be written over.
MonitorErase ==
  /\ mpc = "locked" /\ managerUp
  /\ IF mode = "tree" THEN ClearStatus ELSE UNCHANGED screen
  /\ mpc' = "erased"
  /\ UNCHANGED <<flags, main, printers, drawn, lock, statusLen, stop, managerUp, garbled>>

\* Mutant: the lock is not released on this path.
MonitorRaisesLocked ==
  /\ mpc \in {"locked", "drawn"} /\ ~managerUp
  /\ mpc' = "sleep"
  /\ UNCHANGED <<flags, main, printers, drawn, lock, statusLen, screen, stop, managerUp, garbled>>

\* status_len cannot be read or written any more: the lock is released.
MonitorRaises ==
  /\ mpc \in {"locked", "drawn"} /\ ~managerUp
  /\ lock' = Free
  /\ mpc' = "sleep"
  /\ UNCHANGED <<flags, main, printers, drawn, statusLen, screen, stop, managerUp, garbled>>

\* A line is padded to the length of the one before.
Larger(m, n) == IF m >= n THEN m ELSE n

MonitorDraw ==
  /\ mpc = "erased"
  /\ \E n \in 1 .. MaxLines : drawn' = IF mode = "line" THEN Larger(n, statusLen) ELSE n
  /\ screen' = IF mode = "line" THEN Larger(screen, drawn') ELSE screen + drawn'
  /\ mpc' = "drawn"
  /\ UNCHANGED <<flags, main, printers, lock, statusLen, stop, managerUp, garbled>>

MonitorRecord ==
  /\ mpc = "drawn" /\ managerUp
  /\ statusLen' = drawn
  /\ lock' = Free
  /\ mpc' = "sleep"
  /\ UNCHANGED <<flags, main, printers, drawn, screen, stop, managerUp, garbled>>

MonitorSteps ==
  \/ Compose \/ MonitorStops \/ MonitorAcquire \/ MonitorErase \/ MonitorRaises \/ MonitorDraw
  \/ MonitorRecord

-----------------------------------------------------------------------------
(***************************************************************************)
(* main()                                                                  *)
(***************************************************************************)
\* Pool.terminate kills the workers, wherever they are; the lock of one that
\* prints is not released.
Terminate == ppc' = [p \in Printer |-> IF p = Main THEN ppc[p] ELSE "dead"]

LoopEnds ==
  /\ main = "loop"
  /\ \A w \in Worker : ppc[w] = "idle" /\ left[w] = 0
  /\ Terminate
  /\ main' = "join" /\ stop' = TRUE
  /\ UNCHANGED <<flags, left, monitor, lock, statusLen, screen, managerUp, garbled>>

\* A task has raised what main() swallows.
TaskError ==
  /\ main = "loop"
  /\ Terminate
  /\ main' = "join" /\ stop' = TRUE /\ cause' = "error"
  /\ UNCHANGED <<mode, interrupts, cut, late, left, monitor, lock, statusLen, screen, managerUp,
                 garbled>>

\* Mutant: main() does not wait for the monitor.
JoinSkipped ==
  /\ main = "join"
  /\ main' = "clear"
  /\ UNCHANGED <<flags, printers, monitor, lock, statusLen, screen, stop, managerUp, garbled>>

Join ==
  /\ main = "join"
  /\ mpc = "gone"
  /\ main' = "clear"
  /\ UNCHANGED <<flags, printers, monitor, lock, statusLen, screen, stop, managerUp, garbled>>

\* One second was not enough for a monitor that draws or waits for the lock.
JoinTimesOut ==
  /\ main = "join"
  /\ mpc \notin {"sleep", "gone"}
  /\ main' = "clear" /\ late' = TRUE
  /\ UNCHANGED <<mode, cause, interrupts, cut, printers, monitor, lock, statusLen, screen, stop,
                 managerUp, garbled>>

\* The last erasure, under the lock.
ClearAcquire ==
  /\ main = "clear" /\ ppc[Main] = "idle"
  /\ lock = Free
  /\ lock' = Main
  /\ ppc' = [ppc EXCEPT ![Main] = "locked"]
  /\ UNCHANGED <<flags, main, left, monitor, statusLen, screen, stop, managerUp, garbled>>

ClearRelease ==
  /\ main = "clear" /\ ppc[Main] = "zeroed"
  /\ lock' = Free
  /\ ppc' = [ppc EXCEPT ![Main] = "idle"]
  /\ main' = "cleanup"
  /\ UNCHANGED <<flags, left, monitor, statusLen, screen, stop, managerUp, garbled>>

\* The manager is shut down; the table is printed unless the program was
\* interrupted.
Shutdown ==
  /\ main = "cleanup"
  /\ managerUp' = FALSE
  /\ main' = IF cause = "interrupt" THEN "exited" ELSE "table"
  /\ left' = [left EXCEPT ![Main] = IF cause = "interrupt" THEN 0 ELSE 1]
  /\ UNCHANGED <<flags, ppc, monitor, lock, statusLen, screen, stop, garbled>>

MainSteps == LoopEnds \/ TaskError \/ Join \/ JoinTimesOut \/ ClearAcquire \/ ClearRelease \/ Shutdown

-----------------------------------------------------------------------------
(***************************************************************************)
(* Ctrl-C, at most MaxInterrupts times                                     *)
(***************************************************************************)
Again == interrupts < MaxInterrupts /\ interrupts' = interrupts + 1
LetGo == lock' = IF lock = Main THEN Free ELSE lock
MainLetsGo == ppc' = [ppc EXCEPT ![Main] = "idle"] /\ LetGo

\* In the loop: the workers are terminated, then the handler prints.
CtrlCInLoop ==
  /\ main = "loop" /\ Again
  /\ Terminate
  /\ main' = "say" /\ stop' = TRUE /\ cause' = "interrupt"
  /\ left' = [left EXCEPT ![Main] = 1]
  /\ UNCHANGED <<mode, cut, late, monitor, lock, statusLen, screen, managerUp, garbled>>

\* In a print: `except BaseException` prints the message without the lock.
CtrlCInPrint ==
  /\ main \in {"say", "table"} /\ Again
  /\ MainLetsGo
  /\ left' = [left EXCEPT ![Main] = 0]
  /\ garbled' = (garbled \/ screen > 0) /\ cut' = TRUE
  /\ main' = IF main = "say" THEN "join" ELSE "exited"
  /\ UNCHANGED <<mode, cause, late, monitor, statusLen, screen, stop, managerUp>>

\* While the monitor is joined: nothing catches it.
CtrlCInJoin ==
  /\ main \in {"join", "cleanup"} /\ Again
  /\ main' = "exited" /\ managerUp' = FALSE /\ cause' = "interrupt"
  /\ UNCHANGED <<mode, cut, late, printers, monitor, lock, statusLen, screen, stop, garbled>>

\* In the last erasure: `except BaseException` swallows it.
CtrlCInClear ==
  /\ main = "clear" /\ Again
  /\ MainLetsGo
  /\ main' = "cleanup" /\ cut' = TRUE
  /\ UNCHANGED <<mode, cause, late, left, monitor, statusLen, screen, stop, managerUp, garbled>>

CtrlC == CtrlCInLoop \/ CtrlCInPrint \/ CtrlCInJoin \/ CtrlCInClear

Next == (\E p \in Printer : LockedPrint(p)) \/ MonitorSteps \/ MainSteps \/ CtrlC

\* Every thread goes on when it can; a printer that waits for the lock gets it
\* between two drawings, for the monitor sleeps 0.2 seconds after each.
Fairness ==
  /\ \A p \in Printer : WF_vars(LockedPrint(p)) /\ SF_vars(PrintAcquire(p))
  /\ WF_vars(MonitorSteps)
  /\ WF_vars(Join) /\ WF_vars(JoinTimesOut) /\ SF_vars(ClearAcquire) /\ WF_vars(ClearRelease)
  /\ WF_vars(Shutdown) /\ WF_vars(LoopEnds)

Spec == Init /\ [][Next]_vars /\ Fairness

-----------------------------------------------------------------------------
\* Whenever nobody holds the lock, the count is the size of the status on the
\* terminal: whoever comes next, in whichever process, erases exactly what is
\* there.  Only a Ctrl-C that cuts a critical section of main() short breaks it.
StatusMatchesScreen ==
  lock = Free /\ managerUp /\ ~cut => statusLen = screen

\* No message and no table is printed onto a status, unless a Ctrl-C cut a
\* critical section short or the monitor was too slow to be joined.
NothingPrintedOnStatus == garbled => cut \/ late

\* The lock is held by a worker that was killed while it printed.
LockIsLost == lock \in Worker /\ ppc[lock] = "dead"

\* main() can take no step of its own: in the loop it waits for results, then for
\* the monitor, and to print or to erase for the lock.
MainWaits ==
  \/ main = "loop" /\ \E w \in Worker : ppc[w] # "idle" \/ left[w] > 0
  \/ main = "join" /\ mpc = "sleep"
  \/ main \in {"say", "clear", "table"} /\ ppc[Main] = "idle" /\ lock # Free

\* Whoever main() waits for can go on, unless the lock is lost: nobody waits for
\* main() meanwhile (print_lock, stop_event and the join of the monitor).
MainWaitsForTheLiving ==
  MainWaits =>
    \/ LockIsLost
    \/ lock = Monitor /\ mpc \in {"locked", "erased", "drawn"}
    \/ stop /\ mpc = "sleep"
    \/ \E w \in Worker : \/ ppc[w] \in {"locked", "erased", "zeroed", "said"}
                         \/ ppc[w] = "idle" /\ left[w] > 0 /\ lock = Free

\* The program exits, or main() waits for ever because the lock is lost, to print or
\* to erase.
ExitsUnlessLockIsLost == <>(main = "exited") \/ <>[]LockIsLost
=============================================================================
