----------------------------- MODULE Measurement -----------------------------
(***************************************************************************)
(* One measurement: measure_compilation (cbench_pkg/compiler.py) runs a    *)
(* compiler in the scratch directory, samples its memory while it runs     *)
(* (ProcessTimer of cbench_pkg/timer.py, or a loop of its own when the     *)
(* compiler reads a script from standard input), kills it when the limit   *)
(* of --timeout is over and then collects what it printed.                 *)
(*                                                                         *)
(* The compiler prints into a pipe that nobody reads while it is polled,   *)
(* and may start a helper (a back end, a linker, a server) that inherits   *)
(* the pipe.  The kernel and the compiler are external.                    *)
(***************************************************************************)
EXTENDS Integers

CONSTANTS PipeCap,    \* units of output a pipe holds
          MaxPrints,  \* units of output a compiler prints at most
          ExitCode,   \* exit statuses of compilers
          SampleRate, \* values of --sample-rate
          MayDeny     \* memory_info() may be refused (macOS)

\* No compiler exits with the status that `timeout` of the shell uses: it would
\* be taken for one that was killed.
ASSUME MeasurementAssumption ==
  /\ PipeCap \in Nat \ {0} /\ MaxPrints \in Nat
  /\ ExitCode \subseteq Nat \ {124} /\ MayDeny \in BOOLEAN
  /\ SampleRate \subseteq Int

\* stdin: a script is written to the compiler; limit: --timeout is not 0; rate:
\* --sample-rate; prints: what the compiler prints before it exits; hangs: it never exits;
\* helper: none, one the compiler waits for, or one that stays; denied: the
\* system refuses to tell the memory of the process.
World == [stdin : BOOLEAN, limit : BOOLEAN, rate : SampleRate, prints : 0 .. MaxPrints, hangs : BOOLEAN,
          helper : {"none", "works", "stays"}, denied : {FALSE, MayDeny}]

Unset == -1      \* returncode before the process was waited for
Sigkill == -9    \* returncode of a process that a SIGKILL ended
Expired == 124   \* returncode as the polling loop sets it

Status == {Unset, Sigkill} \cup ExitCode
ReturnCode == Status \cup {Expired}
Step == {"spawn", "write", "poll", "sample", "limit", "sleep", "drain", "done", "raised"}

VARIABLES
  world,       \* the compiler
  pc,          \* where measure_compilation is
  child,       \* "none", "running", "ended" (nobody waited for it yet), "reaped"
  status,      \* its exit status
  todo, pipe,  \* units it has still to print; units in the pipe
  read,        \* units in outs and errs
  helper,      \* "none", "running", "gone"
  listed,      \* pp.children() named the helper
  expired,     \* timer() - cstart > timeout
  strayed,     \* the loop was left although the process runs
  rss,         \* "unset", "figure", "missing", "sampling error"
  returncode,  \* what is returned
  dir          \* current directory: "caller" or "work"

system == <<child, status, todo, pipe, helper, expired>>
python == <<pc, read, listed, strayed, rss, returncode, dir>>
vars == <<world, system, python>>

TypeOK ==
  /\ world \in World
  /\ pc \in Step
  /\ child \in {"none", "running", "ended", "reaped"}
  /\ status \in Status
  /\ todo \in 0 .. MaxPrints /\ pipe \in 0 .. PipeCap /\ read \in 0 .. MaxPrints
  /\ helper \in {"none", "running", "gone"}
  /\ listed \in BOOLEAN /\ expired \in BOOLEAN /\ strayed \in BOOLEAN
  /\ rss \in {"unset", "figure", "missing", "sampling error"}
  /\ returncode \in ReturnCode
  /\ dir \in {"caller", "work"}

Init ==
  /\ world \in World
  /\ pc = "spawn" /\ child = "none" /\ status = Unset
  /\ todo = world.prints /\ pipe = 0 /\ read = 0
  /\ helper = "none" /\ listed = FALSE /\ expired = FALSE /\ strayed = FALSE
  /\ rss = "unset" /\ returncode = Unset /\ dir = "work"

-----------------------------------------------------------------------------
(***************************************************************************)
(* The compiler, its helper and the clock.                                 *)
(***************************************************************************)
Ends(s) == child' = "ended" /\ status' = s

\* A full pipe blocks the compiler.
ChildPrints ==
  /\ child = "running" /\ todo > 0 /\ pipe < PipeCap
  /\ todo' = todo - 1 /\ pipe' = pipe + 1
  /\ UNCHANGED <<world, child, status, helper, expired, python>>

ChildExits ==
  /\ child = "running" /\ todo = 0 /\ ~world.hangs
  /\ world.helper = "works" => helper # "running"
  /\ \E s \in ExitCode : Ends(s)
  /\ UNCHANGED <<world, todo, pipe, helper, expired, python>>

\* The out-of-memory killer.
ChildKilled ==
  /\ child = "running"
  /\ Ends(Sigkill)
  /\ UNCHANGED <<world, todo, pipe, helper, expired, python>>

HelperStarts ==
  /\ child = "running" /\ world.helper # "none" /\ helper = "none"
  /\ helper' = "running"
  /\ UNCHANGED <<world, child, status, todo, pipe, expired, python>>

HelperEnds ==
  /\ helper = "running" /\ world.helper = "works"
  /\ helper' = "gone"
  /\ UNCHANGED <<world, child, status, todo, pipe, expired, python>>

Expire ==
  /\ pc \notin {"done", "raised"} /\ ~expired
  /\ expired' = TRUE
  /\ UNCHANGED <<world, child, status, todo, pipe, helper, python>>

-----------------------------------------------------------------------------
(***************************************************************************)
(* measure_compilation                                                     *)
(***************************************************************************)
Raise == pc' = "raised" /\ dir' = "caller"

Spawn ==
  /\ pc = "spawn"
  /\ pc' = IF world.stdin THEN "write" ELSE "poll"
  /\ child' = "running"
  /\ UNCHANGED <<world, status, todo, pipe, helper, expired, read, listed, strayed, rss,
                 returncode, dir>>

\* Popen raises: the compiler is not there or not executable.
SpawnFails ==
  /\ pc = "spawn"
  /\ Raise
  /\ UNCHANGED <<world, system, read, listed, strayed, rss, returncode>>

\* The script is short: it fits into the pipe unless the compiler is gone.
WriteScript ==
  /\ pc = "write"
  /\ child = "running"
  /\ pc' = "poll"
  /\ UNCHANGED <<world, system, read, listed, strayed, rss, returncode, dir>>

\* BrokenPipeError
WriteFails ==
  /\ pc = "write"
  /\ child # "running"
  /\ Raise
  /\ UNCHANGED <<world, system, read, listed, strayed, rss, returncode>>

\* poll() of the process: it is waited for when it has ended.
Reap == child' = IF child = "ended" THEN "reaped" ELSE child

\* The head of either loop; ProcessTimer.poll then lists the processes.
Poll ==
  /\ pc = "poll"
  /\ Reap
  /\ pc' = IF child # "running" THEN "drain" ELSE IF world.stdin THEN "limit" ELSE "sample"
  /\ listed' = (child = "running" /\ ~world.stdin /\ helper = "running")
  /\ UNCHANGED <<world, status, todo, pipe, helper, expired, read, strayed, rss, returncode, dir>>

\* memory_info of every listed process; one that nobody waited for yet has
\* memory 0 and raises nothing.  ProcessTimer.poll looks at the process again.
Sample ==
  /\ pc = "sample"
  /\ listed => helper # "gone"
  /\ ~world.denied
  /\ rss' = IF child = "running" THEN "figure" ELSE rss
  /\ IF world.stdin THEN pc' = "sleep" /\ UNCHANGED child
     ELSE Reap /\ pc' = IF child = "running" THEN "limit" ELSE "drain"
  /\ UNCHANGED <<world, status, todo, pipe, helper, expired, read, listed, strayed, returncode, dir>>

\* A listed helper is gone: evaluating `psutil.error` in the except clause
\* raises AttributeError, caught outside of the loop.  Where memory_info is
\* refused, the stdin loop breaks and ProcessTimer fails in the same way.
SampleFails ==
  /\ pc = "sample"
  /\ (listed /\ helper = "gone") \/ world.denied
  /\ rss' = IF world.stdin THEN rss ELSE "sampling error"
  /\ pc' = "drain" /\ strayed' = TRUE
  /\ UNCHANGED <<world, system, read, listed, returncode, dir>>

\* The limit is not over, or there is none.
WithinLimit ==
  /\ pc = "limit"
  /\ ~(world.limit /\ expired)
  /\ pc' = IF world.stdin THEN "sample" ELSE "sleep"
  /\ UNCHANGED <<world, system, read, listed, strayed, rss, returncode, dir>>

\* `time.sleep(1.0 / sample_rate)`, the end of either loop.
Sleep ==
  /\ pc = "sleep"
  /\ world.rate > 0
  /\ pc' = "poll"
  /\ UNCHANGED <<world, system, read, listed, strayed, rss, returncode, dir>>

\* A rate of 0 divides by zero, a negative one is no time to sleep: the exception is
\* taken for one of the sampling.
SleepFails ==
  /\ pc = "sleep"
  /\ world.rate <= 0
  /\ rss' = "sampling error"
  /\ pc' = "drain" /\ strayed' = TRUE
  /\ UNCHANGED <<world, system, read, listed, returncode, dir>>

\* Mutant: nobody is killed.
TimeOutOnly ==
  /\ pc = "limit"
  /\ world.limit /\ expired
  /\ UNCHANGED <<child, status>>
  /\ returncode' = Expired
  /\ pc' = "drain"
  /\ UNCHANGED <<world, todo, pipe, helper, expired, read, listed, strayed, rss, dir>>

\* Popen.kill polls first: a process that has ended meanwhile keeps its status.
TimeOut ==
  /\ pc = "limit"
  /\ world.limit /\ expired
  /\ IF child = "running" THEN Ends(Sigkill) ELSE Reap /\ UNCHANGED status
  /\ returncode' = Expired
  /\ pc' = "drain"
  /\ UNCHANGED <<world, todo, pipe, helper, expired, read, listed, strayed, rss, dir>>

\* Mutant: the process is waited for before its output is read.
DrainAfterExit ==
  /\ pc = "drain"
  /\ pipe > 0 /\ child # "running"
  /\ read' = read + pipe /\ pipe' = 0
  /\ UNCHANGED <<world, child, status, todo, helper, expired, pc, listed, strayed, rss,
                 returncode, dir>>

\* communicate() empties the pipe.
Drain ==
  /\ pc = "drain"
  /\ pipe > 0
  /\ read' = read + pipe /\ pipe' = 0
  /\ UNCHANGED <<world, child, status, todo, helper, expired, pc, listed, strayed, rss,
                 returncode, dir>>

\* Mutant: what the polling loop says is not overwritten.
ReturnFirstCode ==
  /\ pc = "drain"
  /\ pipe = 0 /\ child # "running" /\ helper # "running"
  /\ child' = "reaped"
  /\ returncode' = IF returncode = Expired THEN returncode ELSE status
  /\ rss' = IF rss = "unset" THEN "missing" ELSE rss
  /\ pc' = "done" /\ dir' = "caller"
  /\ UNCHANGED <<world, status, todo, pipe, helper, expired, read, listed, strayed>>

\* Mutant: communicate() waits for the process only.
ReturnAtExit ==
  /\ pc = "drain"
  /\ child # "running"
  /\ child' = "reaped"
  /\ returncode' = status
  /\ rss' = IF rss = "unset" THEN "missing" ELSE rss
  /\ pc' = "done" /\ dir' = "caller"
  /\ UNCHANGED <<world, status, todo, pipe, helper, expired, read, listed, strayed>>

\* communicate() returns when nobody holds the pipe any more and the process
\* has ended; its status replaces what the loop has set.
Return ==
  /\ pc = "drain"
  /\ pipe = 0 /\ child # "running" /\ helper # "running"
  /\ child' = "reaped"
  /\ returncode' = status
  /\ rss' = IF rss = "unset" THEN "missing" ELSE rss
  /\ pc' = "done" /\ dir' = "caller"
  /\ UNCHANGED <<world, status, todo, pipe, helper, expired, read, listed, strayed>>

Measure ==
  \/ Spawn \/ SpawnFails \/ WriteScript \/ WriteFails \/ Poll \/ Sample \/ SampleFails
  \/ WithinLimit \/ Sleep \/ SleepFails \/ TimeOut \/ Drain \/ Return

Next == Measure \/ ChildPrints \/ ChildExits \/ ChildKilled \/ HelperStarts \/ HelperEnds \/ Expire

\* Time passes, a process that can go on does, and so does the worker; nobody
\* need be short of memory or start a helper.
Fairness ==
  /\ WF_vars(Measure) /\ WF_vars(ChildPrints) /\ WF_vars(ChildExits)
  /\ WF_vars(HelperEnds) /\ WF_vars(Expire)

Spec == Init /\ [][Next]_vars /\ Fairness

-----------------------------------------------------------------------------
Ended == pc \in {"done", "raised"}

\* benchmark_compiler_op writes the timeout tag for these.
TimedOut(code) == code \in {Sigkill, Expired}

\* The verdict is the fate of the process, whatever the race between its exit
\* and the kill: it counts as timed out exactly if a SIGKILL ended it, and
\* where it exited of its own accord all that it printed was collected
\* (returncode and outs after communicate()).
VerdictIsFate ==
  pc = "done" =>
    /\ TimedOut(returncode) <=> status = Sigkill
    /\ returncode \in ExitCode => returncode = status /\ read = world.prints

\* When measure_compilation is left, by return or exception, the worker is in
\* its own directory again and the compiler does not run any more; after a
\* return no helper that shares its output runs either, so the next measurement
\* of the worker is not disturbed by this one.
NothingOutlives ==
  Ended => /\ dir = "caller" /\ child # "running"
           /\ pc = "done" => helper # "running"

\* benchmark_compiler_op takes a status for one of these.
VerdictOf(code) == IF TimedOut(code) THEN "timeout" ELSE IF code = 0 THEN "ok" ELSE "failed"

\* What the caller of measure_compilation can tell of the compiler, how much it
\* printed and what was returned or raised.
Fate == IF child = "none" THEN "absent"
        ELSE IF status = Unset THEN "running" ELSE VerdictOf(status)
Said == world.prints - todo
Account == [verdict |-> IF pc = "done" THEN VerdictOf(returncode)
                        ELSE IF pc = "raised" THEN "raised" ELSE "none",
            heard |-> IF pc = "done" THEN read ELSE 0]

\* A measurement is one attempt, as benchmark_compiler_op expects it: with all
\* that races in between, its caller learns once, and only when the compiler is
\* over, what became of it and all that it printed, or gets an exception while
\* no compiler runs (measure_compilation).
Caller == INSTANCE Attempt WITH fate <- Fate, said <- Said, report <- Account
AttemptSpec == Caller!AttemptSpec

\* Only the polling loop bounds a compiler, for communicate() waits without a limit:
\* the loop is left before the compiler has ended only when sampling fails, because
\* its memory is refused or a listed helper is gone (`except psutil.error`), or when
\* it cannot sleep, for a sample rate that is not positive.
WatchedToTheEnd ==
  pc = "drain" /\ child = "running" =>
    strayed /\ (world.denied \/ helper = "gone" \/ world.rate <= 0)

\* With a limit, a measurement ends, whatever the compiler prints and whether it
\* ends or not, unless a helper keeps the pipe or the loop that enforces the limit
\* was left early for a compiler that hangs.
LimitEndsMeasurement ==
  world.limit /\ world.helper # "stays" => <>(Ended \/ (strayed /\ world.hangs))

\* What can keep the worker for ever, with a limit or without, is a helper that
\* keeps the pipe, a compiler that hangs, or one that prints more than the pipe
\* holds while it is polled; once communicate() reads, output blocks nobody.
OnlyKnownHangs ==
  <>Ended \/ <>[](\/ helper = "running" /\ pc = "drain"
                  \/ child = "running" /\ world.hangs
                  \/ child = "running" /\ pipe = PipeCap /\ pc # "drain")

-----------------------------------------------------------------------------
\* README: `--timeout` is the "Per-compilation timeout in seconds": a compiler
\* that runs when it is over does not run for ever.
TimeoutBounds == expired /\ world.limit ~> child # "running"
=============================================================================
