------------------------------- MODULE TaskRun -------------------------------
(***************************************************************************)
(* What the runner of one task (cbench_pkg/compiler.py, _run_task)         *)
(* promises the driver: it generates a program at most once before it      *)
(* compiles, it ends at most once, what it measured are cells that a task  *)
(* like this may measure, an exception takes everything measured with it,  *)
(* and once the task is over neither its outcome nor its cells change.     *)
(* The worker that runs the task may be killed before that.                *)
(***************************************************************************)

VARIABLES phase,     \* "idle" (nothing generated), "compiling", "over", "killed"
          outcome,   \* "pending", then how the task ended
          measured,  \* the cells in its result
          may        \* the cells it may measure

runVars == <<phase, outcome, measured, may>>

Verdicts == {"clean", "noisy"}
Exceptions == {"caught", "raised"}

\* How a task may end: without a program it has found no compiler or raised.
Endings ==
  IF phase = "idle"
  THEN ({"none"} \cup Exceptions) \X {{}}
  ELSE (Verdicts \X SUBSET may) \cup (Exceptions \X {{}})

RunInit == phase = "idle" /\ outcome = "pending" /\ measured = {}

Generate ==
  /\ phase = "idle"
  /\ phase' = "compiling"
  /\ UNCHANGED <<outcome, measured, may>>

End ==
  /\ phase \in {"idle", "compiling"}
  /\ phase' = "over"
  /\ <<outcome', measured'>> \in Endings
  /\ UNCHANGED may

Killed ==
  /\ phase \in {"idle", "compiling"}
  /\ phase' = "killed"
  /\ UNCHANGED <<outcome, measured, may>>

RunNext == Generate \/ End \/ Killed

RunSpec == RunInit /\ [][RunNext]_runVars
=============================================================================
