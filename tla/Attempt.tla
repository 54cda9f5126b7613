------------------------------- MODULE Attempt -------------------------------
(***************************************************************************)
(* What measure_compilation (cbench_pkg/compiler.py) promises the code     *)
(* that calls it, with the clock, the pipes, the sampling, the kill and    *)
(* the helpers of the compiler abstracted away: a compiler runs at most    *)
(* once; when it is over, and not before, its fate is reported with all    *)
(* that it printed, once and for good.  An attempt that could not start    *)
(* the compiler, or not talk to it, raises instead.                        *)
(***************************************************************************)
EXTENDS Naturals

\* How a compiler ends: with status 0, with another one, or by a SIGKILL.
Verdict == {"ok", "failed", "timeout"}

\* What the caller has been told: nothing yet, an exception, or a verdict with
\* the amount of output.
Silence == [verdict |-> "none", heard |-> 0]
Exception == [verdict |-> "raised", heard |-> 0]
Told(v, n) == [verdict |-> v, heard |-> n]

VARIABLES fate,    \* "absent", "running", or a verdict
          said,    \* how much the compiler has printed
          report   \* what the caller has been told

attemptVars == <<fate, said, report>>

AttemptInit == fate = "absent" /\ said = 0 /\ report = Silence

Start ==
  /\ fate = "absent" /\ report = Silence
  /\ fate' = "running"
  /\ UNCHANGED <<said, report>>

Say ==
  /\ fate = "running"
  /\ said' = said + 1
  /\ UNCHANGED <<fate, report>>

End(v) ==
  /\ fate = "running"
  /\ fate' = v
  /\ UNCHANGED <<said, report>>

Report ==
  /\ fate \in Verdict /\ report = Silence
  /\ report' = Told(fate, said)
  /\ UNCHANGED <<fate, said>>

Raise ==
  /\ fate # "running" /\ report = Silence
  /\ report' = Exception
  /\ UNCHANGED <<fate, said>>

AttemptNext == Start \/ Say \/ (\E v \in Verdict : End(v)) \/ Report \/ Raise

AttemptSpec == AttemptInit /\ [][AttemptNext]_attemptVars
=============================================================================
