-------------------------- MODULE MeasurementProofs --------------------------
(***************************************************************************)
(* What a measurement returns, for every size of the pipe, every output    *)
(* and every exit status.  Two facts carry the argument: no unit of output *)
(* is lost or invented on its way from the compiler through the pipe, and  *)
(* the exit status is set once, when the process ends.                     *)
(***************************************************************************)
EXTENDS Measurement, TLAPS

\* Nothing printed is lost: what is still to print, in the pipe and read makes
\* up the whole output.
CountsKept ==
  /\ todo \in 0 .. MaxPrints /\ pipe \in 0 .. PipeCap /\ read \in 0 .. MaxPrints
  /\ world.prints \in 0 .. MaxPrints
  /\ todo + pipe + read = world.prints

\* The status tells whether and how the process ended.
StatusIsFinal ==
  /\ child \in {"none", "running"} <=> status = Unset
  /\ status \in ExitCode => todo = 0

\* The process exists once it was spawned; what is returned is its status.
ReturnsAreFinal ==
  /\ pc = "spawn" => child = "none"
  /\ pc \in {"write", "poll", "sample", "limit", "sleep", "drain", "done"} => child # "none"
  /\ pc = "raised" => child # "running" /\ dir = "caller"
  /\ pc = "done" => /\ returncode = status /\ pipe = 0 /\ child = "reaped"
                    /\ helper # "running" /\ dir = "caller"

Inv == TypeOK /\ CountsKept /\ StatusIsFinal /\ ReturnsAreFinal

\* The statuses that Python and the kernel give cannot be taken for the exit of
\* a compiler, nor for each other.
LEMMA CodesApart ==
  /\ {Unset, Sigkill, Expired} \cap ExitCode = {}
  /\ Unset # Sigkill /\ Expired # Sigkill /\ Expired # Unset
  BY MeasurementAssumption DEF Unset, Sigkill, Expired

-----------------------------------------------------------------------------
\* Output only moves from the compiler to the pipe and from there to the reader.
LEMMA CountsStep == ASSUME CountsKept, TypeOK, [Next]_vars PROVE CountsKept'
<1>1. CASE ChildPrints
  BY <1>1, MeasurementAssumption DEF ChildPrints, CountsKept, python
<1>2. CASE Drain
  BY <1>2, MeasurementAssumption DEF Drain, CountsKept
<1>3. CASE UNCHANGED <<world, todo, pipe, read>>
  BY <1>3 DEF CountsKept
<1>4. ASSUME ~ChildPrints, ~Drain PROVE UNCHANGED <<world, todo, pipe, read>>
  BY <1>4, Zenon DEF Next, Measure, Spawn, SpawnFails, WriteScript, WriteFails, Poll, Sample, SampleFails, WithinLimit,
     Sleep, SleepFails, TimeOut, Return, ChildExits, ChildKilled, HelperStarts, HelperEnds, Expire, vars, system, python
<1> QED
  BY <1>1, <1>2, <1>3, <1>4

\* A step keeps the types.
LEMMA TypeStep == ASSUME Inv, [Next]_vars PROVE TypeOK'
<1>1. /\ (todo \in 0 .. MaxPrints)' /\ (pipe \in 0 .. PipeCap)' /\ (read \in 0 .. MaxPrints)'
  BY CountsStep, Zenon DEF Inv, CountsKept
<1> USE <1>1 DEF Inv, TypeOK, python, system
<1>2. CASE Spawn
  BY <1>2, Zenon DEF Spawn, Step
<1>3. CASE SpawnFails
  BY <1>3, Zenon DEF SpawnFails, Raise, Step
<1>4. CASE WriteScript
  BY <1>4, Zenon DEF WriteScript, Step
<1>5. CASE WriteFails
  BY <1>5, Zenon DEF WriteFails, Raise, Step
<1>6. CASE Poll
  BY <1>6, Zenon DEF Poll, Reap, Step
<1>7. CASE Sample
  BY <1>7, Zenon DEF Sample, Reap, Step
<1>8. CASE SampleFails
  BY <1>8, Zenon DEF SampleFails, Step
<1>9. CASE WithinLimit \/ Sleep \/ SleepFails
  BY <1>9, Zenon DEF WithinLimit, Sleep, SleepFails, Step
<1>10. CASE TimeOut
  BY <1>10, Zenon DEF TimeOut, Ends, Reap, Step, Status, ReturnCode
<1>11. CASE Drain
  BY <1>11, Zenon DEF Drain
<1>12. CASE Return
  BY <1>12, Zenon DEF Return, Step, ReturnCode
<1>13. CASE ChildPrints
  BY <1>13, Zenon DEF ChildPrints
<1>14. CASE ChildExits \/ ChildKilled
  BY <1>14, Zenon DEF ChildExits, ChildKilled, Ends, Status
<1>15. CASE HelperStarts \/ HelperEnds \/ Expire
  BY <1>15, Zenon DEF HelperStarts, HelperEnds, Expire
<1>16. CASE UNCHANGED vars
  BY <1>16, Zenon DEF vars
<1> QED
  BY <1>2, <1>3, <1>4, <1>5, <1>6, <1>7, <1>8, <1>9, <1>10, <1>11, <1>12, <1>13, <1>14, <1>15, <1>16,
     Zenon DEF Next, Measure

\* A step that ends the process sets its status, no other changes it; and a
\* measurement is left only when the process was waited for.
LEMMA FateStep == ASSUME Inv, [Next]_vars PROVE StatusIsFinal' /\ ReturnsAreFinal'
<1> USE CodesApart DEF Inv, StatusIsFinal, ReturnsAreFinal, python, system
<1>2. CASE Spawn
  BY <1>2 DEF Spawn
<1>3. CASE SpawnFails
  BY <1>3 DEF SpawnFails, Raise
<1>4. CASE WriteScript
  BY <1>4 DEF WriteScript
<1>5. CASE WriteFails
  BY <1>5 DEF WriteFails, Raise
<1>6. CASE Poll
  BY <1>6 DEF Poll, Reap
<1>7. CASE Sample
  BY <1>7 DEF Sample, Reap
<1>8. CASE SampleFails
  BY <1>8 DEF SampleFails
<1>9. CASE WithinLimit \/ Sleep \/ SleepFails
  BY <1>9 DEF WithinLimit, Sleep, SleepFails
<1>10. CASE TimeOut
  BY <1>10 DEF TimeOut, Ends, Reap
<1>11. CASE Drain
  BY <1>11 DEF Drain
<1>12. CASE Return
  BY <1>12 DEF Return
<1>13. CASE ChildPrints \/ ChildExits \/ ChildKilled
  BY <1>13, CountsStep DEF ChildPrints, ChildExits, ChildKilled, Ends, CountsKept
<1>14. CASE HelperStarts \/ HelperEnds \/ Expire
  BY <1>14 DEF HelperStarts, HelperEnds, Expire
<1>15. CASE UNCHANGED vars
  BY <1>15 DEF vars
<1> QED
  BY <1>2, <1>3, <1>4, <1>5, <1>6, <1>7, <1>8, <1>9, <1>10, <1>11, <1>12, <1>13, <1>14, <1>15, Zenon
  DEF Next, Measure

\* The initial states.
LEMMA InitHolds == Init => Inv
<1> SUFFICES ASSUME Init PROVE Inv
  OBVIOUS
<1>1. CountsKept
  BY MeasurementAssumption DEF Init, World, CountsKept
<1>2. TypeOK
  BY <1>1, Zenon DEF Init, TypeOK, CountsKept, Step, Status, ReturnCode
<1>3. StatusIsFinal /\ ReturnsAreFinal
  BY CodesApart DEF Init, StatusIsFinal, ReturnsAreFinal
<1> QED
  BY <1>1, <1>2, <1>3 DEF Inv

\* The strengthened invariant holds in every reachable state.
THEOREM InvHolds == Spec => []Inv
<1>1. Inv /\ [Next]_vars => Inv'
  <2> SUFFICES ASSUME Inv, [Next]_vars PROVE Inv'
    OBVIOUS
  <2> QED
    BY CountsStep, TypeStep, FateStep DEF Inv
<1> QED
  BY <1>1, InitHolds, PTL DEF Spec

-----------------------------------------------------------------------------
\* Type correctness.
THEOREM TypeCorrect == Spec => []TypeOK
<1>1. Inv => TypeOK
  BY DEF Inv
<1> QED
  BY <1>1, InvHolds, PTL

\* measure_compilation reports the fate of the compiler: the timeout tag if and
\* only if a SIGKILL ended it, its own status only with all of its output.
THEOREM VerdictIsFateTheorem == Spec => []VerdictIsFate
<1>1. Inv => VerdictIsFate
  <2> SUFFICES ASSUME Inv, pc = "done"
               PROVE  /\ TimedOut(returncode) <=> status = Sigkill
                      /\ returncode \in ExitCode => returncode = status /\ read = world.prints
    BY Zenon DEF VerdictIsFate
  <2>1. returncode = status /\ pipe = 0 /\ status # Unset
    BY DEF Inv, ReturnsAreFinal, StatusIsFinal
  <2>2. status \in {Unset, Sigkill} \cup ExitCode
    BY Zenon DEF Inv, TypeOK, Status
  <2>3. status \in ExitCode => read = world.prints
    BY <2>1 DEF Inv, CountsKept, StatusIsFinal
  <2> QED
    BY <2>1, <2>2, <2>3, CodesApart, Zenon DEF TimedOut
<1> QED
  BY <1>1, InvHolds, PTL

\* A measurement leaves nothing behind: no compiler, no helper that shares its
\* output, no changed directory.
THEOREM NothingOutlivesTheorem == Spec => []NothingOutlives
<1>1. Inv => NothingOutlives
  BY DEF Inv, ReturnsAreFinal, NothingOutlives, Ended
<1> QED
  BY <1>1, InvHolds, PTL

\* The limit covers a compiler until it ends, unless sampling or sleeping has failed:
\* whatever the race between exit, kill and poll, no other path leads to communicate().
THEOREM WatchedToTheEndTheorem == Spec => []WatchedToTheEnd
<1>1. Init => WatchedToTheEnd
  BY DEF Init, WatchedToTheEnd
<1>2. Inv /\ WatchedToTheEnd /\ [Next]_vars => WatchedToTheEnd'
  <2> SUFFICES ASSUME Inv, WatchedToTheEnd, [Next]_vars, pc' = "drain", child' = "running"
               PROVE  strayed' /\ (world'.denied \/ helper' = "gone" \/ world'.rate <= 0)
    BY Zenon DEF WatchedToTheEnd
  <2>1. world' = world /\ child = "running" /\ pc \in {"drain", "sample", "sleep"}
    BY Zenon DEF Inv, ReturnsAreFinal, Next, Measure, Spawn, SpawnFails, WriteScript, WriteFails, Poll,
       Sample, SampleFails, WithinLimit, Sleep, SleepFails, TimeOut, Drain, Return, ChildPrints, ChildExits, ChildKilled,
       HelperStarts, HelperEnds, Expire, Ends, Reap, Raise, vars, system, python
  <2>2. CASE pc = "drain"
    <3>1. strayed /\ (world.denied \/ helper = "gone" \/ world.rate <= 0)
      BY <2>1, <2>2, Zenon DEF WatchedToTheEnd
    <3>2. strayed' = strayed /\ (helper = "gone" => helper' = "gone")
      BY <2>2, Zenon DEF Next, Measure, Spawn, SpawnFails, WriteScript, WriteFails, Poll,
         Sample, SampleFails, WithinLimit, Sleep, SleepFails, TimeOut, Drain, Return, ChildPrints, ChildExits, ChildKilled,
         HelperStarts, HelperEnds, Expire, vars, system, python
    <3> QED
      BY <2>1, <3>1, <3>2, Zenon
  <2>3. CASE pc = "sample"
    <3>1. SampleFails
      BY <2>1, <2>3, Zenon DEF Next, Measure, Spawn, SpawnFails, WriteScript, WriteFails, Poll,
         Sample, WithinLimit, Sleep, SleepFails, TimeOut, Drain, Return, ChildPrints, ChildExits, ChildKilled,
         HelperStarts, HelperEnds, Expire, vars, system, python
    <3> QED
      BY <3>1, Zenon DEF SampleFails, system
  <2>4. CASE pc = "sleep"
    <3>1. SleepFails
      BY <2>1, <2>4, Zenon DEF Next, Measure, Spawn, SpawnFails, WriteScript, WriteFails, Poll,
         Sample, SampleFails, WithinLimit, Sleep, TimeOut, Drain, Return, ChildPrints,
         ChildExits, ChildKilled, HelperStarts, HelperEnds, Expire, vars, system, python
    <3> QED
      BY <2>1, <3>1, Zenon DEF SleepFails
  <2> QED
    BY <2>1, <2>2, <2>3, <2>4
<1> QED
  BY <1>1, <1>2, InvHolds, PTL DEF Spec

-----------------------------------------------------------------------------
\* Before it is left, a measurement has told its caller nothing.
LEMMA Untold == pc \notin {"done", "raised"} => Account = Caller!Silence
  BY DEF Account, Caller!Silence

\* A process that was spawned runs as long as it has no status, and what it
\* ends with is a verdict.
LEMMA FateOfProcess ==
  ASSUME Inv
  PROVE  /\ Fate = "absent" <=> child = "none"
         /\ Fate = "running" <=> child = "running"
         /\ child \in {"ended", "reaped"} => Fate = VerdictOf(status)
  BY Zenon DEF Inv, TypeOK, StatusIsFinal, Fate, VerdictOf

\* The verdicts are those of the abstract measurement.
LEMMA Verdicts == \A c : VerdictOf(c) \in Caller!Verdict
  BY Zenon DEF VerdictOf, Caller!Verdict

\* Steps of the polling loop and of the helper: the caller sees nothing of them.
LEMMA UnseenStep ==
  ASSUME UNCHANGED <<world, status, todo>>,
         child' = child \/ (child = "ended" /\ child' = "reaped"),
         \/ UNCHANGED <<pc, read, returncode>>
         \/ pc \notin {"done", "raised"} /\ pc' \notin {"done", "raised"}
  PROVE  UNCHANGED Caller!attemptVars
<1>1. Fate' = Fate
  BY Zenon DEF Fate, VerdictOf, TimedOut, Unset
<1>2. Said' = Said
  BY Zenon DEF Said
<1>3. Account' = Account
  <2>1. CASE UNCHANGED <<pc, read, returncode>>
    BY <2>1, Zenon DEF Account, VerdictOf, TimedOut
  <2>2. CASE pc \notin {"done", "raised"} /\ pc' \notin {"done", "raised"}
    BY <2>2 DEF Account
  <2> QED
    BY <2>1, <2>2
<1> QED
  BY <1>1, <1>2, <1>3 DEF Caller!attemptVars

\* The end of the process, of its own accord or by a signal.
LEMMA EndStep ==
  ASSUME Inv, child = "running", \E s \in Status \ {Unset} : Ends(s), pc' \notin {"done", "raised"},
         pc \notin {"done", "raised"} \/ UNCHANGED <<pc, read, returncode>>,
         UNCHANGED <<world, todo>>
  PROVE  \E v \in Caller!Verdict : Caller!End(v)
<1>1. PICK s \in Status \ {Unset} : Ends(s)
  OBVIOUS
<1>2. Fate = "running"
  BY FateOfProcess
<1>3. Fate' = VerdictOf(s)
  BY <1>1, Zenon DEF Ends, Fate, VerdictOf, TimedOut
<1>4. Said' = Said
  BY Zenon DEF Said
<1>5. Account' = Account
  BY DEF Account
<1> QED
  BY <1>2, <1>3, <1>4, <1>5, Verdicts, Zenon DEF Caller!End

\* What is returned was read to the end: it is all that the compiler printed.
LEMMA ReturnStep == ASSUME Inv, Return PROVE Caller!Report
<1> USE DEF Return
<1>1. pc = "drain" /\ pc' = "done" /\ returncode' = status /\ UNCHANGED <<world, todo, status, read>>
  OBVIOUS
<1>2. child \in {"ended", "reaped"} /\ child' = "reaped" /\ status # Unset
  BY Zenon DEF Inv, TypeOK, ReturnsAreFinal, StatusIsFinal
<1>3. Fate = VerdictOf(status) /\ Fate' = Fate
  <2>1. Fate = VerdictOf(status)
    BY <1>2, FateOfProcess
  <2>2. Fate' = VerdictOf(status)
    BY <1>1, <1>2, Zenon DEF Fate, VerdictOf, TimedOut
  <2> QED
    BY <2>1, <2>2
<1>4. Said' = Said /\ read = Said
  BY <1>1 DEF Inv, CountsKept, Said
<1>5. Account = Caller!Silence
  BY <1>1, Untold
<1>6. Account' = Caller!Told(Fate, Said)
  <2>1. VerdictOf(returncode)' = VerdictOf(status)
    BY <1>1, Zenon DEF VerdictOf, TimedOut
  <2> QED
    BY <1>1, <1>3, <1>4, <2>1 DEF Account, Caller!Told
<1> QED
  BY <1>3, <1>4, <1>5, <1>6, Verdicts DEF Caller!Report

\* An exception leaves the caller without an answer, and no compiler running.
LEMMA RaiseStep == ASSUME Inv, SpawnFails \/ WriteFails PROVE Caller!Raise
<1>1. /\ pc \in {"spawn", "write"} /\ pc' = "raised" /\ child # "running"
      /\ UNCHANGED <<world, child, status, todo>>
  BY DEF SpawnFails, WriteFails, Raise, system, Inv, ReturnsAreFinal
<1>2. Fate # "running"
  BY <1>1, FateOfProcess
<1>3. Fate' = Fate /\ Said' = Said
  BY <1>1, Zenon DEF Fate, Said, VerdictOf, TimedOut
<1>4. Account = Caller!Silence /\ Account' = Caller!Exception
  BY <1>1 DEF Account, Caller!Silence, Caller!Exception
<1> QED
  BY <1>2, <1>3, <1>4 DEF Caller!Raise

\* Spawning starts the compiler.
LEMMA SpawnStep == ASSUME Inv, Spawn PROVE Caller!Start
<1>1. /\ pc = "spawn" /\ pc' \in {"write", "poll"} /\ child = "none" /\ child' = "running"
      /\ UNCHANGED <<world, status, todo>> /\ status = Unset
  BY DEF Spawn, Inv, ReturnsAreFinal, StatusIsFinal
<1>2. Fate = "absent" /\ Fate' = "running" /\ Said' = Said
  BY <1>1, Zenon DEF Fate, Said
<1>3. Account = Caller!Silence /\ Account' = Account
  BY <1>1 DEF Account, Caller!Silence
<1> QED
  BY <1>2, <1>3 DEF Caller!Start

\* What goes into the pipe was printed.
LEMMA PrintStep == ASSUME Inv, ChildPrints PROVE Caller!Say
<1>1. Fate = "running"
  BY FateOfProcess DEF ChildPrints
<1>2. Fate' = Fate
  BY Zenon DEF ChildPrints, Fate, VerdictOf, TimedOut
<1>3. Said' = Said + 1
  BY DEF ChildPrints, Said, Inv, CountsKept
<1>4. Account' = Account
  BY Zenon DEF ChildPrints, python, Account, VerdictOf, TimedOut
<1> QED
  BY <1>1, <1>2, <1>3, <1>4 DEF Caller!Say

\* Every step of a measurement is one of the abstract attempt, or unseen.
LEMMA AttemptStep ==
  ASSUME Inv, [Next]_vars
  PROVE  [Caller!AttemptNext]_(Caller!attemptVars)
<1> USE DEF python, system
<1>1. CASE Spawn
  BY <1>1, SpawnStep DEF Caller!AttemptNext
<1>2. CASE SpawnFails \/ WriteFails
  BY <1>2, RaiseStep DEF Caller!AttemptNext
<1>3. CASE Return
  BY <1>3, ReturnStep DEF Caller!AttemptNext
<1>4. CASE ChildPrints
  BY <1>4, PrintStep DEF Caller!AttemptNext
<1>5. CASE ChildExits \/ ChildKilled
  <2>1. child = "running" /\ \E s \in Status \ {Unset} : Ends(s)
    BY <1>5, CodesApart DEF ChildExits, ChildKilled, Status
  <2>2. UNCHANGED <<world, todo, pc, read, returncode>>
    BY <1>5 DEF ChildExits, ChildKilled
  <2>3. pc \notin {"done", "raised"}
    BY <2>1 DEF Inv, ReturnsAreFinal
  <2> QED
    BY <2>1, <2>2, <2>3, EndStep DEF Caller!AttemptNext
<1>6. CASE TimeOut /\ child = "running"
  <2>1. Ends(Sigkill) /\ Sigkill \in Status \ {Unset}
    BY <1>6, CodesApart DEF TimeOut, Status
  <2>2. pc = "limit" /\ pc' = "drain" /\ UNCHANGED <<world, todo>>
    BY <1>6 DEF TimeOut
  <2> QED
    BY <1>6, <2>1, <2>2, EndStep DEF Caller!AttemptNext
<1>7. CASE TimeOut /\ child # "running"
  <2>1. UNCHANGED <<world, status, todo>> /\ pc = "limit" /\ pc' = "drain"
    BY <1>7 DEF TimeOut
  <2>2. child' = child \/ (child = "ended" /\ child' = "reaped")
    BY <1>7 DEF TimeOut, Reap
  <2> QED
    BY <2>1, <2>2, UnseenStep
<1>8. CASE WriteScript \/ SampleFails \/ WithinLimit \/ Sleep \/ SleepFails \/ Drain
  BY <1>8, UnseenStep DEF WriteScript, SampleFails, WithinLimit, Sleep, SleepFails, Drain
<1>9. CASE Poll \/ Sample
  <2>1. UNCHANGED <<world, status, todo>> /\ pc \in {"poll", "sample"} /\ pc' \notin {"done", "raised"}
    BY <1>9 DEF Poll, Sample
  <2>2. child' = child \/ (child = "ended" /\ child' = "reaped")
    BY <1>9 DEF Poll, Sample, Reap
  <2> QED
    BY <2>1, <2>2, UnseenStep
<1>10. CASE HelperStarts \/ HelperEnds \/ Expire \/ UNCHANGED vars
  BY <1>10, UnseenStep DEF HelperStarts, HelperEnds, Expire, vars
<1> QED
  BY <1>1, <1>2, <1>3, <1>4, <1>5, <1>6, <1>7, <1>8, <1>9, <1>10, Zenon DEF Next, Measure

\* measure_compilation implements the abstract measurement: for every compiler,
\* pipe and helper, and whatever races with the limit, its caller is told once,
\* after the end of the compiler, how it ended and all that it printed, or gets
\* an exception while no compiler runs.
THEOREM AttemptRefinement == Spec => AttemptSpec
<1>1. Init => Caller!AttemptInit
  <2> SUFFICES ASSUME Init PROVE Caller!AttemptInit
    OBVIOUS
  <2>1. Fate = "absent"
    BY DEF Init, Fate
  <2>2. Said = 0
    BY MeasurementAssumption DEF Init, Said, World
  <2>3. Account = Caller!Silence
    BY Untold DEF Init
  <2> QED
    BY <2>1, <2>2, <2>3 DEF Caller!AttemptInit
<1>2. Inv /\ [Next]_vars => [Caller!AttemptNext]_(Caller!attemptVars)
  BY AttemptStep
<1> QED
  BY <1>1, <1>2, InvHolds, PTL DEF Spec, AttemptSpec, Caller!AttemptSpec
=============================================================================
