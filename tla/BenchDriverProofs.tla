------------------------- MODULE BenchDriverProofs --------------------------
(***************************************************************************)
(* Theorems about the benchmark driver, for every task list, pool size,    *)
(* number of CPUs, of worker deaths and of interrupts.                     *)
(***************************************************************************)
EXTENDS BenchDriverProps, FiniteSetTheorems, TLAPS

\* A worker holds a task exactly while it is between taking it and sending
\* its result.
HoldsWhenBusy == \A p \in Pid : wtask[p] # NoTask <=> wst[p] \in Holding

\* The processes that exist are those spawned so far, none before the pool.
SpawnedExist ==
  /\ main = "setup" => spawned = 0
  /\ \A p \in Pid : wst[p] = "absent" <=> p > spawned

TypeInv == TypeOK /\ HoldsWhenBusy /\ SpawnedExist

LEMMA ModRange ==
  ASSUME NEW a \in Nat, NEW b \in Nat, b > 0
  PROVE  a % b \in 0 .. b
  BY SMT

\* How the steps around the locks move a worker.
LockMove == {<<"idle", "waiting">>, <<"compiling", "printing">>, <<"printing", "speaking">>,
             <<"speaking", "printed">>, <<"sending", "putting">>, <<"put", "idle">>}

LEMMA LockMoves ==
  ASSUME NEW p \in Pid, LockStep(p)
  PROVE  /\ \E m \in LockMove : Step(p, m[1], m[2])
         /\ UNCHANGED <<main, cause, code, shown, sigints, next, st, reports, completed, outcome,
                       wrote, table, widx, cpu, idx, wtask, spawned, deaths, active, files, root>>
<1>1. \E m \in LockMove : Step(p, m[1], m[2])
  BY DEF LockStep, LockMove, AwaitTask, WantPrint, BeginPrint, EndPrint, BeginPut, EndPut,
     Acquire, Release
<1> QED
  BY <1>1 DEF LockStep, mainVars, taskVars, fileVars

\* Every variable has its type, and exactly the busy workers hold a task.
THEOREM TypeCorrect == Spec => []TypeInv
<1> USE DriverAssumption DEF Task, NoTask, Pid, NoPid, Unpinned, WorkerState, Holding, Compiling, Lock
<1>1. Init => TypeInv
  <2> SUFFICES ASSUME Init PROVE TypeInv
    OBVIOUS
  <2>1. MainTypeOK
    <3>1. sigints \in 0 .. MaxSigints BY DEF Init
    <3>2. QED BY <3>1 DEF Init, MainTypeOK, MainState
  <2>2. TaskTypeOK BY DEF Init, TaskTypeOK, TaskState, Outcome
  <2>3. WorkerTypeOK BY DEF Init, WorkerTypeOK
  <2>4. QED BY <2>1, <2>2, <2>3 DEF Init, TypeInv, TypeOK, HoldsWhenBusy, SpawnedExist
<1>2. TypeInv /\ [Next]_vars => TypeInv'
  <2> SUFFICES ASSUME TypeInv, [Next]_vars PROVE TypeInv'
    OBVIOUS
  <2> USE DEF TypeInv, TypeOK, mainVars, taskVars, initVars, procVars, fileVars
  <2>1. ASSUME NEW p \in Pid, ReadIndex(p) PROVE TypeInv'
    <3>1. MainTypeOK' BY <2>1 DEF ReadIndex, Acquire, Step, MainTypeOK, MainState
    <3>2. TaskTypeOK' BY <2>1 DEF ReadIndex, Acquire, Step, TaskTypeOK, WorkerTypeOK, HoldsWhenBusy, TaskState, Outcome
    <3>3. WorkerTypeOK' BY <2>1 DEF ReadIndex, Acquire, Step, TaskTypeOK, WorkerTypeOK
    <3>4. (HoldsWhenBusy /\ SpawnedExist)'
      BY <2>1 DEF ReadIndex, Acquire, Step, TaskTypeOK, WorkerTypeOK, HoldsWhenBusy, SpawnedExist
    <3>5. (files \subseteq Pid \X Task /\ root \in BOOLEAN)' BY <2>1 DEF ReadIndex, Acquire, Step, WorkerTypeOK, HoldsWhenBusy
    <3>6. QED BY <3>1, <3>2, <3>3, <3>4, <3>5
  <2>2. ASSUME NEW p \in Pid, BumpIndexAndPin(p) PROVE TypeInv'
    <3>0. widx[p] % NCpus \in 0 .. NCpus
      BY ModRange DEF WorkerTypeOK
    <3>1. MainTypeOK' BY <2>2 DEF BumpIndexAndPin, Release, Step, MainTypeOK, MainState
    <3>2. TaskTypeOK' BY <2>2 DEF BumpIndexAndPin, Release, Step, TaskTypeOK, WorkerTypeOK, HoldsWhenBusy, TaskState, Outcome
    <3>3. WorkerTypeOK'
      <4>1. wst' \in [Pid -> WorkerState] /\ holder' \in [Lock -> Pid \cup {NoPid}]
        BY <2>2 DEF BumpIndexAndPin, Release, Step, WorkerTypeOK
      <4>2. cpu' \in [Pid -> 0 .. NCpus] /\ idx' \in Nat
        BY <2>2, <3>0 DEF BumpIndexAndPin, WorkerTypeOK
      <4> QED
        BY <2>2, <4>1, <4>2 DEF BumpIndexAndPin, WorkerTypeOK
    <3>4. (HoldsWhenBusy /\ SpawnedExist)'
      BY <2>2 DEF BumpIndexAndPin, Release, Step, TaskTypeOK, WorkerTypeOK, HoldsWhenBusy, SpawnedExist
    <3>5. (files \subseteq Pid \X Task /\ root \in BOOLEAN)' BY <2>2 DEF BumpIndexAndPin, Release, Step, WorkerTypeOK, HoldsWhenBusy
    <3>6. QED BY <3>1, <3>2, <3>3, <3>4, <3>5
  <2>3. ASSUME NEW p \in Pid, TakeTask(p) PROVE TypeInv'
    <3>1. MainTypeOK' BY <2>3 DEF TakeTask, Step, MainTypeOK, MainState
    <3>2. TaskTypeOK' BY <2>3 DEF TakeTask, Step, TaskTypeOK, WorkerTypeOK, HoldsWhenBusy, TaskState, Outcome
    <3>3. WorkerTypeOK'
      <4>1. wst' \in [Pid -> WorkerState] /\ wtask' \in [Pid -> Task \cup {NoTask}]
        BY <2>3 DEF TakeTask, Step, TaskTypeOK, WorkerTypeOK
      <4> QED
        BY <2>3, <4>1 DEF TakeTask, WorkerTypeOK
    <3>4. (HoldsWhenBusy /\ SpawnedExist)'
      BY <2>3 DEF TakeTask, Step, TaskTypeOK, WorkerTypeOK, HoldsWhenBusy, SpawnedExist
    <3>5. (files \subseteq Pid \X Task /\ root \in BOOLEAN)' BY <2>3 DEF TakeTask, Step, WorkerTypeOK, HoldsWhenBusy
    <3>6. QED BY <3>1, <3>2, <3>3, <3>4, <3>5
  <2>4. ASSUME NEW p \in Pid, Announce(p) PROVE TypeInv'
    <3>1. MainTypeOK' BY <2>4 DEF Announce, Release, Step, MainTypeOK, MainState
    <3>2. TaskTypeOK' BY <2>4 DEF Announce, Release, Step, TaskTypeOK, WorkerTypeOK, HoldsWhenBusy, TaskState, Outcome
    <3>3. WorkerTypeOK' BY <2>4 DEF Announce, Release, Step, TaskTypeOK, WorkerTypeOK
    <3>4. (HoldsWhenBusy /\ SpawnedExist)'
      BY <2>4 DEF Announce, Release, Step, TaskTypeOK, WorkerTypeOK, HoldsWhenBusy, SpawnedExist
    <3>5. (files \subseteq Pid \X Task /\ root \in BOOLEAN)' BY <2>4 DEF Announce, Release, Step, WorkerTypeOK, HoldsWhenBusy
    <3>6. QED BY <3>1, <3>2, <3>3, <3>4, <3>5
  <2>5. ASSUME NEW p \in Pid, GenerateProgram(p) PROVE TypeInv'
    <3>1. MainTypeOK' BY <2>5 DEF GenerateProgram, Step, MainTypeOK, MainState
    <3>2. TaskTypeOK' BY <2>5 DEF GenerateProgram, Step, TaskTypeOK, WorkerTypeOK, HoldsWhenBusy, TaskState, Outcome
    <3>3. WorkerTypeOK' BY <2>5 DEF GenerateProgram, Step, TaskTypeOK, WorkerTypeOK
    <3>4. (HoldsWhenBusy /\ SpawnedExist)'
      BY <2>5 DEF GenerateProgram, Step, TaskTypeOK, WorkerTypeOK, HoldsWhenBusy, SpawnedExist
    <3>5. (files \subseteq Pid \X Task /\ root \in BOOLEAN)' BY <2>5 DEF GenerateProgram, Step, WorkerTypeOK, HoldsWhenBusy
    <3>6. QED BY <3>1, <3>2, <3>3, <3>4, <3>5
  <2>6. ASSUME NEW p \in Pid, EndTask(p) PROVE TypeInv'
    <3>1. MainTypeOK' BY <2>6 DEF EndTask, Ending, Outcome, Error, MainTypeOK, MainState
    <3>2. TaskTypeOK'
      <4>1. wtask[p] \in Task
        BY <2>6 DEF EndTask, WorkerTypeOK, HoldsWhenBusy
      <4>2. PICK e \in Ending(p, wtask[p]) :
              /\ outcome' = [outcome EXCEPT ![wtask[p]] = e[1]]
              /\ wrote' = [wrote EXCEPT ![wtask[p]] = e[2]]
        BY <2>6 DEF EndTask
      <4>3. e[1] \in Outcome /\ e[2] \in SUBSET Cell
        BY <4>1, <4>2 DEF Ending, Outcome, Error
      <4>4. outcome' \in [Task -> Outcome \cup {"pending"}] /\ wrote' \in [Task -> SUBSET Cell]
        BY <4>2, <4>3 DEF TaskTypeOK
      <4> QED
        BY <2>6, <4>4 DEF EndTask, TaskTypeOK
    <3>3. WorkerTypeOK' BY <2>6 DEF EndTask, Ending, Outcome, Error, TaskTypeOK, WorkerTypeOK
    <3>4. (HoldsWhenBusy /\ SpawnedExist)'
      BY <2>6 DEF EndTask, Ending, Outcome, Error, TaskTypeOK, WorkerTypeOK, HoldsWhenBusy, SpawnedExist
    <3>5. (files \subseteq Pid \X Task /\ root \in BOOLEAN)' BY <2>6 DEF EndTask, Ending, Outcome, Error, WorkerTypeOK, HoldsWhenBusy
    <3>6. QED BY <3>1, <3>2, <3>3, <3>4, <3>5
  <2>7. ASSUME NEW p \in Pid, SweepScratch(p) PROVE TypeInv'
    <3>1. MainTypeOK' BY <2>7 DEF SweepScratch, Step, MainTypeOK, MainState
    <3>2. TaskTypeOK' BY <2>7 DEF SweepScratch, Step, TaskTypeOK, WorkerTypeOK, HoldsWhenBusy, TaskState, Outcome
    <3>3. WorkerTypeOK' BY <2>7 DEF SweepScratch, Step, TaskTypeOK, WorkerTypeOK
    <3>4. (HoldsWhenBusy /\ SpawnedExist)'
      BY <2>7 DEF SweepScratch, Step, TaskTypeOK, WorkerTypeOK, HoldsWhenBusy, SpawnedExist
    <3>5. (files \subseteq Pid \X Task /\ root \in BOOLEAN)' BY <2>7 DEF SweepScratch, Step, WorkerTypeOK, HoldsWhenBusy
    <3>6. QED BY <3>1, <3>2, <3>3, <3>4, <3>5
  <2>8. ASSUME NEW p \in Pid, SendResult(p) PROVE TypeInv'
    <3>1. MainTypeOK' BY <2>8 DEF SendResult, Step, MainTypeOK, MainState
    <3>2. TaskTypeOK' BY <2>8 DEF SendResult, Step, TaskTypeOK, WorkerTypeOK, HoldsWhenBusy, TaskState, Outcome
    <3>3. WorkerTypeOK' BY <2>8 DEF SendResult, Step, TaskTypeOK, WorkerTypeOK
    <3>4. (HoldsWhenBusy /\ SpawnedExist)'
      BY <2>8 DEF SendResult, Step, TaskTypeOK, WorkerTypeOK, HoldsWhenBusy, SpawnedExist
    <3>5. (files \subseteq Pid \X Task /\ root \in BOOLEAN)' BY <2>8 DEF SendResult, Step, WorkerTypeOK, HoldsWhenBusy
    <3>6. QED BY <3>1, <3>2, <3>3, <3>4, <3>5
  <2>9. CASE StartPool
    <3>1. MainTypeOK' BY <2>9 DEF StartPool, Goto, MainTypeOK, MainState
    <3>2. TaskTypeOK' BY <2>9 DEF StartPool, Goto, TaskTypeOK, WorkerTypeOK, HoldsWhenBusy, TaskState, Outcome
    <3>3. WorkerTypeOK' BY <2>9 DEF StartPool, Goto, TaskTypeOK, WorkerTypeOK
    <3>4. (HoldsWhenBusy /\ SpawnedExist)'
      <4>0. \A p \in Pid : wst[p] = "absent"
        BY <2>9 DEF StartPool, Goto, SpawnedExist
      <4>1. \A p \in Pid : wtask[p] = NoTask
        BY <4>0 DEF HoldsWhenBusy
      <4>2. \A p \in Pid : wst'[p] = IF p <= NWorkers THEN "start" ELSE "absent"
        BY <2>9 DEF StartPool
      <4>3. main' = "pool" /\ wtask' = wtask /\ spawned' = NWorkers
        BY <2>9 DEF StartPool, Goto
      <4>4. QED BY <4>1, <4>2, <4>3 DEF HoldsWhenBusy, SpawnedExist
    <3>5. (files \subseteq Pid \X Task /\ root \in BOOLEAN)' BY <2>9 DEF StartPool, Goto, WorkerTypeOK, HoldsWhenBusy
    <3>6. QED BY <3>1, <3>2, <3>3, <3>4, <3>5
  <2>10. CASE ConsumeResult
    <3>1. MainTypeOK' BY <2>10 DEF ConsumeResult, MergeResults, MainTypeOK, MainState
    <3>2. TaskTypeOK' BY <2>10 DEF ConsumeResult, MergeResults, TaskTypeOK, WorkerTypeOK, HoldsWhenBusy, TaskState, Outcome
    <3>3. WorkerTypeOK' BY <2>10 DEF ConsumeResult, MergeResults, TaskTypeOK, WorkerTypeOK
    <3>4. (HoldsWhenBusy /\ SpawnedExist)'
      BY <2>10 DEF ConsumeResult, MergeResults, TaskTypeOK, WorkerTypeOK, HoldsWhenBusy, SpawnedExist
    <3>5. (files \subseteq Pid \X Task /\ root \in BOOLEAN)' BY <2>10 DEF ConsumeResult, MergeResults, WorkerTypeOK, HoldsWhenBusy
    <3>6. QED BY <3>1, <3>2, <3>3, <3>4, <3>5
  <2>11. CASE ConsumeError
    <3>1. MainTypeOK' BY <2>11 DEF ConsumeError, Error, Goto, MainTypeOK, MainState
    <3>2. TaskTypeOK' BY <2>11 DEF ConsumeError, Error, Goto, TaskTypeOK, WorkerTypeOK, HoldsWhenBusy, TaskState, Outcome
    <3>3. WorkerTypeOK' BY <2>11 DEF ConsumeError, Error, Goto, TaskTypeOK, WorkerTypeOK
    <3>4. (HoldsWhenBusy /\ SpawnedExist)'
      BY <2>11 DEF ConsumeError, Error, Goto, TaskTypeOK, WorkerTypeOK, HoldsWhenBusy, SpawnedExist
    <3>5. (files \subseteq Pid \X Task /\ root \in BOOLEAN)' BY <2>11 DEF ConsumeError, Error, Goto, WorkerTypeOK, HoldsWhenBusy
    <3>6. QED BY <3>1, <3>2, <3>3, <3>4, <3>5
  <2>12. CASE EndLoop
    <3>1. MainTypeOK' BY <2>12 DEF EndLoop, Goto, MainTypeOK, MainState
    <3>2. TaskTypeOK' BY <2>12 DEF EndLoop, Goto, TaskTypeOK, WorkerTypeOK, HoldsWhenBusy, TaskState, Outcome
    <3>3. WorkerTypeOK' BY <2>12 DEF EndLoop, Goto, TaskTypeOK, WorkerTypeOK
    <3>4. (HoldsWhenBusy /\ SpawnedExist)'
      BY <2>12 DEF EndLoop, Goto, TaskTypeOK, WorkerTypeOK, HoldsWhenBusy, SpawnedExist
    <3>5. (files \subseteq Pid \X Task /\ root \in BOOLEAN)' BY <2>12 DEF EndLoop, Goto, WorkerTypeOK, HoldsWhenBusy
    <3>6. QED BY <3>1, <3>2, <3>3, <3>4, <3>5
  <2>13. CASE TerminatePool
    <3>1. MainTypeOK' BY <2>13 DEF TerminatePool, KillWorkers, Goto, MainTypeOK, MainState
    <3>2. TaskTypeOK' BY <2>13 DEF TerminatePool, KillWorkers, Goto, TaskTypeOK, WorkerTypeOK, HoldsWhenBusy, TaskState, Outcome
    <3>3. WorkerTypeOK' BY <2>13 DEF TerminatePool, KillWorkers, Goto, TaskTypeOK, WorkerTypeOK
    <3>4. (HoldsWhenBusy /\ SpawnedExist)'
      BY <2>13 DEF TerminatePool, KillWorkers, Goto, TaskTypeOK, WorkerTypeOK, HoldsWhenBusy, SpawnedExist
    <3>5. (files \subseteq Pid \X Task /\ root \in BOOLEAN)' BY <2>13 DEF TerminatePool, KillWorkers, Goto, WorkerTypeOK, HoldsWhenBusy
    <3>6. QED BY <3>1, <3>2, <3>3, <3>4, <3>5
  <2>14. CASE HandleInterrupt
    <3>1. MainTypeOK' BY <2>14 DEF HandleInterrupt, Goto, MainTypeOK, MainState
    <3>2. TaskTypeOK' BY <2>14 DEF HandleInterrupt, Goto, TaskTypeOK, WorkerTypeOK, HoldsWhenBusy, TaskState, Outcome
    <3>3. WorkerTypeOK' BY <2>14 DEF HandleInterrupt, Goto, TaskTypeOK, WorkerTypeOK
    <3>4. (HoldsWhenBusy /\ SpawnedExist)'
      BY <2>14 DEF HandleInterrupt, Goto, TaskTypeOK, WorkerTypeOK, HoldsWhenBusy, SpawnedExist
    <3>5. (files \subseteq Pid \X Task /\ root \in BOOLEAN)' BY <2>14 DEF HandleInterrupt, Goto, WorkerTypeOK, HoldsWhenBusy
    <3>6. QED BY <3>1, <3>2, <3>3, <3>4, <3>5
  <2>15. CASE Cleanup
    <3>1. MainTypeOK' BY <2>15 DEF Cleanup, CleanupEmptyDirs, Goto, MainTypeOK, MainState
    <3>2. TaskTypeOK' BY <2>15 DEF Cleanup, CleanupEmptyDirs, Goto, TaskTypeOK, WorkerTypeOK, HoldsWhenBusy, TaskState, Outcome
    <3>3. WorkerTypeOK' BY <2>15 DEF Cleanup, CleanupEmptyDirs, Goto, TaskTypeOK, WorkerTypeOK
    <3>4. (HoldsWhenBusy /\ SpawnedExist)'
      BY <2>15 DEF Cleanup, CleanupEmptyDirs, Goto, TaskTypeOK, WorkerTypeOK, HoldsWhenBusy, SpawnedExist
    <3>5. (files \subseteq Pid \X Task /\ root \in BOOLEAN)' BY <2>15 DEF Cleanup, CleanupEmptyDirs, Goto, WorkerTypeOK, HoldsWhenBusy
    <3>6. QED BY <3>1, <3>2, <3>3, <3>4, <3>5
  <2>16. CASE PrintTable
    <3>1. MainTypeOK' BY <2>16 DEF PrintTable, Goto, MainTypeOK, MainState
    <3>2. TaskTypeOK' BY <2>16 DEF PrintTable, Goto, TaskTypeOK, WorkerTypeOK, HoldsWhenBusy, TaskState, Outcome
    <3>3. WorkerTypeOK' BY <2>16 DEF PrintTable, Goto, TaskTypeOK, WorkerTypeOK
    <3>4. (HoldsWhenBusy /\ SpawnedExist)'
      BY <2>16 DEF PrintTable, Goto, TaskTypeOK, WorkerTypeOK, HoldsWhenBusy, SpawnedExist
    <3>5. (files \subseteq Pid \X Task /\ root \in BOOLEAN)' BY <2>16 DEF PrintTable, Goto, WorkerTypeOK, HoldsWhenBusy
    <3>6. QED BY <3>1, <3>2, <3>3, <3>4, <3>5
  <2>17. CASE AtExit
    <3>1. MainTypeOK' BY <2>17 DEF AtExit, CleanupEmptyDirs, KillWorkers, Goto, MainTypeOK, MainState
    <3>2. TaskTypeOK' BY <2>17 DEF AtExit, CleanupEmptyDirs, KillWorkers, Goto, TaskTypeOK, WorkerTypeOK, HoldsWhenBusy, TaskState, Outcome
    <3>3. WorkerTypeOK' BY <2>17 DEF AtExit, CleanupEmptyDirs, KillWorkers, Goto, TaskTypeOK, WorkerTypeOK
    <3>4. (HoldsWhenBusy /\ SpawnedExist)'
      BY <2>17 DEF AtExit, CleanupEmptyDirs, KillWorkers, Goto, TaskTypeOK, WorkerTypeOK, HoldsWhenBusy, SpawnedExist
    <3>5. (files \subseteq Pid \X Task /\ root \in BOOLEAN)' BY <2>17 DEF AtExit, CleanupEmptyDirs, KillWorkers, Goto, WorkerTypeOK, HoldsWhenBusy
    <3>6. QED BY <3>1, <3>2, <3>3, <3>4, <3>5
  <2>18. ASSUME NEW p \in Pid, WorkerDies(p) PROVE TypeInv'
    <3>1. MainTypeOK' BY <2>18 DEF WorkerDies, MainTypeOK, MainState
    <3>2. TaskTypeOK' BY <2>18 DEF WorkerDies, TaskTypeOK, WorkerTypeOK, HoldsWhenBusy, TaskState, Outcome
    <3>3. WorkerTypeOK'
      <4>1. deaths' \in 0 .. MaxDeaths
        BY <2>18, DriverAssumption DEF WorkerDies, WorkerTypeOK
      <4>2. wst' \in [Pid -> WorkerState]
        BY <2>18 DEF WorkerDies, WorkerTypeOK, WorkerState
      <4>3. wtask' \in [Pid -> Task \cup {NoTask}]
        BY <2>18 DEF WorkerDies, WorkerTypeOK
      <4>4. UNCHANGED <<widx, cpu, idx, holder, spawned, active>>
        BY <2>18 DEF WorkerDies
      <4>5. QED BY <4>1, <4>2, <4>3, <4>4 DEF WorkerTypeOK
    <3>4. (HoldsWhenBusy /\ SpawnedExist)'
      BY <2>18 DEF WorkerDies, TaskTypeOK, WorkerTypeOK, HoldsWhenBusy, SpawnedExist
    <3>5. (files \subseteq Pid \X Task /\ root \in BOOLEAN)' BY <2>18 DEF WorkerDies, WorkerTypeOK, HoldsWhenBusy
    <3>6. QED BY <3>1, <3>2, <3>3, <3>4, <3>5
  <2>19. CASE RespawnWorker
    <3>1. MainTypeOK' BY <2>19 DEF RespawnWorker, MainTypeOK, MainState
    <3>2. TaskTypeOK' BY <2>19 DEF RespawnWorker, TaskTypeOK, WorkerTypeOK, HoldsWhenBusy, TaskState, Outcome
    <3>3. WorkerTypeOK' BY <2>19 DEF RespawnWorker, TaskTypeOK, WorkerTypeOK
    <3>4. (HoldsWhenBusy /\ SpawnedExist)'
      BY <2>19 DEF RespawnWorker, TaskTypeOK, WorkerTypeOK, HoldsWhenBusy, SpawnedExist
    <3>5. (files \subseteq Pid \X Task /\ root \in BOOLEAN)' BY <2>19 DEF RespawnWorker, WorkerTypeOK, HoldsWhenBusy
    <3>6. QED BY <3>1, <3>2, <3>3, <3>4, <3>5
  <2>20. CASE CtrlC
    <3>1. MainTypeOK'
      <4>1. sigints' \in 0 .. MaxSigints
        BY <2>20 DEF CtrlC, MainTypeOK
      <4>2. shown' \in BOOLEAN
        BY <2>20 DEF CtrlC, InterruptIn, SwallowedIn, MainTypeOK
      <4>3. main' \in MainState
        BY <2>20 DEF CtrlC, InterruptIn, SwallowedIn, MainTypeOK, MainState
      <4>4. cause' \in {"none", "caught", "raised", "sigint"}
        BY <2>20 DEF CtrlC, InterruptIn, SwallowedIn, MainTypeOK
      <4>5. code' \in {"none", "ok", "130", "traceback"}
        BY <2>20 DEF CtrlC, InterruptIn, SwallowedIn, MainTypeOK
      <4> QED
        BY <4>1, <4>2, <4>3, <4>4, <4>5 DEF MainTypeOK
    <3>2. TaskTypeOK' BY <2>20 DEF CtrlC, InterruptIn, SwallowedIn, TaskTypeOK, WorkerTypeOK, HoldsWhenBusy, TaskState, Outcome
    <3>3. WorkerTypeOK' BY <2>20 DEF CtrlC, InterruptIn, SwallowedIn, TaskTypeOK, WorkerTypeOK
    <3>4. (HoldsWhenBusy /\ SpawnedExist)'
      BY <2>20 DEF CtrlC, InterruptIn, SwallowedIn, TaskTypeOK, WorkerTypeOK, HoldsWhenBusy, SpawnedExist
    <3>5. (files \subseteq Pid \X Task /\ root \in BOOLEAN)' BY <2>20 DEF CtrlC, InterruptIn, SwallowedIn, WorkerTypeOK, HoldsWhenBusy
    <3>6. QED BY <3>1, <3>2, <3>3, <3>4, <3>5
  <2>21. CASE ClearStatus
    <3>1. MainTypeOK' BY <2>21 DEF ClearStatus, Goto, MainTypeOK, MainState
    <3>2. TaskTypeOK' BY <2>21 DEF ClearStatus, Goto, TaskTypeOK, TaskState, Outcome
    <3>3. WorkerTypeOK' BY <2>21 DEF ClearStatus, Goto, WorkerTypeOK
    <3>4. (HoldsWhenBusy /\ SpawnedExist)'
      BY <2>21 DEF ClearStatus, Goto, HoldsWhenBusy, SpawnedExist
    <3>5. (files \subseteq Pid \X Task /\ root \in BOOLEAN)' BY <2>21 DEF ClearStatus, Goto
    <3>6. QED BY <3>1, <3>2, <3>3, <3>4, <3>5
  <2>22. ASSUME NEW p \in Pid, LockStep(p) PROVE TypeInv'
    <3>0. PICK m \in LockMove : Step(p, m[1], m[2])
      BY <2>22, LockMoves
    <3>00. /\ m[1] \in WorkerState /\ m[2] \in WorkerState /\ m[1] # "absent" /\ m[2] # "absent"
           /\ m[1] \in Holding <=> m[2] \in Holding
      BY DEF LockMove
    <3>01. holder' \in [Lock -> Pid \cup {NoPid}]
      BY <2>22 DEF LockStep, AwaitTask, WantPrint, BeginPrint, EndPrint, BeginPut, EndPut, Acquire,
         Release, WorkerTypeOK
    <3>1. MainTypeOK' BY <2>22 DEF LockStep, MainTypeOK
    <3>2. TaskTypeOK' BY <2>22 DEF LockStep, TaskTypeOK
    <3>3. WorkerTypeOK'
      <4>1. wst' \in [Pid -> WorkerState]
        BY <3>0, <3>00 DEF Step, WorkerTypeOK
      <4> QED
        BY <2>22, <3>01, <4>1 DEF LockStep, WorkerTypeOK
    <3>4. HoldsWhenBusy' /\ SpawnedExist'
      <4>1. wtask' = wtask /\ spawned' = spawned /\ main' = main
        BY <2>22 DEF LockStep
      <4>2. wst[p] = m[1] /\ wst' = [wst EXCEPT ![p] = m[2]]
        BY <3>0 DEF Step
      <4>3. HoldsWhenBusy'
        BY <3>00, <4>1, <4>2 DEF HoldsWhenBusy, WorkerTypeOK
      <4>4. SpawnedExist'
        BY <3>00, <4>1, <4>2 DEF SpawnedExist, WorkerTypeOK
      <4> QED
        BY <4>3, <4>4
    <3>5. (files \subseteq Pid \X Task /\ root \in BOOLEAN)' BY <2>22 DEF LockStep
    <3>6. QED BY <3>1, <3>2, <3>3, <3>4, <3>5
  <2>23. CASE UNCHANGED vars
    BY <2>23 DEF vars, MainTypeOK, TaskTypeOK, WorkerTypeOK, HoldsWhenBusy,
       SpawnedExist
  <2>24. QED
    BY <2>1, <2>2, <2>3, <2>4, <2>5, <2>6, <2>7, <2>8, <2>9, <2>10, <2>11, <2>12, <2>13, <2>14, <2>15, <2>16, <2>17, <2>18, <2>19, <2>20, <2>21, <2>22,
       <2>23
       DEF Next, Main, Work
<1>3. QED BY <1>1, <1>2, PTL DEF Spec

\* Every variable of the driver has its type.
THEOREM DriverTypes == Spec => []TypeOK
<1>1. TypeInv => TypeOK
  BY DEF TypeInv
<1>2. QED BY <1>1, TypeCorrect, PTL

-----------------------------------------------------------------------------
(***************************************************************************)
(* Custody: at every moment a task is in exactly one place.                *)
(***************************************************************************)
HeldByOne ==
  /\ \A p, q \in Pid : p # q /\ wtask[p] # NoTask => wtask[p] # wtask[q]
  /\ \A p \in Pid : wtask[p] # NoTask => st[wtask[p]] = "held"

SentOnce ==
  /\ \A i \in 1 .. Len(reports) : st[reports[i]] = "sent"
  /\ \A i, j \in 1 .. Len(reports) : i # j => reports[i] # reports[j]

QueuedFromNext == \A t \in Task : st[t] = "queued" <=> t >= next

Custody == HeldByOne /\ SentOnce /\ QueuedFromNext

custodyVars == <<next, st, reports, wtask>>

\* The steps that move a task.
LEMMA CustodySteps ==
  ASSUME [Next]_vars
  PROVE  \/ \E p \in Pid : TakeTask(p) \/ SendResult(p) \/ WorkerDies(p)
         \/ ConsumeResult \/ ConsumeError \/ TerminatePool \/ AtExit
         \/ UNCHANGED custodyVars
  BY DEF Next, Main, Work, vars, mainVars, taskVars, initVars, procVars, custodyVars,
     ReadIndex, BumpIndexAndPin, LockStep, Announce, GenerateProgram, EndTask, SweepScratch,
     StartPool, EndLoop, HandleInterrupt, ClearStatus, Cleanup, PrintTable, RespawnWorker, CtrlC

LEMMA CustodyInductive ==
  ASSUME TypeInv, Custody, [Next]_vars
  PROVE  Custody'
<1> USE DriverAssumption DEF TypeInv, TypeOK, TaskTypeOK, WorkerTypeOK, Task, NoTask, Pid
<1>1. ASSUME NEW p \in Pid, TakeTask(p) PROVE Custody'
  <2>1. HeldByOne'
    BY <1>1 DEF TakeTask, Step, Custody, HeldByOne, QueuedFromNext
  <2>2. SentOnce'
    <3>1. next \in Task /\ st[next] = "queued"
      BY <1>1, DriverAssumption DEF TakeTask, Custody, QueuedFromNext
    <3>2. /\ st' = [st EXCEPT ![next] = "held"]
          /\ reports' = reports
          /\ \A i \in 1 .. Len(reports) : reports[i] \in Task
      BY <1>1 DEF TakeTask
    <3>3. QED BY <3>1, <3>2 DEF Custody, SentOnce
  <2>3. QueuedFromNext'
    BY <1>1 DEF TakeTask, Custody, QueuedFromNext, TaskState
  <2>4. QED BY <2>1, <2>2, <2>3 DEF Custody
<1>2. ASSUME NEW p \in Pid, SendResult(p) PROVE Custody'
  <2>1. wtask[p] \in Task /\ st[wtask[p]] = "held"
    BY <1>2 DEF SendResult, Step, HoldsWhenBusy, Holding, Custody, HeldByOne
  <2>2. HeldByOne'
    BY <1>2, <2>1 DEF SendResult, Custody, HeldByOne
  <2>3. SentOnce'
    <3>1. /\ Len(reports') = Len(reports) + 1
          /\ reports'[Len(reports) + 1] = wtask[p]
          /\ \A i \in 1 .. Len(reports) : reports'[i] = reports[i]
      BY <1>2, <2>1 DEF SendResult
    <3>2. \A i \in 1 .. Len(reports) : reports[i] # wtask[p]
      BY <2>1 DEF Custody, SentOnce
    <3>3. \A i \in 1 .. Len(reports) : reports[i] \in Task
      OBVIOUS
    <3>4. st' = [st EXCEPT ![wtask[p]] = "sent"]
      BY <1>2 DEF SendResult
    <3>5. \A i \in 1 .. Len(reports') :
             i \in 1 .. Len(reports) \/ i = Len(reports) + 1
      <4>1. Len(reports) \in Nat
        OBVIOUS
      <4>2. QED BY <3>1, <4>1
    <3>6. \A i \in 1 .. Len(reports') : st'[reports'[i]] = "sent"
      BY <2>1, <3>1, <3>2, <3>3, <3>4, <3>5 DEF Custody, SentOnce
    <3>7. \A i, j \in 1 .. Len(reports') : i # j => reports'[i] # reports'[j]
      BY <3>1, <3>2, <3>5 DEF Custody, SentOnce
    <3>8. QED BY <3>6, <3>7 DEF SentOnce
  <2>4. QueuedFromNext'
    BY <1>2, <2>1 DEF SendResult, Custody, QueuedFromNext
  <2>5. QED BY <2>2, <2>3, <2>4 DEF Custody
<1>3. ASSUME NEW p \in Pid, WorkerDies(p) PROVE Custody'
  <2>0. /\ \A t \in Task : t = wtask[p] => st[t] = "held"
        /\ \A t \in Task : st'[t] = IF t = wtask[p] THEN "lost" ELSE st[t]
        /\ \A i \in 1 .. Len(reports) : reports[i] \in Task
        /\ next' = next /\ reports' = reports
    <3>1. \A t \in Task : t = wtask[p] => st[t] = "held"
      BY DEF Custody, HeldByOne
    <3>2. \A i \in 1 .. Len(reports) : reports[i] \in Task
      OBVIOUS
    <3>3. QED BY <1>3, <3>1, <3>2 DEF WorkerDies
  <2>1. HeldByOne'
    BY <1>3 DEF WorkerDies, Custody, HeldByOne
  <2>2. SentOnce'
    BY <2>0 DEF Custody, SentOnce
  <2>3. QueuedFromNext'
    BY <2>0 DEF Custody, QueuedFromNext
  <2>4. QED BY <2>1, <2>2, <2>3 DEF Custody
<1>4. CASE ConsumeResult \/ ConsumeError
  <2>1. /\ reports # <<>>
        /\ reports' = Tail(reports)
        /\ next' = next /\ wtask' = wtask
        /\ \E s \in {"merged", "error"} : st' = [st EXCEPT ![Head(reports)] = s]
    BY <1>4 DEF ConsumeResult, ConsumeError, procVars
  <2>2. Head(reports) = reports[1] /\ 1 \in 1 .. Len(reports) /\ reports[1] \in Task
    BY <2>1
  <2>3. st[reports[1]] = "sent"
    BY <2>2 DEF Custody, SentOnce
  <2>4. HeldByOne'
    BY <2>1, <2>2, <2>3 DEF Custody, HeldByOne
  <2>5. SentOnce'
    <3>1. /\ Len(reports') = Len(reports) - 1
          /\ \A i \in 1 .. Len(reports') : reports'[i] = reports[i + 1]
      BY <2>1
    <3>2. \A i \in 1 .. Len(reports') :
             i + 1 \in 1 .. Len(reports) /\ reports[i + 1] # reports[1]
      BY <2>2, <3>1 DEF Custody, SentOnce
    <3>3. QED BY <2>1, <2>2, <3>1, <3>2 DEF Custody, SentOnce
  <2>6. QueuedFromNext'
    BY <2>1, <2>2, <2>3 DEF Custody, QueuedFromNext
  <2>7. QED BY <2>4, <2>5, <2>6 DEF Custody
<1>5. CASE TerminatePool \/ AtExit
  <2>1. KillWorkers /\ next' = next /\ reports' = reports
    BY <1>5 DEF TerminatePool, AtExit
  <2>2. /\ wtask' = [p \in Pid |-> NoTask]
        /\ \A t \in Task : /\ st[t] = "sent" => st'[t] = "sent"
                           /\ st'[t] = "queued" <=> st[t] = "queued"
    BY <2>1 DEF KillWorkers
  <2>3. HeldByOne'
    BY <2>2 DEF HeldByOne
  <2>4. SentOnce'
    <3>1. \A i \in 1 .. Len(reports) : reports[i] \in Task
      OBVIOUS
    <3> QED
      BY <2>1, <2>2, <3>1 DEF Custody, SentOnce
  <2>5. QueuedFromNext'
    BY <2>1, <2>2 DEF Custody, QueuedFromNext
  <2> QED
    BY <2>3, <2>4, <2>5 DEF Custody
<1>6. CASE UNCHANGED custodyVars
  BY <1>6 DEF custodyVars, Custody, HeldByOne, SentOnce, QueuedFromNext
<1>7. QED BY CustodySteps, <1>1, <1>2, <1>3, <1>4, <1>5, <1>6

LEMMA CustodyInvariant == Spec => []Custody
<1>1. Init => Custody
  BY DriverAssumption DEF Init, Custody, HeldByOne, SentOnce, QueuedFromNext, Task, NoTask, Pid
<1>2. TypeInv /\ Custody /\ [Next]_vars => Custody'
  BY CustodyInductive
<1>3. QED BY <1>1, <1>2, TypeCorrect, PTL DEF Spec

\* No two workers hold the same task and no held task is still queued or
\* already sent, whatever workers die and are replaced.
THEOREM OneHolder == Spec => []OneHolderPerTask
<1>1. TypeInv /\ Custody => OneHolderPerTask
  <2> SUFFICES ASSUME TypeInv, Custody PROVE OneHolderPerTask
    OBVIOUS
  <2> USE DEF TypeInv, TypeOK, TaskTypeOK, WorkerTypeOK, Task, NoTask, Custody
  <2>1. \A p, q \in Pid : p # q /\ wtask[p] # NoTask => wtask[p] # wtask[q]
    BY DEF HeldByOne
  <2>2. ASSUME NEW p \in Pid, wtask[p] # NoTask
        PROVE  wtask[p] \in Task /\ st[wtask[p]] = "held"
    BY <2>2 DEF HeldByOne
  <2>3. ASSUME NEW p \in Pid, wtask[p] # NoTask PROVE wtask[p] < next
    BY <2>2, <2>3 DEF QueuedFromNext
  <2>4. ASSUME NEW p \in Pid, wtask[p] # NoTask, NEW i \in 1 .. Len(reports)
        PROVE  reports[i] # wtask[p]
    BY <2>2, <2>4 DEF SentOnce
  <2>5. QED BY <2>1, <2>3, <2>4 DEF OneHolderPerTask
<1>2. QED BY <1>1, TypeCorrect, CustodyInvariant, PTL

-----------------------------------------------------------------------------
(***************************************************************************)
(* The table: merging, completeness and the refinement of the ledger.      *)
(***************************************************************************)
Merged == {t \in Task : st[t] = "merged"}

LEMMA HeadIsSent ==
  ASSUME TypeInv, Custody, reports # <<>>
  PROVE  Head(reports) = reports[1] /\ reports[1] \in Task /\ st[reports[1]] = "sent"
<1>1. reports \in Seq(Task)
  BY DEF TypeInv, TypeOK, TaskTypeOK
<1>2. Head(reports) = reports[1] /\ 1 \in 1 .. Len(reports) /\ reports[1] \in Task
  BY <1>1
<1>3. QED BY <1>2 DEF Custody, SentOnce

\* Merging one result: the only step that changes the table.
LEMMA ConsumeEffect ==
  ASSUME TypeInv, Custody, ConsumeResult
  PROVE  \E t \in Task :
           /\ st[t] = "sent"
           /\ Merged' = Merged \cup {t}
           /\ t \notin Merged
           /\ table' = [c \in Cell |-> IF c \in wrote[t] THEN t ELSE table[c]]
           /\ wrote' = wrote
           /\ completed' = completed + 1
           /\ main = "pool" /\ main' = main /\ cause' = cause /\ shown' = shown
<1> USE DEF TypeInv, TypeOK, TaskTypeOK
<1>1. Head(reports) = reports[1] /\ reports[1] \in Task
  BY HeadIsSent DEF ConsumeResult
<1>2. st[reports[1]] = "sent"
  BY HeadIsSent DEF ConsumeResult
<1>3. st' = [st EXCEPT ![reports[1]] = "merged"]
  BY <1>1 DEF ConsumeResult
<1>4. Merged' = Merged \cup {reports[1]} /\ reports[1] \notin Merged
  BY <1>1, <1>2, <1>3 DEF Merged
<1>5. QED
  BY <1>1, <1>2, <1>4 DEF ConsumeResult, MergeResults, mainVars

\* Every other step leaves the table and what collected tasks measured alone.
LEMMA OtherStepsKeepTable ==
  ASSUME TypeInv, Custody, [Next]_vars, ~ ConsumeResult
  PROVE  /\ Merged' = Merged
         /\ table' = table
         /\ completed' = completed
         /\ \A t \in Task : st[t] = "merged" => wrote'[t] = wrote[t]
<1> USE DEF TypeInv, TypeOK, TaskTypeOK, WorkerTypeOK, Merged, NoTask, Task
<1>1. ASSUME NEW p \in Pid, TakeTask(p) PROVE Merged' = Merged
  BY <1>1, DriverAssumption DEF TakeTask, Custody, QueuedFromNext
<1>2. ASSUME NEW p \in Pid, SendResult(p) PROVE Merged' = Merged
  <2>1. wtask[p] \in Task /\ st[wtask[p]] = "held"
    BY <1>2 DEF SendResult, Step, HoldsWhenBusy, Holding, Custody, HeldByOne
  <2>2. QED BY <1>2, <2>1 DEF SendResult
<1>3. ASSUME NEW p \in Pid, WorkerDies(p) PROVE Merged' = Merged
  <2>1. \A t \in Task : t = wtask[p] => st[t] = "held"
    BY DriverAssumption DEF Custody, HeldByOne
  <2>2. QED BY <1>3, <2>1 DEF WorkerDies
<1>4. ASSUME NEW p \in Pid, EndTask(p)
      PROVE  Merged' = Merged /\ \A t \in Task : st[t] = "merged" => wrote'[t] = wrote[t]
  <2>1. wtask[p] \in Task /\ st[wtask[p]] = "held"
    BY <1>4 DEF EndTask, HoldsWhenBusy, Holding, Compiling, Custody, HeldByOne
  <2>2. st' = st /\ \E m : wrote' = [wrote EXCEPT ![wtask[p]] = m]
    BY <1>4 DEF EndTask
  <2>3. QED BY <2>1, <2>2
<1>5. CASE ConsumeError
  <2>1. Head(reports) = reports[1] /\ reports[1] \in Task /\ st[reports[1]] = "sent"
    BY <1>5, HeadIsSent DEF ConsumeError
  <2>2. Merged' = Merged
    BY <1>5, <2>1 DEF ConsumeError
  <2>3. QED BY <1>5, <2>2 DEF ConsumeError
<1>6. ASSUME TerminatePool \/ AtExit PROVE Merged' = Merged
  BY <1>6 DEF TerminatePool, AtExit, KillWorkers
<1>7. QED
  BY <1>1, <1>2, <1>3, <1>4, <1>5, <1>6
     DEF Next, Main, Work, vars, mainVars, taskVars, initVars, procVars, TakeTask, SendResult,
     WorkerDies, EndTask, ConsumeError, TerminatePool, AtExit,
     ReadIndex, BumpIndexAndPin, LockStep, Announce, GenerateProgram, SweepScratch,
     StartPool, EndLoop, HandleInterrupt, ClearStatus, Cleanup, PrintTable, RespawnWorker, CtrlC

-----------------------------------------------------------------------------
\* A task measures only its own cells.
MeasuresOwnCells == \A t \in Task : wrote[t] \subseteq CellsOf[t]

LEMMA OwnCells == Spec => []MeasuresOwnCells
<1>1. Init => MeasuresOwnCells
  BY DEF Init, MeasuresOwnCells
<1>2. TypeInv /\ MeasuresOwnCells /\ [Next]_vars => MeasuresOwnCells'
  <2> SUFFICES ASSUME TypeInv, MeasuresOwnCells, [Next]_vars PROVE MeasuresOwnCells'
    OBVIOUS
  <2>1. ASSUME NEW p \in Pid, EndTask(p) PROVE MeasuresOwnCells'
    <3>1. \E m \in SUBSET CellsOf[wtask[p]] : wrote' = [wrote EXCEPT ![wtask[p]] = m]
      BY <2>1 DEF EndTask, Ending
    <3>2. QED BY <3>1 DEF TypeInv, TypeOK, TaskTypeOK, MeasuresOwnCells
  <2>2. CASE wrote' = wrote
    BY <2>2 DEF MeasuresOwnCells
  <2>3. QED
    BY <2>1, <2>2
       DEF Next, Main, Work, vars, mainVars, taskVars, initVars, procVars, TakeTask, SendResult,
       WorkerDies, ConsumeResult, ConsumeError, TerminatePool, AtExit,
       ReadIndex, BumpIndexAndPin, LockStep, Announce, GenerateProgram, SweepScratch,
       StartPool, EndLoop, HandleInterrupt, ClearStatus, Cleanup, PrintTable, RespawnWorker, CtrlC
<1>3. QED BY <1>1, <1>2, TypeCorrect, PTL DEF Spec

\* The table shows exactly what collected tasks measured, in whatever order
\* their results arrive.
THEOREM TableShowsCollectedTheorem == Spec => []TableShowsCollected
<1>1. Init => TableShowsCollected
  BY DEF Init, TableShowsCollected
<1>2. TypeInv /\ Custody /\ TableShowsCollected /\ [Next]_vars => TableShowsCollected'
  <2> SUFFICES ASSUME TypeInv, Custody, TableShowsCollected, [Next]_vars
               PROVE  TableShowsCollected'
    OBVIOUS
  <2> USE DEF TypeInv, TypeOK, TaskTypeOK, NoTask, Task
  <2>1. CASE ConsumeResult
    <3>1. PICK t \in Task :
            /\ Merged' = Merged \cup {t}
            /\ table' = [c \in Cell |-> IF c \in wrote[t] THEN t ELSE table[c]]
            /\ wrote' = wrote
      BY <2>1, ConsumeEffect
    <3>2. \A u \in Task : st'[u] = "merged" <=> st[u] = "merged" \/ u = t
      BY <3>1 DEF Merged
    <3>3. QED BY <3>1, <3>2 DEF TableShowsCollected
  <2>2. CASE ~ ConsumeResult
    <3>1. /\ \A u \in Task : st'[u] = "merged" <=> st[u] = "merged"
          /\ \A u \in Task : st[u] = "merged" => wrote'[u] = wrote[u]
          /\ table' = table
      BY <2>2, OtherStepsKeepTable DEF Merged
    <3>2. QED BY <3>1 DEF TableShowsCollected
  <2>3. QED BY <2>1, <2>2
<1>3. QED BY <1>1, <1>2, TypeCorrect, CustodyInvariant, PTL DEF Spec

-----------------------------------------------------------------------------
(***************************************************************************)
(* Completeness: the counter of collected results and the end of the loop. *)
(***************************************************************************)
CountsMerged == completed = Cardinality(Merged)

LEMMA CountInvariant == Spec => []CountsMerged
<1>1. Init => CountsMerged
  <2> SUFFICES ASSUME Init PROVE CountsMerged
    OBVIOUS
  <2>1. Merged = {}
    BY DEF Init, Merged
  <2>2. QED BY <2>1, FS_EmptySet DEF Init, CountsMerged
<1>2. TypeInv /\ Custody /\ CountsMerged /\ [Next]_vars => CountsMerged'
  <2> SUFFICES ASSUME TypeInv, Custody, CountsMerged, [Next]_vars PROVE CountsMerged'
    OBVIOUS
  <2>1. IsFiniteSet(Merged)
    <3>1. IsFiniteSet(Task)
      BY FS_Interval, DriverAssumption DEF Task
    <3>2. QED BY <3>1, FS_Subset DEF Merged
  <2>2. CASE ConsumeResult
    <3>1. PICK t \in Task : /\ Merged' = Merged \cup {t} /\ t \notin Merged
                            /\ completed' = completed + 1
      BY <2>2, ConsumeEffect
    <3>2. Cardinality(Merged') = Cardinality(Merged) + 1
      BY <2>1, <3>1, FS_AddElement
    <3>3. QED BY <3>1, <3>2 DEF CountsMerged
  <2>3. CASE ~ ConsumeResult
    BY <2>3, OtherStepsKeepTable DEF CountsMerged
  <2>4. QED BY <2>2, <2>3
<1>3. QED BY <1>1, <1>2, TypeCorrect, CustodyInvariant, PTL DEF Spec

\* How the loop was left decides what the main thread does next: without an
\* error or an interrupt every task was collected, and the table is printed
\* by no other way out of the loop.
LoopOutcome ==
  /\ main \in {"setup", "pool"} => cause = "none"
  /\ main \notin {"setup", "pool"} /\ cause = "none" => completed = NTasks
  /\ main \in {"setup", "pool", "unwind", "handler", "finally", "cleanup", "table"} => ~ shown
  /\ main = "table" => cause \in {"none", "caught"}
  /\ shown => cause \in {"none", "caught"}

LEMMA LoopOutcomeInvariant == Spec => []LoopOutcome
<1>1. Init => LoopOutcome
  BY DEF Init, LoopOutcome
<1>2. TypeInv /\ LoopOutcome /\ [Next]_vars => LoopOutcome'
  <2> SUFFICES ASSUME TypeInv, LoopOutcome, [Next]_vars PROVE LoopOutcome'
    OBVIOUS
  <2> USE DEF LoopOutcome, TypeInv, TypeOK, MainTypeOK, MainState
  <2>1. CASE ConsumeError
    <3>1. reports \in Seq(Task) /\ reports # <<>>
      BY <2>1 DEF ConsumeError, TaskTypeOK
    <3>2. cause' \in Error
      BY <2>1 DEF ConsumeError
    <3>3. QED BY <2>1, <3>2 DEF ConsumeError, Goto, Error
  <2>2. CASE EndLoop
    BY <2>2 DEF EndLoop, Goto, taskVars
  <2>3. CASE TerminatePool
    BY <2>3 DEF TerminatePool, Goto
  <2>4. CASE HandleInterrupt
    BY <2>4 DEF HandleInterrupt, Goto, taskVars
  <2>5. CASE ClearStatus \/ Cleanup
    BY <2>5 DEF ClearStatus, Cleanup, Goto, taskVars
  <2>6. CASE PrintTable
    BY <2>6 DEF PrintTable, Goto, taskVars
  <2>7. CASE AtExit
    BY <2>7 DEF AtExit, Goto
  <2>8. CASE CtrlC
    <3>1. completed' = completed
      BY <2>8 DEF CtrlC, taskVars
    <3>2. \/ main = "setup" /\ InterruptIn("exiting", "sigint", "traceback")
          \/ main = "pool" /\ InterruptIn("unwind", "sigint", code)
          \/ main = "unwind" /\ InterruptIn("handler", "sigint", code)
          \/ main = "handler" /\ InterruptIn("finally", "sigint", "traceback")
          \/ main \in {"finally", "cleanup", "table"} /\ InterruptIn("exiting", "sigint", "traceback")
          \/ main = "handler" /\ SwallowedIn("finally", "130", shown)
          \/ main = "finally" /\ SwallowedIn("cleanup", code, shown)
          \/ main = "table" /\ SwallowedIn("table", code, shown)
          \/ main = "table" /\ SwallowedIn("exiting", "ok", TRUE)
      BY <2>8 DEF CtrlC
    <3>21. ~ shown
      BY <3>2
    <3>3. CASE \E to \in {"exiting", "finally", "unwind", "handler"}, s \in {"traceback", code} :
                 InterruptIn(to, "sigint", s)
      <4>1. cause' = "sigint" /\ main' \in {"exiting", "finally", "unwind", "handler"} /\ ~ shown'
        BY <3>3, <3>21 DEF InterruptIn
      <4> QED
        BY <4>1
    <3>4. CASE main = "handler" /\ SwallowedIn("finally", "130", shown)
      BY <3>1, <3>4 DEF SwallowedIn
    <3>5. CASE main = "finally" /\ SwallowedIn("cleanup", code, shown)
      BY <3>1, <3>5 DEF SwallowedIn
    <3>6. CASE main = "table" /\ (SwallowedIn("table", code, shown) \/ SwallowedIn("exiting", "ok", TRUE))
      BY <3>1, <3>6 DEF SwallowedIn
    <3> QED
      BY <3>2, <3>3, <3>4, <3>5, <3>6
  <2>9. CASE StartPool
    BY <2>9 DEF StartPool, Goto, taskVars
  <2>10. CASE ConsumeResult
    BY <2>10 DEF ConsumeResult, mainVars
  <2>11. CASE UNCHANGED <<main, cause, shown, completed>>
    BY <2>11
  <2>12. QED
    BY <2>1, <2>2, <2>3, <2>4, <2>5, <2>6, <2>7, <2>8, <2>9, <2>10, <2>11
       DEF Next, Main, Work, vars, mainVars, taskVars, TakeTask, SendResult,
       WorkerDies, EndTask, ReadIndex, BumpIndexAndPin, LockStep, Announce, GenerateProgram,
       SweepScratch, RespawnWorker
<1>3. QED BY <1>1, <1>2, TypeCorrect, PTL DEF Spec

\* A printed table is complete unless a caught error cut the loop short.
THEOREM ShownTableIsCompleteTheorem == Spec => []ShownTableIsComplete
<1>1. TypeInv /\ CountsMerged /\ LoopOutcome => ShownTableIsComplete
  <2> SUFFICES ASSUME TypeInv, CountsMerged, LoopOutcome, shown, cause # "caught"
               PROVE  Merged = Task
    BY DEF ShownTableIsComplete, Merged
  <2>1. completed = NTasks
    BY DEF LoopOutcome, TypeInv, TypeOK, MainTypeOK, MainState
  <2>2. IsFiniteSet(Task) /\ Cardinality(Task) = NTasks
    BY FS_Interval, DriverAssumption DEF Task
  <2>3. Merged \subseteq Task
    BY DEF Merged
  <2>4. QED BY <2>1, <2>2, <2>3, FS_Subset DEF CountsMerged
<1>2. QED BY <1>1, TypeCorrect, CountInvariant, LoopOutcomeInvariant, PTL

-----------------------------------------------------------------------------
\* Whatever cells the tasks share, a measurement in the table is replaced only by
\* that of another collected task, in a cell which both measured.
THEOREM OverwritesAreSharedTheorem == Spec => OverwritesAreShared
<1> DEFINE Shared == \A c \in Cell : table[c] # NoTask /\ table'[c] # table[c] =>
                       /\ table'[c] # NoTask /\ st'[table'[c]] = "merged"
                       /\ c \in wrote[table[c]] \cap wrote'[table'[c]]
<1>1. ASSUME TypeInv, Custody, TableShowsCollected, [Next]_vars PROVE Shared
  <2>1. CASE ConsumeResult
    <3>1. PICK t \in Task :
            /\ Merged' = Merged \cup {t}
            /\ table' = [c \in Cell |-> IF c \in wrote[t] THEN t ELSE table[c]]
            /\ wrote' = wrote
      BY <1>1, <2>1, ConsumeEffect
    <3>2. SUFFICES ASSUME NEW c \in Cell, table[c] # NoTask, table'[c] # table[c]
                   PROVE  /\ table'[c] # NoTask /\ st'[table'[c]] = "merged"
                          /\ c \in wrote[table[c]] \cap wrote'[table'[c]]
      OBVIOUS
    <3>3. c \in wrote[t] /\ table'[c] = t
      BY <3>1, <3>2
    <3>4. c \in wrote[table[c]]
      BY <1>1, <3>2 DEF TableShowsCollected
    <3>5. t # NoTask /\ st'[t] = "merged"
      BY <3>1, DriverAssumption DEF Merged, Task, NoTask
    <3> QED
      BY <3>1, <3>3, <3>4, <3>5
  <2>2. CASE ~ ConsumeResult
    BY <1>1, <2>2, OtherStepsKeepTable
  <2> QED
    BY <2>1, <2>2
<1>2. TypeInv /\ Custody /\ TableShowsCollected /\ [Next]_vars => [Shared]_vars
  BY <1>1
<1> QED
  BY <1>2, TypeCorrect, CustodyInvariant, TableShowsCollectedTheorem, PTL
     DEF Spec, OverwritesAreShared

-----------------------------------------------------------------------------
\* Only a turn of the pool loop changes the table or the count of results.
THEOREM NoMergeAfterLoopTheorem == Spec => NoMergeAfterLoop
<1>1. ASSUME TypeInv, Custody, [Next]_vars, main # "pool"
      PROVE  UNCHANGED <<table, completed>>
  <2>1. ~ ConsumeResult
    BY <1>1 DEF ConsumeResult
  <2>2. QED
    BY <1>1, <2>1, OtherStepsKeepTable
<1>2. TypeInv /\ Custody /\ [Next]_vars
      => [main # "pool" => UNCHANGED <<table, completed>>]_vars
  BY <1>1
<1>3. QED
  BY <1>2, TypeCorrect, CustodyInvariant, PTL DEF Spec, NoMergeAfterLoop

-----------------------------------------------------------------------------
\* The driver implements the ledger: each task is collected at most once, in
\* any order, and the table is frozen when the loop is left.
THEOREM Refinement == Spec => LedgerSpec
<1> DEFINE stage == IF shown THEN "shown"
                    ELSE IF main \in {"setup", "pool"} THEN "collecting" ELSE "stopped"
<1>1. Init => Ledger!LedgerInit
  BY DEF Init, Ledger!LedgerInit, Ledger!NoTask, NoTask
<1>2. ASSUME TypeInv, Custody, MeasuresOwnCells, LoopOutcome, [Next]_vars
      PROVE  [Ledger!LedgerNext]_(Ledger!ledgerVars)
  <2> USE DEF Ledger!Task, Task
  <2>1. CASE ConsumeResult
    <3>1. PICK t \in Task :
            /\ Merged' = Merged \cup {t} /\ t \notin Merged
            /\ table' = [c \in Cell |-> IF c \in wrote[t] THEN t ELSE table[c]]
            /\ main = "pool" /\ main' = main /\ shown' = shown
      BY <1>2, <2>1, ConsumeEffect
    <3>2. wrote[t] \in SUBSET CellsOf[t] /\ ~ shown
      BY <1>2, <3>1 DEF MeasuresOwnCells, LoopOutcome
    <3>3. stage = "collecting" /\ stage' = stage
      BY <3>1, <3>2
    <3> HIDE DEF stage
    <3>4. \E m \in SUBSET CellsOf[t] :
             /\ m = wrote[t]
             /\ table' = [c \in Cell |-> IF c \in m THEN t ELSE table[c]]
      BY <3>1, <3>2
    <3>5. Ledger!LedgerNext
      BY <3>1, <3>3, <3>4 DEF Ledger!LedgerNext, Ledger!Collect, Merged, stage
    <3>6. QED BY <3>5
  <2>2. CASE ~ ConsumeResult
    <3>1. Merged' = Merged /\ table' = table
      BY <1>2, <2>2, OtherStepsKeepTable
    <3>2. \/ UNCHANGED stage
          \/ stage = "collecting" /\ stage' = "stopped"
          \/ stage = "stopped" /\ stage' = "shown"
      BY <1>2, <2>2
         DEF LoopOutcome, TypeInv, TypeOK, MainTypeOK, MainState,
         Next, Main, Work, vars, mainVars, TakeTask, SendResult, InterruptIn, SwallowedIn,
         WorkerDies, EndTask, ConsumeError, TerminatePool, AtExit, Goto,
         ReadIndex, BumpIndexAndPin, LockStep, Announce, GenerateProgram, SweepScratch,
         StartPool, EndLoop, HandleInterrupt, ClearStatus, Cleanup, PrintTable, RespawnWorker, CtrlC
    <3>3. QED
      BY <3>1, <3>2
         DEF Ledger!LedgerNext, Ledger!Stop, Ledger!Show, Ledger!ledgerVars, Merged
  <2>3. QED BY <2>1, <2>2
<1>3. QED
  BY <1>1, <1>2, TypeCorrect, CustodyInvariant, OwnCells, LoopOutcomeInvariant, PTL
     DEF Spec, LedgerSpec, Ledger!LedgerSpec

-----------------------------------------------------------------------------
(***************************************************************************)
(* The workers: CPU pinning, the progress entries and the scratch          *)
(* directories.                                                            *)
(***************************************************************************)
\* A worker has joined once it left the critical section of _worker_init.
Joined(p) == cpu[p] # Unpinned

\* The lock is held by the worker between its two accesses to the counter
\* (or by one that died there), and no index is handed out twice.
IndexesUnique ==
  /\ \A p \in Pid : wst[p] = "indexing" => holder["init"] = p /\ widx[p] = idx
  /\ \A p \in Pid : wst[p] \in {"absent", "start", "indexing"} => ~ Joined(p)
  /\ \A p \in Pid : Joined(p) => widx[p] < idx /\ cpu[p] = widx[p] % NCpus
  /\ \A p, q \in Pid : p # q /\ Joined(p) /\ Joined(q) => widx[p] # widx[q]

LEMMA ModBelow ==
  ASSUME NEW a \in Nat, NEW b \in Nat, b > 0
  PROVE  a % b < b /\ (a < b => a % b = a)
  BY SMT

LEMMA IndexesUniqueInvariant == Spec => []IndexesUnique
<1> USE DriverAssumption DEF Pid, NoPid, Unpinned, Joined
<1>1. Init => IndexesUnique
  BY DEF Init, IndexesUnique
<1>2. TypeInv /\ IndexesUnique /\ [Next]_vars => IndexesUnique'
  <2> SUFFICES ASSUME TypeInv, IndexesUnique, [Next]_vars PROVE IndexesUnique'
    OBVIOUS
  <2> USE DEF TypeInv, TypeOK, WorkerTypeOK, IndexesUnique
  <2>1. ASSUME NEW p \in Pid, ReadIndex(p) PROVE IndexesUnique'
    BY <2>1 DEF ReadIndex, Acquire, Step, Lock
  <2>2. ASSUME NEW p \in Pid, BumpIndexAndPin(p) PROVE IndexesUnique'
    <3>1. /\ widx[p] = idx /\ widx' = widx /\ idx' = idx + 1
          /\ \A q \in Pid : q # p => wst'[q] = wst[q] /\ cpu'[q] = cpu[q]
          /\ \A q \in Pid : wst[q] = "indexing" => q = p
          /\ wst'[p] = "idle"
          /\ cpu'[p] # Unpinned => cpu'[p] = widx[p] % NCpus
      BY <2>2 DEF BumpIndexAndPin, Release, Step
    <3>2. \A q \in Pid : q # p /\ cpu[q] # Unpinned => widx[q] < idx
      OBVIOUS
    <3>3. \A q \in Pid : wst'[q] # "indexing"
      BY <3>1
    <3>4. \A q \in Pid : wst'[q] \in {"absent", "start", "indexing"} => ~ Joined(q)'
      BY <3>1
    <3>5. \A q \in Pid : Joined(q)' => widx'[q] < idx' /\ cpu'[q] = widx'[q] % NCpus
      BY <3>1, <3>2
    <3>6. \A q, r \in Pid : q # r /\ Joined(q)' /\ Joined(r)' => widx'[q] # widx'[r]
      BY <3>1, <3>2
    <3>7. QED BY <3>3, <3>4, <3>5, <3>6
  <2>3. ASSUME NEW p \in Pid, NEW from, NEW to, Step(p, from, to),
               from \notin {"absent", "start", "indexing"},
               to \notin {"absent", "start", "indexing"},
               UNCHANGED <<widx, cpu, idx>>, holder'["init"] = holder["init"]
        PROVE  IndexesUnique'
    BY <2>3 DEF Step
  <2>31. ASSUME NEW p \in Pid, TakeTask(p) \/ GenerateProgram(p) \/ SweepScratch(p) \/ SendResult(p)
         PROVE  IndexesUnique'
    BY <2>3, <2>31 DEF TakeTask, GenerateProgram, SweepScratch, SendResult, initVars
  <2>32. ASSUME NEW p \in Pid, Announce(p) PROVE IndexesUnique'
    BY <2>3, <2>32 DEF Announce, Release, Lock
  <2>33. ASSUME NEW p \in Pid, LockStep(p) PROVE IndexesUnique'
    <3>1. holder'["init"] = holder["init"]
      BY <2>33 DEF LockStep, AwaitTask, WantPrint, BeginPrint, EndPrint, BeginPut, EndPut, Acquire,
         Release, Lock
    <3>2. \A m \in LockMove : {m[1], m[2]} \cap {"absent", "start", "indexing"} = {}
      BY DEF LockMove
    <3> QED
      BY <2>3, <2>33, <3>1, <3>2, LockMoves
  <2>4. ASSUME NEW p \in Pid, EndTask(p) PROVE IndexesUnique'
    BY <2>4 DEF EndTask, initVars
  <2>5. CASE StartPool
    BY <2>5 DEF StartPool, Goto, initVars, SpawnedExist
  <2>6. ASSUME NEW p \in Pid, WorkerDies(p) PROVE IndexesUnique'
    BY <2>6 DEF WorkerDies, initVars
  <2>7. CASE RespawnWorker
    BY <2>7 DEF RespawnWorker, initVars, SpawnedExist
  <2>8. CASE TerminatePool \/ AtExit
    BY <2>8 DEF TerminatePool, AtExit, KillWorkers, initVars
  <2>9. CASE UNCHANGED <<wst, initVars>>
    BY <2>9 DEF initVars
  <2>10. QED
    BY <2>1, <2>2, <2>31, <2>32, <2>33, <2>4, <2>5, <2>6, <2>7, <2>8, <2>9
       DEF Next, Main, Work, vars, procVars, ConsumeResult, ConsumeError, EndLoop, HandleInterrupt,
       ClearStatus, Cleanup, PrintTable, CtrlC
<1>3. QED BY <1>1, <1>2, TypeCorrect, PTL DEF Spec

\* No two workers are pinned to the same CPU until more workers have been
\* started than there are CPUs.
THEOREM DedicatedCpuTheorem == Spec => []DedicatedCpu
<1>1. TypeInv /\ IndexesUnique => DedicatedCpu
  <2> SUFFICES ASSUME TypeInv, IndexesUnique, idx <= NCpus,
                      NEW p \in Pid, NEW q \in Pid, p # q, Joined(p)
               PROVE  cpu[p] # cpu[q]
    BY DEF DedicatedCpu, Joined
  <2> USE DriverAssumption DEF TypeInv, TypeOK, WorkerTypeOK, Unpinned
  <2>1. CASE Joined(q)
    <3>1. /\ widx[p] \in Nat /\ widx[q] \in Nat
          /\ widx[p] < NCpus /\ widx[q] < NCpus /\ widx[p] # widx[q]
          /\ cpu[p] = widx[p] % NCpus /\ cpu[q] = widx[q] % NCpus
      BY <2>1 DEF IndexesUnique
    <3>2. widx[p] % NCpus = widx[p] /\ widx[q] % NCpus = widx[q]
      BY <3>1, ModBelow
    <3>3. QED BY <3>1, <3>2
  <2>2. CASE ~ Joined(q)
    BY <2>2 DEF Joined
  <2>3. QED BY <2>1, <2>2
<1>2. QED BY <1>1, TypeCorrect, IndexesUniqueInvariant, PTL

-----------------------------------------------------------------------------
\* A live worker's progress entry is the task it is running.
THEOREM ActiveEntryTheorem == Spec => []ActiveEntryIsCurrent
<1> USE DEF Pid, NoTask, Compiling
<1>1. Init => ActiveEntryIsCurrent
  BY DEF Init, ActiveEntryIsCurrent
<1>2. TypeInv /\ ActiveEntryIsCurrent /\ [Next]_vars => ActiveEntryIsCurrent'
  <2> SUFFICES ASSUME TypeInv, ActiveEntryIsCurrent, [Next]_vars
               PROVE  ActiveEntryIsCurrent'
    OBVIOUS
  <2> USE DriverAssumption DEF TypeInv, TypeOK, WorkerTypeOK, ActiveEntryIsCurrent
  <2>1. ASSUME NEW p \in Pid, NEW from, NEW to, Step(p, from, to),
               from \notin {"running", "dead"} \cup Compiling, to # "dead",
               active' = active, \A q \in Pid : q # p => wtask'[q] = wtask[q]
        PROVE  ActiveEntryIsCurrent'
    BY <2>1 DEF Step
  <2>2. ASSUME NEW p \in Pid, Announce(p) PROVE ActiveEntryIsCurrent'
    BY <2>2 DEF Announce, Release, Step
  <2>3. ASSUME NEW p \in Pid, GenerateProgram(p) PROVE ActiveEntryIsCurrent'
    BY <2>3 DEF GenerateProgram, Step
  <2>4. ASSUME NEW p \in Pid, EndTask(p) PROVE ActiveEntryIsCurrent'
    BY <2>4 DEF EndTask
  <2>5. CASE StartPool
    <3>1. \A p \in Pid : wst[p] = "absent"
      BY <2>5 DEF StartPool, Goto, SpawnedExist
    <3>2. \A p \in Pid : active[p] = NoTask
      BY <3>1
    <3>3. QED BY <2>5, <3>2 DEF StartPool
  <2>6. ASSUME NEW p \in Pid, WorkerDies(p) PROVE ActiveEntryIsCurrent'
    BY <2>6 DEF WorkerDies
  <2>7. CASE RespawnWorker
    BY <2>7 DEF RespawnWorker, SpawnedExist
  <2>8. CASE TerminatePool \/ AtExit
    BY <2>8 DEF TerminatePool, AtExit, KillWorkers
  <2>9. CASE UNCHANGED <<wst, wtask, active>>
    BY <2>9
  <2>10. ASSUME NEW p \in Pid, ReadIndex(p) \/ BumpIndexAndPin(p) \/ TakeTask(p)
                               \/ SweepScratch(p) \/ SendResult(p)
         PROVE  ActiveEntryIsCurrent'
    BY <2>1, <2>10 DEF ReadIndex, BumpIndexAndPin, Acquire, Release, TakeTask, SweepScratch, SendResult
  <2>11. ASSUME NEW p \in Pid, LockStep(p) PROVE ActiveEntryIsCurrent'
    <3>1. PICK m \in LockMove : Step(p, m[1], m[2])
      BY <2>11, LockMoves
    <3>2. /\ m[1] \in {"running"} \cup Compiling => m[2] \in {"running"} \cup Compiling
          /\ m[1] # "dead"
      BY DEF LockMove
    <3>3. UNCHANGED <<active, wtask>>
      BY <2>11, LockMoves
    <3> QED
      BY <3>1, <3>2, <3>3 DEF Step
  <2>12. QED
    BY <2>2, <2>3, <2>4, <2>5, <2>6, <2>7, <2>8, <2>9, <2>10, <2>11
       DEF Next, Main, Work, vars, procVars, ConsumeResult, ConsumeError, EndLoop,
       HandleInterrupt, ClearStatus, Cleanup, PrintTable, CtrlC
<1>3. QED BY <1>1, <1>2, TypeCorrect, PTL DEF Spec

-----------------------------------------------------------------------------
\* A file in scratch belongs to a task that was handed out; while the task is
\* held, to its holder; and a successful task's files are gone before its
\* result is sent.
FilesOfTasks ==
  /\ \A p \in Pid, t \in Task : <<p, t>> \in files =>
       st[t] # "queued" /\ (st[t] = "held" => wtask[p] = t)
  /\ \A p \in Pid : wst[p] \in {"sending", "putting"} /\ outcome[wtask[p]] \in Success =>
       \A q \in Pid : <<q, wtask[p]>> \notin files
  /\ SuccessLeavesNoFiles

\* Consuming a result moves a sent task on and no other.
LEMMA ConsumeMovesHead ==
  ASSUME TypeInv, Custody, ConsumeResult \/ ConsumeError
  PROVE  \A t \in Task : \/ st'[t] = st[t]
                         \/ st[t] = "sent" /\ st'[t] \in {"merged", "error"}
<1>1. reports \in Seq(Task) /\ reports # <<>>
  BY DEF ConsumeResult, ConsumeError, TypeInv, TypeOK, TaskTypeOK
<1>2. Head(reports) = reports[1] /\ 1 \in 1 .. Len(reports) /\ reports[1] \in Task
  BY <1>1
<1>3. st[reports[1]] = "sent" /\ st \in [Task -> TaskState]
  BY <1>2 DEF Custody, SentOnce, TypeInv, TypeOK, TaskTypeOK
<1>4. PICK s \in {"merged", "error"} : st' = [st EXCEPT ![reports[1]] = s]
  BY <1>2 DEF ConsumeResult, ConsumeError
<1>5. QED BY <1>2, <1>3, <1>4

LEMMA FilesOfTasksInvariant == Spec => []FilesOfTasks
<1>1. Init => FilesOfTasks
  BY DEF Init, FilesOfTasks, SuccessLeavesNoFiles
<1>2. TypeInv /\ Custody /\ FilesOfTasks /\ [Next]_vars => FilesOfTasks'
  <2> SUFFICES ASSUME TypeInv, Custody, FilesOfTasks, [Next]_vars PROVE FilesOfTasks'
    OBVIOUS
  <2> USE DEF TypeInv, TypeOK, TaskTypeOK, WorkerTypeOK, FilesOfTasks, SuccessLeavesNoFiles,
          NoTask
  <2>0. ASSUME NEW p \in Pid, wst[p] \in Holding
        PROVE  /\ wtask[p] \in Task /\ st[wtask[p]] = "held"
               /\ \A q \in Pid : q # p => wtask[q] # wtask[p]
    BY <2>0 DEF HoldsWhenBusy, Custody, HeldByOne
  <2>1. ASSUME NEW p \in Pid, TakeTask(p) PROVE FilesOfTasks'
    <3>1. next \in Task /\ st[next] = "queued"
      BY <2>1, DriverAssumption DEF TakeTask, Custody, QueuedFromNext, Task
    <3>2. /\ st' = [st EXCEPT ![next] = "held"] /\ wtask' = [wtask EXCEPT ![p] = next]
          /\ wst' = [wst EXCEPT ![p] = "taken"] /\ wst[p] = "waiting" /\ wtask[p] = NoTask
          /\ files' = files /\ outcome' = outcome
      BY <2>1 DEF TakeTask, Step, fileVars, HoldsWhenBusy, Holding, Compiling
    <3>3. \A q \in Pid : <<q, next>> \notin files
      BY <3>1
    <3>4. \A t \in Task : t # NoTask
      BY DriverAssumption DEF Task
    <3>5. QED BY <3>1, <3>2, <3>3, <3>4
  <2>2. ASSUME NEW p \in Pid, GenerateProgram(p) PROVE FilesOfTasks'
    BY <2>2, <2>0 DEF GenerateProgram, Step, taskVars, Holding, Compiling
  <2>3. ASSUME NEW p \in Pid, EndTask(p) PROVE FilesOfTasks'
    <3>1. wtask[p] \in Task /\ st[wtask[p]] = "held"
          /\ \A q \in Pid : q # p => wtask[q] # wtask[p]
      BY <2>3, <2>0 DEF EndTask, Holding, Compiling
    <3>2. \E o : outcome' = [outcome EXCEPT ![wtask[p]] = o]
      BY <2>3 DEF EndTask
    <3>3. st' = st /\ wtask' = wtask /\ files' = files
          /\ wst' = [wst EXCEPT ![p] = "finishing"]
      BY <2>3 DEF EndTask, fileVars
    <3>4. QED BY <3>1, <3>2, <3>3
  <2>4. ASSUME NEW p \in Pid, SweepScratch(p) PROVE FilesOfTasks'
    <3>1. wtask[p] \in Task /\ st[wtask[p]] = "held"
          /\ \A q \in Pid : q # p => wtask[q] # wtask[p]
      BY <2>4, <2>0 DEF SweepScratch, Step, Holding, Compiling
    <3>2. \A q \in Pid : q # p => <<q, wtask[p]>> \notin files
      BY <3>1
    <3>3. outcome[wtask[p]] \in Success => <<p, wtask[p]>> \notin files'
      BY <2>4, <3>1 DEF SweepScratch, LangDir
    <3>4. files' \subseteq files
      BY <2>4 DEF SweepScratch
    <3>5. QED BY <2>4, <3>1, <3>2, <3>3, <3>4 DEF SweepScratch, Step, taskVars
  <2>5. ASSUME NEW p \in Pid, SendResult(p) PROVE FilesOfTasks'
    <3>1. wtask[p] \in Task /\ st[wtask[p]] = "held"
          /\ \A q \in Pid : q # p => wtask[q] # wtask[p]
      BY <2>5, <2>0 DEF SendResult, Step, Holding, Compiling
    <3>2. QED BY <2>5, <3>1 DEF SendResult, Step, fileVars
  <2>6. CASE ConsumeResult \/ ConsumeError
    <3>1. wst' = wst /\ wtask' = wtask /\ files' = files /\ outcome' = outcome
      BY <2>6 DEF ConsumeResult, ConsumeError, procVars, fileVars
    <3>2. \A t \in Task : \/ st'[t] = st[t]
                          \/ st[t] = "sent" /\ st'[t] \in {"merged", "error"}
      BY <2>6, ConsumeMovesHead
    <3>3. QED BY <3>1, <3>2
  <2>7. ASSUME NEW p \in Pid, WorkerDies(p) PROVE FilesOfTasks'
    BY <2>7 DEF WorkerDies, fileVars
  <2>8. CASE TerminatePool \/ AtExit
    BY <2>8 DEF TerminatePool, AtExit, KillWorkers, fileVars
  <2>9. CASE StartPool \/ RespawnWorker
    BY <2>9 DEF StartPool, RespawnWorker, taskVars, fileVars
  <2>10. ASSUME NEW p \in Pid, ReadIndex(p) \/ BumpIndexAndPin(p) \/ Announce(p)
         PROVE  FilesOfTasks'
    BY <2>10 DEF ReadIndex, BumpIndexAndPin, Announce, Acquire, Release, Step, taskVars, fileVars
  <2>11. CASE UNCHANGED <<wst, wtask, st, outcome, files>>
    BY <2>11
  <2>12. ASSUME NEW p \in Pid, LockStep(p) PROVE FilesOfTasks'
    <3>1. PICK m \in LockMove : Step(p, m[1], m[2])
      BY <2>12, LockMoves
    <3>2. m[2] \in {"sending", "putting"} => m[1] = "sending"
      BY DEF LockMove
    <3>3. UNCHANGED <<wtask, st, outcome, files>>
      BY <2>12, LockMoves
    <3>4. \A q \in Pid : wst'[q] \in {"sending", "putting"} => wst[q] \in {"sending", "putting"}
      BY <3>1, <3>2 DEF Step
    <3> QED
      BY <3>3, <3>4
  <2>13. QED
    BY <2>1, <2>2, <2>3, <2>4, <2>5, <2>6, <2>7, <2>8, <2>9, <2>10, <2>11, <2>12
       DEF Next, Main, Work, vars, procVars, taskVars, fileVars, EndLoop, HandleInterrupt,
       ClearStatus, Cleanup, PrintTable, CtrlC
<1>3. QED BY <1>1, <1>2, TypeCorrect, CustodyInvariant, PTL DEF Spec

\* A successful task leaves no file in any worker's scratch directory once
\* its result is sent.
THEOREM SuccessLeavesNoFilesTheorem == Spec => []SuccessLeavesNoFiles
BY FilesOfTasksInvariant, PTL DEF FilesOfTasks

\* At exit no worker is left, and the root directory stays only if some file
\* keeps it from being removed.
ExitedIsFinal ==
  main = "exited" =>
    /\ \A p \in Pid : wst[p] \in {"absent", "dead"}
    /\ root => files # {}

LEMMA ExitedIsFinalInvariant == Spec => []ExitedIsFinal
<1>1. Init => ExitedIsFinal
  BY DEF Init, ExitedIsFinal
<1>2. TypeInv /\ ExitedIsFinal /\ [Next]_vars => ExitedIsFinal'
  <2> SUFFICES ASSUME TypeInv, ExitedIsFinal, [Next]_vars PROVE ExitedIsFinal'
    OBVIOUS
  <2> USE DEF TypeInv, TypeOK, WorkerTypeOK, ExitedIsFinal
  <2>1. CASE AtExit
    BY <2>1 DEF AtExit, CleanupEmptyDirs, KillWorkers
  <2>2. ASSUME NEW p \in Pid, Work(p) PROVE ExitedIsFinal'
    <3>1. wst[p] \notin {"absent", "dead"}
      BY <2>2 DEF Work, ReadIndex, BumpIndexAndPin, LockStep, AwaitTask, WantPrint, BeginPrint,
         EndPrint, BeginPut, EndPut, TakeTask, Announce, GenerateProgram, EndTask, SweepScratch,
         SendResult, Acquire, Release, Step, Compiling
    <3>2. main # "exited" /\ main' = main
      BY <2>2, <3>1 DEF Work, ReadIndex, BumpIndexAndPin, LockStep, TakeTask, Announce,
         GenerateProgram, EndTask, SweepScratch, SendResult, mainVars
    <3>3. QED BY <3>2
  <2>3. CASE main' # "exited"
    BY <2>3
  <2>4. CASE UNCHANGED vars
    BY <2>4 DEF vars, mainVars, procVars, fileVars
  <2>5. QED
    BY <2>1, <2>2, <2>3, <2>4
       DEF Next, Main, StartPool, ConsumeResult, ConsumeError, EndLoop, TerminatePool,
       HandleInterrupt, ClearStatus, Cleanup, PrintTable, WorkerDies, RespawnWorker, CtrlC,
       InterruptIn, SwallowedIn, Goto, mainVars, fileVars, procVars
<1>3. QED BY <1>1, <1>2, TypeCorrect, PTL DEF Spec

\* The root directory survives the program only if it holds a file of a task
\* that did not succeed.
THEOREM LeftoversTheorem == Spec => []LeftoversAreExplained
<1>1. TypeInv /\ ExitedIsFinal /\ SuccessLeavesNoFiles => LeftoversAreExplained
  <2> SUFFICES ASSUME TypeInv, ExitedIsFinal, SuccessLeavesNoFiles, main = "exited", root
               PROVE  \E t \in Task :
                        /\ <<outcome[t], st[t]>> \notin Success \X {"merged", "sent"}
                        /\ \E p \in Pid : <<p, t>> \in files
    BY DEF LeftoversAreExplained
  <2>1. files # {} /\ files \subseteq Pid \X Task
    BY DEF ExitedIsFinal, TypeInv, TypeOK
  <2>2. PICK p \in Pid, t \in Task : <<p, t>> \in files
    BY <2>1
  <2>3. <<outcome[t], st[t]>> \notin Success \X {"merged", "sent"}
    BY <2>2 DEF SuccessLeavesNoFiles
  <2>4. QED BY <2>2, <2>3
<1>2. QED
  BY <1>1, TypeCorrect, ExitedIsFinalInvariant, SuccessLeavesNoFilesTheorem, PTL
-----------------------------------------------------------------------------
(***************************************************************************)
(* Every task is one run.                                                  *)
(***************************************************************************)
\* A task has an outcome exactly from the end of its runner on: not while it is
\* queued or its holder is still at work, and for good once it was sent; without
\* an outcome it has no cells.
EndedOnce ==
  /\ \A t \in Task : outcome[t] = "pending" => wrote[t] = {}
  /\ \A t \in Task : st[t] = "queued" => outcome[t] = "pending"
  /\ \A t \in Task : st[t] \in {"sent", "merged", "error"} => outcome[t] # "pending"
  /\ \A p \in Pid : wst[p] \in {"taken", "running"} \cup Compiling => outcome[wtask[p]] = "pending"
  /\ \A p \in Pid : wst[p] \in {"finishing", "sending", "putting"} => outcome[wtask[p]] # "pending"

\* The task of a busy worker is held, and by this worker alone.
LEMMA SoleHolder ==
  ASSUME TypeInv, Custody, NEW p \in Pid, wst[p] \in Holding
  PROVE  /\ wtask[p] \in Task /\ st[wtask[p]] = "held"
         /\ \A q \in Pid : q # p => wtask[q] # wtask[p]
BY DEF TypeInv, TypeOK, WorkerTypeOK, HoldsWhenBusy, Custody, HeldByOne, NoTask

\* The end of a runner gives its task an outcome, and cells only of its own.
LEMMA EndEffect ==
  ASSUME TypeInv, Custody, NEW p \in Pid, EndTask(p)
  PROVE  \E o \in Outcome, m \in SUBSET CellsOf[wtask[p]] :
           /\ <<o, m>> \in Ending(p, wtask[p])
           /\ outcome' = [outcome EXCEPT ![wtask[p]] = o]
           /\ wrote' = [wrote EXCEPT ![wtask[p]] = m]
<1>1. PICK e \in Ending(p, wtask[p]) :
        /\ outcome' = [outcome EXCEPT ![wtask[p]] = e[1]]
        /\ wrote' = [wrote EXCEPT ![wtask[p]] = e[2]]
  BY DEF EndTask
<1>2. e = <<e[1], e[2]>> /\ e[1] \in Outcome /\ e[2] \in SUBSET CellsOf[wtask[p]]
  BY <1>1 DEF Ending, Outcome, Error
<1> QED
  BY <1>1, <1>2

LEMMA EndedOnceInvariant == Spec => []EndedOnce
<1>1. Init => EndedOnce
  BY DEF Init, EndedOnce, Compiling
<1>2. TypeInv /\ Custody /\ EndedOnce /\ [Next]_vars => EndedOnce'
  <2> SUFFICES ASSUME TypeInv, Custody, EndedOnce, [Next]_vars PROVE EndedOnce'
    OBVIOUS
  <2>0. ASSUME NEW p \in Pid, EndTask(p)
        PROVE  \E o \in Outcome, m \in SUBSET CellsOf[wtask[p]] :
                 /\ outcome' = [outcome EXCEPT ![wtask[p]] = o]
                 /\ wrote' = [wrote EXCEPT ![wtask[p]] = m]
    BY <2>0, EndEffect
  <2> USE DEF TypeInv, TypeOK, TaskTypeOK, WorkerTypeOK, EndedOnce, Compiling
  <2>1. ASSUME NEW p \in Pid, TakeTask(p) PROVE EndedOnce'
    <3>1. next \in Task /\ st[next] = "queued"
      BY <2>1, DriverAssumption DEF TakeTask, Custody, QueuedFromNext, Task
    <3>2. /\ st' = [st EXCEPT ![next] = "held"] /\ wtask' = [wtask EXCEPT ![p] = next]
          /\ wst' = [wst EXCEPT ![p] = "taken"] /\ outcome' = outcome /\ wrote' = wrote
      BY <2>1 DEF TakeTask, Step
    <3> QED
      BY <3>1, <3>2
  <2>2. ASSUME NEW p \in Pid, EndTask(p) PROVE EndedOnce'
    <3>1. /\ wtask[p] \in Task /\ st[wtask[p]] = "held"
          /\ \A q \in Pid : q # p => wtask[q] # wtask[p]
      BY <2>2, SoleHolder DEF EndTask, Holding, Compiling
    <3>2. PICK o \in Outcome, m \in SUBSET CellsOf[wtask[p]] :
            /\ outcome' = [outcome EXCEPT ![wtask[p]] = o]
            /\ wrote' = [wrote EXCEPT ![wtask[p]] = m]
      BY <2>0, <2>2
    <3>3. o # "pending"
      BY DEF Outcome
    <3>4. st' = st /\ wtask' = wtask /\ wst' = [wst EXCEPT ![p] = "finishing"]
      BY <2>2 DEF EndTask
    <3> QED
      BY <3>1, <3>2, <3>3, <3>4
  <2>3. ASSUME NEW p \in Pid, SendResult(p) PROVE EndedOnce'
    <3>1. /\ wtask[p] \in Task /\ outcome[wtask[p]] # "pending"
          /\ \A q \in Pid : q # p => wtask[q] # wtask[p]
      BY <2>3, SoleHolder DEF SendResult, Step, Holding, Compiling
    <3> QED
      BY <2>3, <3>1 DEF SendResult, Step
  <2>4. CASE ConsumeResult \/ ConsumeError
    <3>1. \A t \in Task : \/ st'[t] = st[t]
                          \/ st[t] = "sent" /\ st'[t] \in {"merged", "error"}
      BY <2>4, ConsumeMovesHead
    <3>2. UNCHANGED <<outcome, wrote, wst, wtask>>
      BY <2>4 DEF ConsumeResult, ConsumeError, procVars
    <3> QED
      BY <3>1, <3>2
  <2>5. ASSUME NEW p \in Pid, WorkerDies(p) PROVE EndedOnce'
    BY <2>5 DEF WorkerDies
  <2>6. CASE TerminatePool \/ AtExit
    BY <2>6 DEF TerminatePool, AtExit, KillWorkers
  <2>7. CASE StartPool \/ RespawnWorker
    BY <2>7 DEF StartPool, RespawnWorker, taskVars
  <2>8. ASSUME NEW p \in Pid, ReadIndex(p) \/ BumpIndexAndPin(p) \/ Announce(p)
                              \/ GenerateProgram(p) \/ SweepScratch(p)
        PROVE  EndedOnce'
    BY <2>8 DEF ReadIndex, BumpIndexAndPin, Announce, GenerateProgram, SweepScratch, Acquire, Release,
       Step, taskVars
  <2>9. CASE UNCHANGED <<wst, wtask, st, outcome, wrote>>
    BY <2>9
  <2>10. ASSUME NEW p \in Pid, LockStep(p) PROVE EndedOnce'
    <3>1. PICK m \in LockMove : Step(p, m[1], m[2])
      BY <2>10, LockMoves
    <3>2. /\ m[2] \in {"taken", "running"} \cup Compiling => m[1] \in Compiling
          /\ m[2] \in {"finishing", "sending", "putting"} => m[1] = "sending"
      BY DEF LockMove
    <3>3. UNCHANGED <<wtask, st, outcome, wrote>>
      BY <2>10, LockMoves
    <3> QED
      BY <3>1, <3>2, <3>3 DEF Step
  <2> QED
    BY <2>1, <2>2, <2>3, <2>4, <2>5, <2>6, <2>7, <2>8, <2>9, <2>10
       DEF Next, Main, Work, vars, procVars, taskVars, EndLoop, HandleInterrupt,
       ClearStatus, Cleanup, PrintTable, CtrlC
<1> QED
  BY <1>1, <1>2, TypeCorrect, CustodyInvariant, PTL DEF Spec

-----------------------------------------------------------------------------
\* Some worker is compiling for task t.
Compiled(t) == \E p \in Pid : wtask[p] = t /\ wst[p] \in Compiling

\* A step of a run, or none.
TaskStep(t) == [Run(t)!RunNext]_(Run(t)!runVars)

\* Who is compiling for a task without an outcome holds it.
LEMMA CompiledIsHeld ==
  ASSUME TypeInv, Custody, NEW t \in Task, Compiled(t)
  PROVE  st[t] = "held"
BY SoleHolder DEF Compiled, Holding

\* A step that neither ends the runner of a task, nor loses it, nor starts its
\* compilers is none of its run.
LEMMA NoRunStep ==
  ASSUME NEW t \in Task, outcome'[t] = outcome[t], wrote'[t] = wrote[t],
         outcome[t] # "pending" \/ (/\ st'[t] = "lost" <=> st[t] = "lost"
                                    /\ Compiled(t)' <=> Compiled(t))
  PROVE  TaskStep(t)
<1>1. Phase(t)' = Phase(t)
  BY DEF Phase, Compiled
<1> QED
  BY <1>1 DEF TaskStep, Run!runVars

\* A worker that is killed takes the task along whose runner has not ended.
LEMMA LostStep ==
  ASSUME TypeInv, Custody, NEW t \in Task, st[t] = "held", st'[t] = "lost",
         outcome'[t] = outcome[t], wrote'[t] = wrote[t]
  PROVE  TaskStep(t)
<1>1. CASE outcome[t] # "pending"
  BY <1>1, NoRunStep
<1>2. CASE outcome[t] = "pending"
  <2>1. Phase(t) \in {"idle", "compiling"} /\ Phase(t)' = "killed"
    BY <1>2 DEF Phase
  <2> QED
    BY <2>1 DEF TaskStep, Run!RunNext, Run!Killed
<1> QED
  BY <1>1, <1>2

\* The runner of a task generates its program.
LEMMA GenerateStep ==
  ASSUME TypeInv, Custody, EndedOnce, NEW p \in Pid, GenerateProgram(p), NEW t \in Task
  PROVE  TaskStep(t)
<1> USE DEF TypeInv, TypeOK, TaskTypeOK, WorkerTypeOK
<1>1. /\ wtask[p] \in Task /\ st[wtask[p]] = "held"
      /\ \A q \in Pid : q # p => wtask[q] # wtask[p]
  BY SoleHolder DEF GenerateProgram, Step, Holding, Compiling
<1>2. /\ wst[p] = "running" /\ wst' = [wst EXCEPT ![p] = "compiling"]
      /\ UNCHANGED <<st, outcome, wrote, wtask>>
  BY DEF GenerateProgram, Step, taskVars
<1>3. CASE t = wtask[p]
  <2>1. outcome[t] = "pending"
    BY <1>2, <1>3 DEF EndedOnce
  <2>2. Phase(t) = "idle"
    BY <1>1, <1>2, <1>3, <2>1 DEF Phase, Compiling
  <2>3. Phase(t)' = "compiling"
    BY <1>1, <1>2, <1>3, <2>1 DEF Phase, Compiling
  <2> QED
    BY <1>2, <2>2, <2>3 DEF TaskStep, Run!RunNext, Run!Generate
<1>4. CASE t # wtask[p]
  <2>1. Compiled(t)' <=> Compiled(t)
    BY <1>2, <1>4 DEF Compiled
  <2> QED
    BY <1>2, <2>1, NoRunStep
<1> QED
  BY <1>3, <1>4

\* What the driver lets a runner end with is exactly what a run may end with.
LEMMA EndingsAgree ==
  ASSUME TypeInv, Custody, EndedOnce, NEW p \in Pid, wst[p] \in {"running", "compiling", "printed"}
  PROVE  /\ Phase(wtask[p]) = IF wst[p] = "running" THEN "idle" ELSE "compiling"
         /\ Ending(p, wtask[p]) = Run(wtask[p])!Endings
<1>1. /\ wtask[p] \in Task /\ st[wtask[p]] = "held"
      /\ \A q \in Pid : q # p => wtask[q] # wtask[p]
  BY SoleHolder DEF Holding, Compiling
<1>2. outcome[wtask[p]] = "pending"
  BY DEF EndedOnce, Compiling
<1>3. Phase(wtask[p]) = IF wst[p] = "running" THEN "idle" ELSE "compiling"
  BY <1>1, <1>2 DEF Phase, Compiling
<1>4. Ending(p, wtask[p]) = Run(wtask[p])!Endings
  <2>1. CASE wst[p] = "running"
    BY <1>3, <2>1 DEF Ending, Run!Endings, Run!Exceptions, Error
  <2>2. CASE wst[p] # "running"
    BY <1>3, <2>2 DEF Ending, Run!Endings, Run!Exceptions, Run!Verdicts, Error
  <2> QED
    BY <2>1, <2>2
<1> QED
  BY <1>3, <1>4

\* The runner of a task ends.
LEMMA EndStep ==
  ASSUME TypeInv, Custody, EndedOnce, NEW p \in Pid, EndTask(p), NEW t \in Task
  PROVE  TaskStep(t)
<1> USE DEF TypeInv, TypeOK, TaskTypeOK, WorkerTypeOK
<1>1. /\ wtask[p] \in Task /\ \A q \in Pid : q # p => wtask[q] # wtask[p]
  BY SoleHolder DEF EndTask, Holding, Compiling
<1>2. PICK o \in Outcome, m \in SUBSET CellsOf[wtask[p]] :
        /\ <<o, m>> \in Ending(p, wtask[p])
        /\ outcome' = [outcome EXCEPT ![wtask[p]] = o]
        /\ wrote' = [wrote EXCEPT ![wtask[p]] = m]
  BY EndEffect
<1>3. /\ wst[p] \in {"running", "compiling", "printed"} /\ wst' = [wst EXCEPT ![p] = "finishing"]
      /\ UNCHANGED <<st, wtask>>
  BY DEF EndTask
<1>4. CASE t = wtask[p]
  <2>1. Phase(t) \in {"idle", "compiling"} /\ <<o, m>> \in Run(t)!Endings
    BY <1>2, <1>3, <1>4, EndingsAgree
  <2>2. outcome'[t] = o /\ wrote'[t] = m /\ o # "pending"
    BY <1>2, <1>4 DEF Outcome
  <2>3. Phase(t)' = "over"
    BY <2>2 DEF Phase
  <2> QED
    BY <2>1, <2>2, <2>3 DEF TaskStep, Run!RunNext, Run!End
<1>5. CASE t # wtask[p]
  <2>1. Compiled(t)' <=> Compiled(t)
    BY <1>3, <1>5 DEF Compiled
  <2> QED
    BY <1>1, <1>2, <1>3, <1>5, <2>1, NoRunStep
<1> QED
  BY <1>4, <1>5

\* The driver admits every end of a runner that the abstract run does, and no
\* other: its theorems hold for whatever the runners do within that promise
\* (_run_task as the driver sees it).
THEOREM DriverAdmitsEveryRun ==
  Spec => [](\A p \in Pid : wst[p] \in {"running", "compiling", "printed"} =>
               Ending(p, wtask[p]) = Run(wtask[p])!Endings)
<1>1. TypeInv /\ Custody /\ EndedOnce
      => \A p \in Pid : wst[p] \in {"running", "compiling", "printed"} =>
           Ending(p, wtask[p]) = Run(wtask[p])!Endings
  BY EndingsAgree
<1> QED
  BY <1>1, TypeCorrect, CustodyInvariant, EndedOnceInvariant, PTL

\* Every step of the driver is, for each task, a step of its run or none.
LEMMA TaskSteps ==
  ASSUME TypeInv, Custody, EndedOnce, [Next]_vars, NEW t \in Task
  PROVE  TaskStep(t)
<1> USE DEF TypeInv, TypeOK, TaskTypeOK, WorkerTypeOK
<1>1. ASSUME NEW p \in Pid, EndTask(p) \/ GenerateProgram(p) PROVE TaskStep(t)
  BY <1>1, EndStep, GenerateStep
<1>2. ASSUME NEW p \in Pid, NEW from \in WorkerState, NEW to \in WorkerState, Step(p, from, to),
             from \in Compiling <=> to \in Compiling, wtask' = wtask, UNCHANGED <<st, outcome, wrote>>
      PROVE  TaskStep(t)
  <2>1. Compiled(t)' <=> Compiled(t)
    BY <1>2 DEF Step, Compiled
  <2> QED
    BY <1>2, <2>1, NoRunStep
<1>3. ASSUME NEW p \in Pid, ReadIndex(p) \/ BumpIndexAndPin(p) \/ Announce(p) \/ SweepScratch(p)
      PROVE  TaskStep(t)
  BY <1>2, <1>3 DEF ReadIndex, BumpIndexAndPin, Announce, SweepScratch, Acquire, Release, WorkerState,
     Holding, Compiling, taskVars
<1>12. ASSUME NEW p \in Pid, LockStep(p) PROVE TaskStep(t)
  <2>1. \A m \in LockMove : /\ m[1] \in WorkerState /\ m[2] \in WorkerState
                            /\ m[1] \in Compiling <=> m[2] \in Compiling
    BY DEF LockMove, WorkerState, Holding, Compiling
  <2> QED
    BY <1>2, <1>12, <2>1, LockMoves
<1>4. ASSUME NEW p \in Pid, TakeTask(p) PROVE TaskStep(t)
  <2>1. next \in Task /\ st[next] = "queued"
    BY <1>4, DriverAssumption DEF TakeTask, Custody, QueuedFromNext, Task
  <2>2. /\ st' = [st EXCEPT ![next] = "held"] /\ wtask' = [wtask EXCEPT ![p] = next]
        /\ wst[p] = "waiting" /\ wst' = [wst EXCEPT ![p] = "taken"] /\ UNCHANGED <<outcome, wrote>>
    BY <1>4 DEF TakeTask, Step
  <2>3. Compiled(t)' <=> Compiled(t)
    BY <2>2 DEF Compiled, Compiling
  <2>4. st'[t] = "lost" <=> st[t] = "lost"
    BY <2>1, <2>2
  <2> QED
    BY <2>2, <2>3, <2>4, NoRunStep
<1>5. ASSUME NEW p \in Pid, SendResult(p) PROVE TaskStep(t)
  <2>1. /\ wtask[p] \in Task /\ outcome[wtask[p]] # "pending"
    BY <1>5, SoleHolder DEF SendResult, Step, Holding, Compiling, EndedOnce
  <2>2. /\ st' = [st EXCEPT ![wtask[p]] = "sent"] /\ wtask' = [wtask EXCEPT ![p] = NoTask]
        /\ wst[p] = "putting" /\ wst' = [wst EXCEPT ![p] = "put"] /\ UNCHANGED <<outcome, wrote>>
    BY <1>5 DEF SendResult, Step
  <2>3. t # wtask[p] => (Compiled(t)' <=> Compiled(t)) /\ st'[t] = st[t]
    BY <2>2 DEF Compiled, Compiling
  <2> QED
    BY <2>1, <2>2, <2>3, NoRunStep
<1>6. CASE ConsumeResult \/ ConsumeError
  <2>1. st'[t] = st[t] \/ outcome[t] # "pending"
    BY <1>6, ConsumeMovesHead DEF EndedOnce
  <2>2. UNCHANGED <<outcome, wrote, wst, wtask>>
    BY <1>6 DEF ConsumeResult, ConsumeError, procVars
  <2>3. Compiled(t)' <=> Compiled(t)
    BY <2>2 DEF Compiled
  <2> QED
    BY <2>1, <2>2, <2>3, NoRunStep
<1>7. CASE TerminatePool \/ AtExit
  <2>1. /\ st' = [u \in Task |-> IF st[u] = "held" THEN "lost" ELSE st[u]]
        /\ \A p \in Pid : wst'[p] \notin Compiling /\ UNCHANGED <<outcome, wrote>>
    BY <1>7 DEF TerminatePool, AtExit, KillWorkers, Compiling
  <2>2. CASE st[t] = "held"
    BY <1>7, <2>1, <2>2, LostStep DEF TerminatePool, AtExit
  <2>3. CASE st[t] # "held"
    <3>1. ~Compiled(t) /\ ~Compiled(t)'
      BY <2>1, <2>3, CompiledIsHeld DEF Compiled
    <3> QED
      BY <1>7, <2>1, <2>3, <3>1, NoRunStep DEF TerminatePool, AtExit
  <2> QED
    BY <2>2, <2>3
<1>8. ASSUME NEW p \in Pid, WorkerDies(p) PROVE TaskStep(t)
  <2>1. /\ st' = [u \in Task |-> IF u = wtask[p] THEN "lost" ELSE st[u]]
        /\ wst' = [wst EXCEPT ![p] = "dead"] /\ wtask' = [wtask EXCEPT ![p] = NoTask]
        /\ UNCHANGED <<outcome, wrote>>
    BY <1>8 DEF WorkerDies
  <2>2. CASE t = wtask[p]
    <3>1. st[t] = "held"
      BY <2>2, DriverAssumption DEF Custody, HeldByOne, Task, NoTask
    <3> QED
      BY <2>1, <2>2, <3>1, LostStep
  <2>3. CASE t # wtask[p]
    <3>1. Compiled(t)' <=> Compiled(t)
      BY <2>1, <2>3, DriverAssumption DEF Compiled, Compiling, Task, NoTask
    <3> QED
      BY <2>1, <2>3, <3>1, NoRunStep
  <2> QED
    BY <2>2, <2>3
<1>9. CASE StartPool
  <2>1. \A p \in Pid : wst[p] \notin Compiling /\ wst'[p] \notin Compiling
    BY <1>9 DEF StartPool, Goto, SpawnedExist, Pid, Compiling
  <2>2. Compiled(t)' <=> Compiled(t)
    BY <2>1 DEF Compiled
  <2> QED
    BY <1>9, <2>2, NoRunStep DEF StartPool, taskVars
<1>10. CASE RespawnWorker
  <2>1. spawned + 1 \in Pid /\ wst[spawned + 1] = "absent"
    BY <1>10, DriverAssumption DEF RespawnWorker, SpawnedExist, Pid
  <2>2. Compiled(t)' <=> Compiled(t)
    BY <1>10, <2>1 DEF RespawnWorker, Compiled, Compiling
  <2> QED
    BY <1>10, <2>2, NoRunStep DEF RespawnWorker, taskVars
<1>11. CASE UNCHANGED <<wst, wtask, st, outcome, wrote>>
  <2>1. Compiled(t)' <=> Compiled(t)
    BY <1>11 DEF Compiled
  <2> QED
    BY <1>11, <2>1, NoRunStep
<1> QED
  BY <1>1, <1>3, <1>4, <1>5, <1>6, <1>7, <1>8, <1>9, <1>10, <1>11, <1>12
     DEF Next, Main, Work, vars, procVars, taskVars, EndLoop, HandleInterrupt,
     ClearStatus, Cleanup, PrintTable, CtrlC

\* Every task of the driver is one run of _run_task, whatever dies, is killed or
\* interrupts, and in whichever order the results arrive: it is run at most
\* once, measures only its own cells, and its outcome is final.
THEOREM TaskRunsTheorem == Spec => TaskRuns
<1>1. Init => \A t \in Task : Run(t)!RunInit
  <2> SUFFICES ASSUME Init, NEW t \in Task PROVE Run(t)!RunInit
    OBVIOUS
  <2>1. outcome[t] = "pending" /\ wrote[t] = {} /\ st[t] = "queued"
    BY DEF Init
  <2>2. \A p \in Pid : wst[p] = "absent"
    BY DEF Init
  <2>3. Phase(t) = "idle"
    BY <2>1, <2>2 DEF Phase, Compiling
  <2> QED
    BY <2>1, <2>3 DEF Run!RunInit
<1>2. TypeInv /\ Custody /\ EndedOnce /\ [Next]_vars
      => [\A t \in Task : [Run(t)!RunNext]_(Run(t)!runVars)]_vars
  <2> SUFFICES ASSUME TypeInv, Custody, EndedOnce, [Next]_vars, NEW t \in Task
               PROVE  [Run(t)!RunNext]_(Run(t)!runVars)
    OBVIOUS
  <2> QED
    BY TaskSteps DEF TaskStep
<1> QED
  BY <1>1, <1>2, TypeCorrect, CustodyInvariant, EndedOnceInvariant, PTL DEF Spec, TaskRuns
-----------------------------------------------------------------------------
(***************************************************************************)
(* Every step counts.                                                      *)
(***************************************************************************)
LEMMA LeftRanges ==
  /\ \A s : MainLeft(s) \in 0 .. 8
  /\ \A s : WaitLeft(s) \in 0 .. 4
  /\ \A s : HeldLeft(s) \in 0 .. 12
BY DEF MainLeft, WaitLeft, HeldLeft

\* A subset of a finite set is not larger, and smaller if it misses an element.
LEMMA Shrinks ==
  ASSUME NEW S, NEW R, IsFiniteSet(S), R \subseteq S
  PROVE  /\ Cardinality(R) \in Nat /\ Cardinality(S) \in Nat
         /\ Cardinality(R) <= Cardinality(S)
         /\ R # S => Cardinality(R) < Cardinality(S)
BY FS_Subset, FS_CardinalityType

LEMMA AheadFinite == IsFiniteSet(WaitsAhead) /\ IsFiniteSet(TasksAhead)
<1>1. IsFiniteSet(Pid \X (1 .. 4)) /\ IsFiniteSet(Task \X (1 .. 13))
  <2>1. NTasks \in Int /\ NWorkers + MaxDeaths \in Int
    BY DriverAssumption
  <2>2. IsFiniteSet(Pid) /\ IsFiniteSet(Task) /\ IsFiniteSet(1 .. 4) /\ IsFiniteSet(1 .. 13)
    <3>1. IsFiniteSet(Pid)
      BY <2>1, FS_Interval DEF Pid
    <3>2. IsFiniteSet(Task)
      BY <2>1, FS_Interval DEF Task
    <3>3. \A n \in Int : IsFiniteSet(1 .. n)
      BY FS_Interval
    <3>4. \E m, n \in Int : m = 4 /\ n = 13
      OBVIOUS
    <3>5. IsFiniteSet(1 .. 4) /\ IsFiniteSet(1 .. 13)
      BY <3>3, <3>4
    <3> QED
      BY <3>1, <3>2, <3>5
  <2>3. IsFiniteSet(Pid \X (1 .. 4))
    BY <2>2, FS_Product
  <2>4. IsFiniteSet(Task \X (1 .. 13))
    BY <2>2, FS_Product
  <2> QED
    BY <2>3, <2>4
<1>2. WaitsAhead \subseteq Pid \X (1 .. 4) /\ TasksAhead \subseteq Task \X (1 .. 13)
  BY DEF WaitsAhead, TasksAhead
<1> QED
  BY <1>1, <1>2, FS_Subset

\* The limits hold, and are not exceeded.
Limits ==
  /\ sigints \in 0 .. MaxSigints /\ deaths \in 0 .. MaxDeaths
  /\ spawned \in 0 .. NWorkers + MaxDeaths

\* Nothing that was used up comes back.
NothingReturns ==
  /\ MainLeft(main') <= MainLeft(main)
  /\ sigints' >= sigints /\ deaths' >= deaths /\ spawned' >= spawned
  /\ WaitsAhead' \subseteq WaitsAhead /\ TasksAhead' \subseteq TasksAhead

\* Something is used up.
SomethingUsed ==
  \/ MainLeft(main') < MainLeft(main)
  \/ sigints' > sigints \/ deaths' > deaths \/ spawned' > spawned
  \/ WaitsAhead' # WaitsAhead \/ TasksAhead' # TasksAhead

LEMMA BudgetFalls ==
  ASSUME Limits, Limits', NothingReturns, SomethingUsed
  PROVE  Budget' < Budget /\ Budget' >= 0
<1> DEFINE j == Cardinality(WaitsAhead)
           k == Cardinality(TasksAhead)
<1>1. /\ j \in Nat /\ j' \in Nat /\ j' <= j
      /\ WaitsAhead' # WaitsAhead => j' < j
  BY AheadFinite, Shrinks DEF NothingReturns
<1>2. /\ k \in Nat /\ k' \in Nat /\ k' <= k
      /\ TasksAhead' # TasksAhead => k' < k
  BY AheadFinite, Shrinks DEF NothingReturns
<1>3. MainLeft(main) \in 0 .. 8 /\ MainLeft(main') \in 0 .. 8
  BY LeftRanges
<1>4. /\ Budget = MainLeft(main) + (MaxSigints - sigints) + (MaxDeaths - deaths)
                    + (NWorkers + MaxDeaths - spawned) + j + k
      /\ Budget' = MainLeft(main') + (MaxSigints - sigints') + (MaxDeaths - deaths')
                    + (NWorkers + MaxDeaths - spawned') + j' + k'
  BY DEF Budget
<1> HIDE DEF j, k
<1> QED
  BY <1>1, <1>2, <1>3, <1>4, DriverAssumption DEF Limits, NothingReturns, SomethingUsed

-----------------------------------------------------------------------------
\* A step that only moves worker p on, and its task with it.
LEMMA HolderMovesOn ==
  ASSUME TypeInv, Custody, NEW p \in Pid, NEW s \in Holding, wst[p] \in Holding,
         HeldLeft(s) < HeldLeft(wst[p]), wst' = [wst EXCEPT ![p] = s],
         UNCHANGED <<st, wtask>>
  PROVE  /\ WaitsAhead' = WaitsAhead
         /\ TasksAhead' \subseteq TasksAhead /\ TasksAhead' # TasksAhead
<1> USE DEF TypeInv, TypeOK, WorkerTypeOK
<1>1. /\ wtask[p] \in Task /\ st[wtask[p]] = "held"
      /\ \A q \in Pid : q # p => wtask[q] # wtask[p]
  BY SoleHolder
<1>2. WaitsAhead' = WaitsAhead
  <2>1. WaitLeft(wst'[p]) = WaitLeft(wst[p])
    BY DEF WaitLeft, Holding, Compiling
  <2>2. \A q \in Pid : WaitLeft(wst'[q]) = WaitLeft(wst[q])
    BY <2>1
  <2> QED
    BY <2>2 DEF WaitsAhead
<1>3. \A q \in Pid : HeldLeft(wst'[q]) <= HeldLeft(wst[q])
  BY LeftRanges
<1>4. TasksAhead' \subseteq TasksAhead
  BY <1>3, LeftRanges DEF TasksAhead
<1>5. <<wtask[p], HeldLeft(wst[p])>> \in TasksAhead \ TasksAhead'
  <2> DEFINE n == HeldLeft(wst[p])
  <2>1. n \in 1 .. 13 /\ HeldLeft(s) \in Nat /\ HeldLeft(s) < n
    BY LeftRanges
  <2>2. <<wtask[p], n>> \in TasksAhead
    BY <1>1, <2>1 DEF TasksAhead
  <2>3. \A q \in Pid : wtask'[q] = wtask[p] => HeldLeft(wst'[q]) = HeldLeft(s)
    BY <1>1
  <2> HIDE DEF n
  <2>4. <<wtask[p], n>> \notin TasksAhead'
    BY <1>1, <2>1, <2>3 DEF TasksAhead
  <2> QED
    BY <2>2, <2>4 DEF n
<1> QED
  BY <1>2, <1>4, <1>5

\* A step that leaves the workers and the tasks where they are.
LEMMA NobodyMoves ==
  ASSUME UNCHANGED <<wst, wtask, st>>
  PROVE  WaitsAhead' = WaitsAhead /\ TasksAhead' = TasksAhead
BY DEF WaitsAhead, TasksAhead

\* A worker without a task moves on.
LEMMA IdlerMovesOn ==
  ASSUME TypeInv, NEW p \in Pid, NEW s, wst' = [wst EXCEPT ![p] = s], UNCHANGED <<st, wtask>>,
         WaitLeft(s) < WaitLeft(wst[p]), HeldLeft(s) = HeldLeft(wst[p])
  PROVE  /\ WaitsAhead' \subseteq WaitsAhead /\ WaitsAhead' # WaitsAhead
         /\ TasksAhead' = TasksAhead
<1> USE DEF TypeInv, TypeOK, WorkerTypeOK
<1>1. wst' = [wst EXCEPT ![p] = s] /\ WaitLeft(s) < WaitLeft(wst[p])
  OBVIOUS
<1>2. UNCHANGED <<wtask, st>>
  OBVIOUS
<1>3. HeldLeft(wst'[p]) = HeldLeft(wst[p])
  OBVIOUS
<1>4. TasksAhead' = TasksAhead
  <2>1. \A q \in Pid : HeldLeft(wst'[q]) = HeldLeft(wst[q])
    BY <1>1, <1>3
  <2> QED
    BY <1>2, <2>1 DEF TasksAhead
<1>5. WaitsAhead' \subseteq WaitsAhead
  <2>1. \A q \in Pid : WaitLeft(wst'[q]) <= WaitLeft(wst[q])
    BY <1>1, LeftRanges
  <2> QED
    BY <2>1, LeftRanges DEF WaitsAhead
<1>6. <<p, WaitLeft(wst[p])>> \in WaitsAhead \ WaitsAhead'
  <2> DEFINE n == WaitLeft(wst[p])
  <2>1. n \in 1 .. 4 /\ wst'[p] = s /\ WaitLeft(s) \in Nat /\ WaitLeft(s) < n
    BY <1>1, LeftRanges
  <2> HIDE DEF n
  <2>2. <<p, n>> \in WaitsAhead
    BY <2>1 DEF WaitsAhead, n
  <2>3. <<p, n>> \notin WaitsAhead'
    BY <2>1 DEF WaitsAhead
  <2> QED
    BY <2>2, <2>3 DEF n
<1> QED
  BY <1>4, <1>5, <1>6

\* A worker joins.
LEMMA JoinStep ==
  ASSUME TypeInv, NEW p \in Pid, ReadIndex(p) \/ BumpIndexAndPin(p)
  PROVE  /\ WaitsAhead' \subseteq WaitsAhead /\ WaitsAhead' # WaitsAhead
         /\ TasksAhead' = TasksAhead
<1>1. PICK s \in {"indexing", "idle"} :
        /\ wst' = [wst EXCEPT ![p] = s] /\ WaitLeft(s) < WaitLeft(wst[p])
        /\ HeldLeft(s) = HeldLeft(wst[p])
  BY DEF ReadIndex, BumpIndexAndPin, Acquire, Release, Step, WaitLeft, HeldLeft
<1>2. UNCHANGED <<st, wtask>>
  BY DEF ReadIndex, BumpIndexAndPin, taskVars
<1> QED
  BY <1>1, <1>2, IdlerMovesOn

\* A worker gets a lock, waits for one or gives it back: it moves on, and its
\* task with it if it has one.
LEMMA LockStepCounts ==
  ASSUME TypeInv, Custody, NEW p \in Pid, LockStep(p)
  PROVE  /\ WaitsAhead' \subseteq WaitsAhead /\ TasksAhead' \subseteq TasksAhead
         /\ WaitsAhead' # WaitsAhead \/ TasksAhead' # TasksAhead
<1>1. PICK m \in LockMove : Step(p, m[1], m[2])
  BY LockMoves
<1>2. UNCHANGED <<st, wtask>>
  BY LockMoves
<1>3. CASE m \in {<<"idle", "waiting">>, <<"put", "idle">>}
  <2>1. WaitLeft(m[2]) < WaitLeft(m[1]) /\ HeldLeft(m[2]) = HeldLeft(m[1])
    BY <1>3 DEF WaitLeft, HeldLeft
  <2> QED
    BY <1>1, <1>2, <2>1, IdlerMovesOn DEF Step
<1>4. CASE m \notin {<<"idle", "waiting">>, <<"put", "idle">>}
  <2>1. /\ HeldLeft(m[2]) < HeldLeft(m[1])
        /\ m[1] \in Holding /\ m[2] \in Holding
    BY <1>4 DEF LockMove, HeldLeft, Holding, Compiling
  <2> QED
    BY <1>1, <1>2, <2>1, HolderMovesOn DEF Step
<1> QED
  BY <1>3, <1>4

\* A worker takes a task.
LEMMA TakeStep ==
  ASSUME TypeInv, Custody, NEW p \in Pid, TakeTask(p)
  PROVE  /\ WaitsAhead' = WaitsAhead
         /\ TasksAhead' \subseteq TasksAhead /\ TasksAhead' # TasksAhead
<1> USE DEF TypeInv, TypeOK, TaskTypeOK, WorkerTypeOK
<1>1. next \in Task /\ st[next] = "queued"
  BY DriverAssumption DEF TakeTask, Custody, QueuedFromNext, Task
<1>2. /\ st' = [st EXCEPT ![next] = "held"] /\ wtask' = [wtask EXCEPT ![p] = next]
      /\ wst[p] = "waiting" /\ wst' = [wst EXCEPT ![p] = "taken"]
  BY DEF TakeTask, Step
<1>3. wtask[p] = NoTask /\ \A q \in Pid : wtask[q] # next
  <2>1. wtask[p] = NoTask
    BY <1>2 DEF HoldsWhenBusy, Holding, Compiling
  <2>2. next # NoTask
    BY <1>1, DriverAssumption DEF Task, NoTask
  <2>3. \A q \in Pid : wtask[q] # next
    BY <1>1, <2>2 DEF Custody, HeldByOne
  <2> QED
    BY <2>1, <2>3
<1>4. WaitsAhead' = WaitsAhead
  <2>1. \A q \in Pid : WaitLeft(wst'[q]) = WaitLeft(wst[q])
    BY <1>2 DEF WaitLeft
  <2> QED
    BY <2>1 DEF WaitsAhead
<1>5. TasksAhead' \subseteq TasksAhead
  <2> SUFFICES ASSUME NEW x \in TasksAhead' PROVE x \in TasksAhead
    OBVIOUS
  <2>1. x \in Task \X (1 .. 13)
    BY DEF TasksAhead
  <2>2. CASE x[1] = next
    BY <1>1, <2>1, <2>2 DEF TasksAhead
  <2>3. CASE x[1] # next
    BY <1>1, <1>2, <2>1, <2>3 DEF TasksAhead
  <2> QED
    BY <2>2, <2>3
<1>6. <<next, 13>> \in TasksAhead \ TasksAhead'
  <2>1. <<next, 13>> \in TasksAhead
    BY <1>1 DEF TasksAhead
  <2>2. st'[next] = "held"
    BY <1>1, <1>2
  <2>3. \A q \in Pid : ~(13 <= HeldLeft(wst'[q]))
    <3> SUFFICES ASSUME NEW q \in Pid PROVE ~(13 <= HeldLeft(wst'[q]))
      OBVIOUS
    <3> DEFINE h == HeldLeft(wst'[q])
    <3>1. h \in 0 .. 12
      BY LeftRanges
    <3> HIDE DEF h
    <3>2. ~(13 <= h)
      BY <3>1
    <3> QED
      BY <3>2 DEF h
  <2>4. <<next, 13>> \notin TasksAhead'
    BY <2>2, <2>3 DEF TasksAhead
  <2> QED
    BY <2>1, <2>4
<1> QED
  BY <1>4, <1>5, <1>6

\* A worker sends its result: its task pays for its way back to the queue.
LEMMA SendStep ==
  ASSUME TypeInv, Custody, NEW p \in Pid, SendResult(p)
  PROVE  /\ Cardinality(WaitsAhead) \in Nat /\ Cardinality(TasksAhead) \in Nat
         /\ Cardinality(WaitsAhead') \in Nat /\ Cardinality(TasksAhead') \in Nat
         /\ Cardinality(WaitsAhead') <= Cardinality(WaitsAhead) + 2
         /\ Cardinality(TasksAhead') <= Cardinality(TasksAhead) - 3
<1> USE DEF TypeInv, TypeOK, TaskTypeOK, WorkerTypeOK
<1>1. /\ wst[p] = "putting" /\ wst' = [wst EXCEPT ![p] = "put"]
      /\ st' = [st EXCEPT ![wtask[p]] = "sent"] /\ wtask' = [wtask EXCEPT ![p] = NoTask]
  BY DEF SendResult, Step
<1>2. /\ wtask[p] \in Task /\ st[wtask[p]] = "held" /\ wtask[p] # NoTask
      /\ \A q \in Pid : q # p => wtask[q] # wtask[p]
  <2>1. wst[p] \in Holding
    BY <1>1 DEF Holding
  <2>2. wtask[p] \in Task
    BY <2>1, SoleHolder
  <2> QED
    BY <2>1, <2>2, SoleHolder, DriverAssumption DEF Task, NoTask
<1>3. WaitsAhead' \subseteq (WaitsAhead \cup {<<p, 1>>}) \cup {<<p, 2>>}
  <2> SUFFICES ASSUME NEW x \in WaitsAhead' PROVE x \in (WaitsAhead \cup {<<p, 1>>}) \cup {<<p, 2>>}
    OBVIOUS
  <2>1. x \in Pid \X (1 .. 4) /\ x[2] <= WaitLeft(wst'[x[1]])
    BY DEF WaitsAhead
  <2>2. CASE x[1] = p
    <3>1. WaitLeft(wst'[p]) = 2
      BY <1>1 DEF WaitLeft
    <3>2. x[2] \in {1, 2}
      BY <2>1, <2>2, <3>1
    <3> QED
      BY <2>1, <2>2, <3>2
  <2>3. CASE x[1] # p
    BY <1>1, <2>1, <2>3 DEF WaitsAhead
  <2> QED
    BY <2>2, <2>3
<1>4. HeldLeft(wst[p]) = 4
  BY <1>1 DEF HeldLeft
<1>5. \A n \in {2, 3, 4} : <<wtask[p], n>> \in TasksAhead
  <2> SUFFICES ASSUME NEW n \in {2, 3, 4} PROVE <<wtask[p], n>> \in TasksAhead
    OBVIOUS
  <2>1. n \in 1 .. 13 /\ n <= HeldLeft(wst[p])
    BY <1>4
  <2> QED
    BY <1>2, <2>1 DEF TasksAhead
<1>6. TasksAhead' \subseteq ((TasksAhead \ {<<wtask[p], 2>>}) \ {<<wtask[p], 3>>}) \ {<<wtask[p], 4>>}
  <2> SUFFICES ASSUME NEW x \in TasksAhead'
               PROVE  x \in TasksAhead /\ (x[1] # wtask[p] \/ x[2] = 1)
    OBVIOUS
  <2>1. x \in Task \X (1 .. 13) /\ x[1] # NoTask
    BY DriverAssumption DEF TasksAhead, Task, NoTask
  <2>2. CASE x[1] = wtask[p]
    <3>1. x[2] = 1
      BY <1>1, <1>2, <2>1, <2>2 DEF TasksAhead
    <3> QED
      BY <1>4, <2>1, <2>2, <3>1 DEF TasksAhead
  <2>3. CASE x[1] # wtask[p]
    BY <1>1, <1>2, <2>1, <2>3 DEF TasksAhead
  <2> QED
    BY <2>2, <2>3
<1> HIDE DEF TypeInv, TypeOK, TaskTypeOK, WorkerTypeOK
<1>7. /\ Cardinality(WaitsAhead) \in Nat
      /\ Cardinality(WaitsAhead') \in Nat /\ Cardinality(WaitsAhead') <= Cardinality(WaitsAhead) + 2
  <2> DEFINE V == WaitsAhead \cup {<<p, 1>>}
             W == V \cup {<<p, 2>>}
  <2>1. Cardinality(WaitsAhead) \in Nat
    BY AheadFinite, FS_CardinalityType
  <2>2. IsFiniteSet(V) /\ Cardinality(V) \in {Cardinality(WaitsAhead), Cardinality(WaitsAhead) + 1}
    BY AheadFinite, FS_AddElement
  <2>3. IsFiniteSet(W) /\ Cardinality(W) \in {Cardinality(V), Cardinality(V) + 1}
    BY <2>2, FS_AddElement
  <2>4. WaitsAhead' \subseteq W
    BY <1>3
  <2> HIDE DEF V, W
  <2>5. Cardinality(WaitsAhead') \in Nat /\ Cardinality(WaitsAhead') <= Cardinality(W)
    BY <2>3, <2>4, Shrinks
  <2> QED
    BY <2>1, <2>2, <2>3, <2>5
<1>8. /\ Cardinality(TasksAhead) \in Nat
      /\ Cardinality(TasksAhead') \in Nat /\ Cardinality(TasksAhead') <= Cardinality(TasksAhead) - 3
  <2> DEFINE R == TasksAhead \ {<<wtask[p], 2>>}
             S == R \ {<<wtask[p], 3>>}
             T == S \ {<<wtask[p], 4>>}
  <2>1. Cardinality(TasksAhead) \in Nat
    BY AheadFinite, FS_CardinalityType
  <2>2. IsFiniteSet(R) /\ Cardinality(R) = Cardinality(TasksAhead) - 1
    BY <1>5, AheadFinite, FS_RemoveElement
  <2>3. <<wtask[p], 3>> \in R
    BY <1>5
  <2>4. <<wtask[p], 4>> \in S
    BY <1>5
  <2>5. TasksAhead' \subseteq T
    BY <1>6
  <2> HIDE DEF R
  <2>6. IsFiniteSet(S) /\ Cardinality(S) = Cardinality(R) - 1
    BY <2>2, <2>3, FS_RemoveElement
  <2> HIDE DEF S
  <2>7. IsFiniteSet(T) /\ Cardinality(T) = Cardinality(S) - 1
    BY <2>4, <2>6, FS_RemoveElement
  <2> HIDE DEF T
  <2>8. Cardinality(TasksAhead') \in Nat /\ Cardinality(TasksAhead') <= Cardinality(T)
    BY <2>5, <2>7, Shrinks
  <2> QED
    BY <2>1, <2>2, <2>6, <2>7, <2>8
<1> QED
  BY <1>7, <1>8

\* A result is consumed.
LEMMA ConsumeStep ==
  ASSUME TypeInv, Custody, ConsumeResult \/ ConsumeError
  PROVE  /\ WaitsAhead' = WaitsAhead
         /\ TasksAhead' \subseteq TasksAhead /\ TasksAhead' # TasksAhead
<1>1. wst' = wst /\ wtask' = wtask
  BY DEF ConsumeResult, ConsumeError, procVars
<1>2. \A t \in Task : \/ st'[t] = st[t]
                      \/ st[t] = "sent" /\ st'[t] \in {"merged", "error"}
  BY ConsumeMovesHead
<1>3. PICK t \in Task : st[t] = "sent" /\ st'[t] \in {"merged", "error"}
  <2>1. Head(reports) \in Task /\ st[Head(reports)] = "sent"
    BY HeadIsSent DEF ConsumeResult, ConsumeError
  <2>2. st'[Head(reports)] \in {"merged", "error"}
    BY <2>1 DEF ConsumeResult, ConsumeError, TypeInv, TypeOK, TaskTypeOK
  <2> QED
    BY <2>1, <2>2
<1>4. \A p \in Pid : wtask[p] # t
  BY <1>3, DriverAssumption DEF Custody, HeldByOne, Task, NoTask
<1>5. WaitsAhead' = WaitsAhead
  BY <1>1 DEF WaitsAhead
<1>6. TasksAhead' \subseteq TasksAhead
  BY <1>1, <1>2 DEF TasksAhead
<1>7. <<t, 1>> \in TasksAhead \ TasksAhead'
  BY <1>1, <1>3, <1>4 DEF TasksAhead
<1> QED
  BY <1>5, <1>6, <1>7

\* Workers are killed; a process is started.
LEMMA KillStep ==
  ASSUME TypeInv, KillWorkers \/ \E p \in Pid : WorkerDies(p)
  PROVE  WaitsAhead' \subseteq WaitsAhead /\ TasksAhead' \subseteq TasksAhead
<1> USE DEF TypeInv, TypeOK, TaskTypeOK, WorkerTypeOK
<1>1. \A p \in Pid : wst'[p] = wst[p] \/ wst'[p] = "dead"
  BY DEF KillWorkers, WorkerDies
<1>2. \A p \in Pid : wtask'[p] = NoTask \/ (wtask'[p] = wtask[p] /\ wst'[p] = wst[p])
  BY DEF KillWorkers, WorkerDies
<1>3. \A t \in Task : st'[t] = "lost" \/ st'[t] = st[t]
  BY DEF KillWorkers, WorkerDies
<1>4. WaitsAhead' \subseteq WaitsAhead
  <2>1. \A p \in Pid : WaitLeft(wst'[p]) <= WaitLeft(wst[p])
    <3> SUFFICES ASSUME NEW p \in Pid PROVE WaitLeft(wst'[p]) <= WaitLeft(wst[p])
      OBVIOUS
    <3>1. WaitLeft("dead") = 0
      BY DEF WaitLeft
    <3>2. WaitLeft(wst[p]) \in 0 .. 4
      BY LeftRanges
    <3>3. WaitLeft(wst'[p]) = WaitLeft(wst[p]) \/ WaitLeft(wst'[p]) = 0
      BY <1>1, <3>1
    <3> HIDE DEF TypeInv, TypeOK, TaskTypeOK, WorkerTypeOK
    <3> QED
      BY <3>2, <3>3
  <2> SUFFICES ASSUME NEW x \in WaitsAhead' PROVE x \in WaitsAhead
    OBVIOUS
  <2>2. x \in Pid \X (1 .. 4) /\ x[2] <= WaitLeft(wst'[x[1]])
    BY DEF WaitsAhead
  <2>3. WaitLeft(wst'[x[1]]) \in 0 .. 4 /\ WaitLeft(wst[x[1]]) \in 0 .. 4
    BY LeftRanges
  <2>4. x[1] \in Pid /\ x[2] \in 1 .. 4
    BY <2>2
  <2>5. x[2] <= WaitLeft(wst[x[1]])
    BY <2>1, <2>2, <2>3, <2>4
  <2> QED
    BY <2>2, <2>5 DEF WaitsAhead
<1>5. TasksAhead' \subseteq TasksAhead
  <2> SUFFICES ASSUME NEW x \in TasksAhead' PROVE x \in TasksAhead
    OBVIOUS
  <2>1. x \in Task \X (1 .. 13) /\ x[1] \in Task /\ x[1] # NoTask
    BY DriverAssumption DEF TasksAhead, Task, NoTask
  <2>2. CASE st'[x[1]] = "queued" \/ (st'[x[1]] = "sent" /\ x[2] = 1)
    BY <1>3, <2>1, <2>2 DEF TasksAhead
  <2>3. CASE \E q \in Pid : wtask'[q] = x[1] /\ x[2] <= HeldLeft(wst'[q])
    <3>1. PICK q \in Pid : wtask'[q] = x[1] /\ x[2] <= HeldLeft(wst'[q])
      BY <2>3
    <3>2. wtask[q] = x[1] /\ wst'[q] = wst[q]
      BY <1>2, <2>1, <3>1
    <3> QED
      BY <2>1, <3>1, <3>2 DEF TasksAhead
  <2> QED
    BY <2>2, <2>3 DEF TasksAhead
<1> QED
  BY <1>4, <1>5

LEMMA StartStep ==
  ASSUME TypeInv, StartPool \/ RespawnWorker
  PROVE  WaitsAhead' \subseteq WaitsAhead /\ TasksAhead' = TasksAhead
<1> USE DEF TypeInv, TypeOK, WorkerTypeOK
<1>1. \A p \in Pid : wst'[p] = wst[p] \/ (wst[p] = "absent" /\ wst'[p] = "start")
  BY DriverAssumption DEF StartPool, RespawnWorker, Goto, SpawnedExist, Pid
<1>2. UNCHANGED <<st, wtask>>
  BY DEF StartPool, RespawnWorker, taskVars
<1>3. \A p \in Pid : HeldLeft(wst'[p]) = HeldLeft(wst[p])
  BY <1>1 DEF HeldLeft
<1>4. \A p \in Pid : WaitLeft(wst'[p]) <= WaitLeft(wst[p])
  BY <1>1, LeftRanges DEF WaitLeft
<1> QED
  BY <1>2, <1>3, <1>4, LeftRanges DEF WaitsAhead, TasksAhead
\* The counters and the main thread never go back, and a step of the main
\* thread that leaves its stage takes the next one.
LEMMA MainAndCounters ==
  ASSUME TypeInv, Next
  PROVE  /\ MainLeft(main') <= MainLeft(main)
         /\ sigints' >= sigints /\ deaths' >= deaths /\ spawned' >= spawned
<1> USE DEF TypeInv, TypeOK, MainTypeOK, WorkerTypeOK
<1>1. sigints' = sigints \/ sigints' = sigints + 1
  BY DEF Next, Main, Work, mainVars, ReadIndex, BumpIndexAndPin, LockStep, TakeTask, Announce,
     GenerateProgram, EndTask, SweepScratch, SendResult, StartPool, ConsumeResult,
     ConsumeError, EndLoop, TerminatePool, HandleInterrupt, ClearStatus, Cleanup, PrintTable, AtExit,
     WorkerDies, RespawnWorker, CtrlC
<1>2. deaths' = deaths \/ deaths' = deaths + 1
  BY DEF Next, Main, Work, procVars, ReadIndex, BumpIndexAndPin, LockStep, TakeTask, Announce,
     GenerateProgram, EndTask, SweepScratch, SendResult, StartPool, ConsumeResult,
     ConsumeError, EndLoop, TerminatePool, HandleInterrupt, ClearStatus, Cleanup, PrintTable, AtExit,
     WorkerDies, RespawnWorker, CtrlC
<1>3. spawned' \in {spawned, spawned + 1} \/ (spawned = 0 /\ spawned' = NWorkers)
  BY DEF Next, Main, Work, procVars, ReadIndex, BumpIndexAndPin, LockStep, TakeTask, Announce,
     GenerateProgram, EndTask, SweepScratch, SendResult, StartPool, ConsumeResult,
     ConsumeError, EndLoop, TerminatePool, HandleInterrupt, ClearStatus, Cleanup, PrintTable, AtExit,
     WorkerDies, RespawnWorker, CtrlC, SpawnedExist, Goto
<1>4. \/ main' = main
      \/ main = "setup" /\ main' \in {"pool", "exiting"}
      \/ main = "pool" /\ main' = "unwind"
      \/ main = "unwind" /\ main' \in {"handler", "finally"}
      \/ main = "handler" /\ main' = "finally"
      \/ main = "finally" /\ main' \in {"cleanup", "exiting"}
      \/ main = "cleanup" /\ main' \in {"table", "exiting"}
      \/ main = "table" /\ main' = "exiting"
      \/ main = "exiting" /\ main' = "exited"
  BY DEF Next, Main, Work, mainVars, ReadIndex, BumpIndexAndPin, LockStep, TakeTask, Announce,
     GenerateProgram, EndTask, SweepScratch, SendResult, StartPool, ConsumeResult,
     ConsumeError, EndLoop, TerminatePool, HandleInterrupt, ClearStatus, Cleanup, PrintTable, AtExit,
     WorkerDies, RespawnWorker, CtrlC, InterruptIn, SwallowedIn, Goto
<1>5. MainLeft(main') <= MainLeft(main)
  <2>1. MainLeft(main) \in 0 .. 8
    BY LeftRanges
  <2>2. CASE main' = main
    BY <2>1, <2>2
  <2>3. CASE main' # main
    BY <1>4, <2>3 DEF MainLeft
  <2> QED
    BY <2>2, <2>3
<1> QED
  BY <1>1, <1>2, <1>3, <1>5, DriverAssumption

\* Every step leaves the main thread at its stage or takes it on, moves a worker
\* on, moves a task on, or counts a death, a spawned worker or a Ctrl-C.
LEMMA StepCounts ==
  ASSUME TypeInv, Custody, Next, \A p \in Pid : ~ SendResult(p)
  PROVE  NothingReturns /\ SomethingUsed
<1>0. /\ MainLeft(main') <= MainLeft(main)
      /\ sigints' >= sigints /\ deaths' >= deaths /\ spawned' >= spawned
  BY MainAndCounters
<1>1. CASE \E p \in Pid : ReadIndex(p) \/ BumpIndexAndPin(p)
  BY <1>0, <1>1, JoinStep DEF NothingReturns, SomethingUsed
<1>2. CASE \E p \in Pid : TakeTask(p)
  BY <1>0, <1>2, TakeStep DEF NothingReturns, SomethingUsed
<1>3. CASE \E p \in Pid : LockStep(p)
  BY <1>0, <1>3, LockStepCounts DEF NothingReturns, SomethingUsed
<1>4. CASE \E p \in Pid : Announce(p) \/ GenerateProgram(p) \/ EndTask(p) \/ SweepScratch(p)
  <2>1. PICK p \in Pid : Announce(p) \/ GenerateProgram(p) \/ EndTask(p) \/ SweepScratch(p)
    BY <1>4
  <2>2. UNCHANGED <<st, wtask>>
    BY <2>1 DEF Announce, GenerateProgram, EndTask, SweepScratch, taskVars
  <2>3. PICK s \in Holding : /\ wst[p] \in Holding /\ wst' = [wst EXCEPT ![p] = s]
                             /\ HeldLeft(s) < HeldLeft(wst[p])
    BY <2>1 DEF Announce, GenerateProgram, EndTask, SweepScratch, Release, Step, Holding, Compiling,
       HeldLeft
  <2>4. /\ WaitsAhead' = WaitsAhead
        /\ TasksAhead' \subseteq TasksAhead /\ TasksAhead' # TasksAhead
    BY <2>2, <2>3, HolderMovesOn
  <2> QED
    BY <1>0, <2>4 DEF NothingReturns, SomethingUsed
<1>5. CASE ConsumeResult \/ ConsumeError
  BY <1>0, <1>5, ConsumeStep DEF NothingReturns, SomethingUsed
<1>6. CASE StartPool
  <2>1. WaitsAhead' \subseteq WaitsAhead /\ TasksAhead' = TasksAhead
    BY <1>6, StartStep
  <2>2. MainLeft(main') < MainLeft(main)
    BY <1>6 DEF StartPool, Goto, MainLeft
  <2> QED
    BY <1>0, <2>1, <2>2 DEF NothingReturns, SomethingUsed
<1>7. CASE EndLoop \/ HandleInterrupt \/ ClearStatus \/ Cleanup \/ PrintTable
  <2>1. WaitsAhead' = WaitsAhead /\ TasksAhead' = TasksAhead
    BY <1>7, NobodyMoves DEF EndLoop, HandleInterrupt, ClearStatus, Cleanup, PrintTable, procVars, taskVars
  <2>2. MainLeft(main') < MainLeft(main)
    BY <1>7 DEF EndLoop, HandleInterrupt, ClearStatus, Cleanup, PrintTable, Goto, MainLeft
  <2> QED
    BY <1>0, <2>1, <2>2 DEF NothingReturns, SomethingUsed
<1>8. CASE TerminatePool \/ AtExit
  <2>1. WaitsAhead' \subseteq WaitsAhead /\ TasksAhead' \subseteq TasksAhead
    BY <1>8, KillStep DEF TerminatePool, AtExit
  <2>2. MainLeft(main') < MainLeft(main)
    BY <1>8 DEF TerminatePool, AtExit, Goto, MainLeft
  <2> QED
    BY <1>0, <2>1, <2>2 DEF NothingReturns, SomethingUsed
<1>9. CASE \E p \in Pid : WorkerDies(p)
  <2>1. WaitsAhead' \subseteq WaitsAhead /\ TasksAhead' \subseteq TasksAhead
    BY <1>9, KillStep
  <2>2. deaths' > deaths
    BY <1>9 DEF WorkerDies, TypeInv, TypeOK, WorkerTypeOK
  <2> QED
    BY <1>0, <2>1, <2>2 DEF NothingReturns, SomethingUsed
<1>10. CASE RespawnWorker
  <2>1. WaitsAhead' \subseteq WaitsAhead /\ TasksAhead' = TasksAhead
    BY <1>10, StartStep
  <2>2. spawned' > spawned
    BY <1>10 DEF RespawnWorker, TypeInv, TypeOK, WorkerTypeOK
  <2> QED
    BY <1>0, <2>1, <2>2 DEF NothingReturns, SomethingUsed
<1>11. CASE CtrlC
  <2>1. WaitsAhead' = WaitsAhead /\ TasksAhead' = TasksAhead
    BY <1>11, NobodyMoves DEF CtrlC, procVars, taskVars
  <2>2. sigints' > sigints
    BY <1>11 DEF CtrlC, TypeInv, TypeOK, MainTypeOK
  <2> QED
    BY <1>0, <2>1, <2>2 DEF NothingReturns, SomethingUsed
<1> QED
  BY <1>1, <1>2, <1>3, <1>4, <1>5, <1>6, <1>7, <1>8, <1>9, <1>10, <1>11 DEF Next, Main, Work

\* Every step uses up some of a budget that never goes below zero, so the driver
\* takes finitely many steps whatever its processes do: no task runs twice, no
\* worker joins twice, and the main thread never returns to a stage it left.
THEOREM EveryStepCountsTheorem == Spec => EveryStepCounts
<1>1. TypeInv /\ TypeInv' /\ Custody /\ [Next]_vars => [Budget' < Budget /\ Budget' >= 0]_vars
  <2> SUFFICES ASSUME TypeInv, TypeInv', Custody, Next
               PROVE  Budget' < Budget /\ Budget' >= 0
    OBVIOUS
  <2>1. Limits /\ Limits'
    BY DEF Limits, TypeInv, TypeOK, MainTypeOK, WorkerTypeOK
  <2>2. CASE \E p \in Pid : SendResult(p)
    <3>1. PICK p \in Pid : SendResult(p)
      BY <2>2
    <3>2. UNCHANGED <<main, sigints, deaths, spawned>>
      BY <3>1 DEF SendResult, mainVars
    <3>3. MainLeft(main) \in 0 .. 8
      BY LeftRanges
    <3> DEFINE j == Cardinality(WaitsAhead)
               k == Cardinality(TasksAhead)
    <3>4. j \in Nat /\ k \in Nat /\ j' \in Nat /\ k' \in Nat /\ j' <= j + 2 /\ k' <= k - 3
      BY <3>1, SendStep
    <3>5. /\ Budget = MainLeft(main) + (MaxSigints - sigints) + (MaxDeaths - deaths)
                        + (NWorkers + MaxDeaths - spawned) + j + k
          /\ Budget' = MainLeft(main) + (MaxSigints - sigints) + (MaxDeaths - deaths)
                        + (NWorkers + MaxDeaths - spawned) + j' + k'
      BY <3>2 DEF Budget
    <3> HIDE DEF j, k
    <3> QED
      BY <2>1, <3>3, <3>4, <3>5, DriverAssumption DEF Limits
  <2> QED
    BY <2>1, <2>2, StepCounts, BudgetFalls
<1> QED
  BY <1>1, TypeCorrect, CustodyInvariant, PTL DEF Spec, EveryStepCounts

-----------------------------------------------------------------------------
(***************************************************************************)
(* Only losses block the program.                                          *)
(***************************************************************************)
\* A held task has its holder, a sent one is among the reports.
TasksArePlaced ==
  /\ \A t \in Task : st[t] = "held" => \E p \in Pid : wtask[p] = t
  /\ \A t \in Task : st[t] = "sent" => \E i \in 1 .. Len(reports) : reports[i] = t

\* Where a worker is that has a lock.
HeldIn(l) ==
  CASE l = "init" -> {"indexing"} [] l = "print" -> {"speaking"}
    [] l = "get" -> {"waiting", "taken"} [] l = "put" -> {"putting", "put"} [] OTHER -> {}

\* A lock that is taken is held by a worker in its section, or by one that died
\* there.
LockHolder == \A l \in Lock : holder[l] # NoPid => wst[holder[l]] \in HeldIn(l) \cup {"dead"}

DeadWorkers == {p \in Pid : wst[p] = "dead"}

\* Until terminate() kills them, workers die one at a time and from outside only;
\* in the loop no task was lost without that, and no exception was collected.
OnlyOutsideDeaths ==
  /\ main \in {"setup", "pool", "unwind"} => Cardinality(DeadWorkers) = deaths
  /\ main \in {"setup", "pool"} =>
       \A t \in Task : st[t] # "error" /\ (st[t] = "lost" => deaths > 0)

LEMMA TasksArePlacedInvariant == Spec => []TasksArePlaced
<1>1. Init => TasksArePlaced
  BY DEF Init, TasksArePlaced
<1>2. TypeInv /\ Custody /\ TasksArePlaced /\ [Next]_vars => TasksArePlaced'
  <2> SUFFICES ASSUME TypeInv, Custody, TasksArePlaced, [Next]_vars PROVE TasksArePlaced'
    OBVIOUS
  <2>0. reports \in Seq(Task) /\ st \in [Task -> TaskState] /\ wtask \in [Pid -> Task \cup {NoTask}]
    BY DEF TypeInv, TypeOK, TaskTypeOK, WorkerTypeOK
  <2>1. ASSUME NEW p \in Pid, TakeTask(p) PROVE TasksArePlaced'
    <3>1. /\ next \in Task /\ st' = [st EXCEPT ![next] = "held"]
          /\ wtask' = [wtask EXCEPT ![p] = next] /\ reports' = reports
      BY <2>1, DriverAssumption DEF TakeTask, TypeInv, TypeOK, TaskTypeOK, Task
    <3>2. wtask[p] = NoTask
      BY <2>1 DEF TakeTask, Step, TypeInv, HoldsWhenBusy, Holding, Compiling
    <3>3. ASSUME NEW t \in Task, st'[t] = "held" PROVE \E q \in Pid : wtask'[q] = t
      <4>1. CASE t = next
        BY <2>0, <3>1, <4>1
      <4>2. CASE t # next
        <5>1. PICK q \in Pid : wtask[q] = t
          BY <2>0, <3>1, <3>3, <4>2 DEF TasksArePlaced
        <5>2. q # p
          BY <3>2, <5>1, DriverAssumption DEF Task, NoTask
        <5> QED
          BY <2>0, <3>1, <5>1, <5>2
      <4> QED
        BY <4>1, <4>2
    <3>4. \A t \in Task : st'[t] = "sent" => st[t] = "sent"
      BY <2>0, <3>1
    <3> QED
      BY <3>1, <3>3, <3>4 DEF TasksArePlaced
  <2>2. ASSUME NEW p \in Pid, SendResult(p) PROVE TasksArePlaced'
    <3>1. wtask[p] \in Task
      BY <2>2 DEF SendResult, Step, TypeInv, TypeOK, WorkerTypeOK, HoldsWhenBusy, Holding, NoTask
    <3>2. /\ st' = [st EXCEPT ![wtask[p]] = "sent"] /\ wtask' = [wtask EXCEPT ![p] = NoTask]
          /\ Len(reports') = Len(reports) + 1 /\ reports'[Len(reports) + 1] = wtask[p]
          /\ \A i \in 1 .. Len(reports) : reports'[i] = reports[i]
          /\ Len(reports) \in Nat
      BY <2>0, <2>2, <3>1 DEF SendResult
    <3>3. ASSUME NEW t \in Task, st'[t] = "held" PROVE \E q \in Pid : wtask'[q] = t
      <4>1. t # wtask[p] /\ st[t] = "held"
        BY <2>0, <3>1, <3>2, <3>3
      <4>2. PICK q \in Pid : wtask[q] = t
        BY <4>1 DEF TasksArePlaced
      <4> QED
        BY <2>0, <3>2, <4>1, <4>2
    <3>4. ASSUME NEW t \in Task, st'[t] = "sent"
          PROVE  \E i \in 1 .. Len(reports') : reports'[i] = t
      <4>1. CASE t = wtask[p]
        <5>1. Len(reports) + 1 \in 1 .. Len(reports')
          BY <3>2
        <5> QED
          BY <3>2, <4>1, <5>1
      <4>2. CASE t # wtask[p]
        <5>1. PICK i \in 1 .. Len(reports) : reports[i] = t
          BY <2>0, <3>1, <3>2, <3>4, <4>2 DEF TasksArePlaced
        <5>2. i \in 1 .. Len(reports') /\ reports'[i] = t
          BY <3>2, <5>1
        <5> QED
          BY <5>2
      <4> QED
        BY <4>1, <4>2
    <3> QED
      BY <3>3, <3>4 DEF TasksArePlaced
  <2>3. ASSUME NEW p \in Pid, WorkerDies(p) PROVE TasksArePlaced'
    <3>1. /\ \A t \in Task : st'[t] = IF t = wtask[p] THEN "lost" ELSE st[t]
          /\ wtask' = [wtask EXCEPT ![p] = NoTask] /\ reports' = reports
      BY <2>3 DEF WorkerDies
    <3>2. ASSUME NEW t \in Task, st'[t] = "held" PROVE \E q \in Pid : wtask'[q] = t
      <4>1. t # wtask[p] /\ st[t] = "held"
        BY <3>1, <3>2
      <4>2. PICK q \in Pid : wtask[q] = t
        BY <4>1 DEF TasksArePlaced
      <4> QED
        BY <2>0, <3>1, <4>1, <4>2
    <3>3. \A t \in Task : st'[t] = "sent" => st[t] = "sent"
      BY <3>1
    <3> QED
      BY <3>1, <3>2, <3>3 DEF TasksArePlaced
  <2>4. CASE ConsumeResult \/ ConsumeError
    <3>1. /\ reports # <<>> /\ reports' = Tail(reports) /\ wtask' = wtask
          /\ \E s \in {"merged", "error"} : st' = [st EXCEPT ![Head(reports)] = s]
      BY <2>4 DEF ConsumeResult, ConsumeError, procVars
    <3>2. Head(reports) = reports[1] /\ reports[1] \in Task
      BY <3>1, HeadIsSent
    <3>3. \A t \in Task : st'[t] \in {"held", "sent"} => t # reports[1] /\ st'[t] = st[t]
      BY <2>0, <3>1, <3>2
    <3>4. ASSUME NEW t \in Task, st'[t] = "sent"
          PROVE  \E i \in 1 .. Len(reports') : reports'[i] = t
      <4>1. PICK i \in 1 .. Len(reports) : reports[i] = t
        BY <3>3, <3>4 DEF TasksArePlaced
      <4>2. i # 1
        BY <3>3, <3>4, <4>1
      <4>3. Len(reports') = Len(reports) - 1 /\ Len(reports) \in Nat
            /\ \A j \in 1 .. Len(reports') : reports'[j] = reports[j + 1]
        BY <2>0, <3>1
      <4>4. i - 1 \in 1 .. Len(reports') /\ (i - 1) + 1 = i
        BY <4>1, <4>2, <4>3
      <4> QED
        BY <4>1, <4>3, <4>4
    <3> QED
      BY <3>1, <3>3, <3>4 DEF TasksArePlaced
  <2>5. CASE TerminatePool \/ AtExit
    <3>1. /\ \A t \in Task : st'[t] # "held" /\ (st'[t] = "sent" => st[t] = "sent")
          /\ reports' = reports
      BY <2>5 DEF TerminatePool, AtExit, KillWorkers
    <3> QED
      BY <3>1 DEF TasksArePlaced
  <2>6. CASE UNCHANGED custodyVars
    BY <2>6 DEF custodyVars, TasksArePlaced
  <2> QED
    BY CustodySteps, <2>1, <2>2, <2>3, <2>4, <2>5, <2>6
<1> QED
  BY <1>1, <1>2, TypeCorrect, CustodyInvariant, PTL DEF Spec

\* A worker moves on, into a section with its lock, within it or out of it.
LEMMA WorkerKeepsLocks ==
  ASSUME TypeInv, LockHolder, NEW p \in Pid, NEW to, wst[p] # "dead",
         wst' = [wst EXCEPT ![p] = to],
         \A l \in Lock : \/ holder'[l] = NoPid
                         \/ holder'[l] = p /\ to \in HeldIn(l)
                         \/ holder'[l] = holder[l] /\ (wst[p] \in HeldIn(l) => to \in HeldIn(l))
  PROVE  LockHolder'
<1> USE DEF TypeInv, TypeOK, WorkerTypeOK
<1> SUFFICES ASSUME NEW l \in Lock, holder'[l] # NoPid
             PROVE  wst'[holder'[l]] \in HeldIn(l) \cup {"dead"}
  BY DEF LockHolder
<1>1. CASE holder'[l] = p /\ to \in HeldIn(l)
  BY <1>1
<1>2. CASE holder'[l] = holder[l] /\ (wst[p] \in HeldIn(l) => to \in HeldIn(l))
  <2>1. wst[holder[l]] \in HeldIn(l) \cup {"dead"} /\ holder[l] \in Pid
    BY <1>2 DEF LockHolder
  <2> QED
    BY <1>2, <2>1
<1> QED
  BY <1>1, <1>2

LEMMA LockHolderInvariant == Spec => []LockHolder
<1>1. Init => LockHolder
  BY DEF Init, LockHolder
<1>2. TypeInv /\ LockHolder /\ [Next]_vars => LockHolder'
  <2> SUFFICES ASSUME TypeInv, LockHolder, [Next]_vars PROVE LockHolder'
    OBVIOUS
  <2>0. wst \in [Pid -> WorkerState] /\ holder \in [Lock -> Pid \cup {NoPid}]
    BY DEF TypeInv, TypeOK, WorkerTypeOK
  <2>1. ASSUME NEW p \in Pid, NEW l \in Lock, NEW from, NEW to, Acquire(p, l, from, to),
               from # "dead", to \in HeldIn(l), \A k \in Lock : from \notin HeldIn(k)
        PROVE  LockHolder'
    BY <2>0, <2>1, WorkerKeepsLocks DEF Acquire, Step
  <2>2. ASSUME NEW p \in Pid, NEW l \in Lock, NEW from, NEW to, Release(p, l, from, to),
               from # "dead", \A k \in Lock \ {l} : from \notin HeldIn(k)
        PROVE  LockHolder'
    BY <2>0, <2>2, WorkerKeepsLocks DEF Release, Step
  <2>3. ASSUME NEW p \in Pid, NEW to, wst[p] # "dead", wst' = [wst EXCEPT ![p] = to],
               holder' = holder, \A k \in Lock : wst[p] \in HeldIn(k) => to \in HeldIn(k)
        PROVE  LockHolder'
    BY <2>0, <2>3, WorkerKeepsLocks
  <2>4. ASSUME NEW p \in Pid, ReadIndex(p) \/ AwaitTask(p) \/ BeginPrint(p) \/ BeginPut(p)
        PROVE  LockHolder'
    <3>1. CASE ReadIndex(p)
      BY <2>1, <3>1 DEF ReadIndex, HeldIn, Lock
    <3>2. CASE AwaitTask(p)
      BY <2>1, <3>2 DEF AwaitTask, HeldIn, Lock
    <3>3. CASE BeginPrint(p)
      BY <2>1, <3>3 DEF BeginPrint, HeldIn, Lock
    <3>4. CASE BeginPut(p)
      BY <2>1, <3>4 DEF BeginPut, HeldIn, Lock
    <3> QED
      BY <2>4, <3>1, <3>2, <3>3, <3>4
  <2>5. ASSUME NEW p \in Pid, BumpIndexAndPin(p) \/ Announce(p) \/ EndPrint(p) \/ EndPut(p)
        PROVE  LockHolder'
    <3>1. CASE BumpIndexAndPin(p)
      BY <2>2, <3>1 DEF BumpIndexAndPin, HeldIn, Lock
    <3>2. CASE Announce(p)
      BY <2>2, <3>2 DEF Announce, HeldIn, Lock
    <3>3. CASE EndPrint(p)
      BY <2>2, <3>3 DEF EndPrint, HeldIn, Lock
    <3>4. CASE EndPut(p)
      BY <2>2, <3>4 DEF EndPut, HeldIn, Lock
    <3> QED
      BY <2>5, <3>1, <3>2, <3>3, <3>4
  <2>6. ASSUME NEW p \in Pid,
               \/ WantPrint(p) \/ TakeTask(p) \/ GenerateProgram(p) \/ EndTask(p)
               \/ SweepScratch(p) \/ SendResult(p)
        PROVE  LockHolder'
    <3>1. PICK to : /\ wst[p] # "dead" /\ wst' = [wst EXCEPT ![p] = to] /\ holder' = holder
                    /\ \A k \in Lock : wst[p] \in HeldIn(k) => to \in HeldIn(k)
      <4>1. CASE WantPrint(p)
        BY <4>1 DEF WantPrint, Step, HeldIn, Lock
      <4>2. CASE TakeTask(p)
        BY <4>2 DEF TakeTask, Step, initVars, HeldIn, Lock
      <4>3. CASE GenerateProgram(p)
        BY <4>3 DEF GenerateProgram, Step, initVars, HeldIn, Lock
      <4>4. CASE EndTask(p)
        BY <4>4 DEF EndTask, initVars, HeldIn, Lock
      <4>5. CASE SweepScratch(p)
        BY <4>5 DEF SweepScratch, Step, initVars, HeldIn, Lock
      <4>6. CASE SendResult(p)
        BY <4>6 DEF SendResult, Step, initVars, HeldIn, Lock
      <4> QED
        BY <2>6, <4>1, <4>2, <4>3, <4>4, <4>5, <4>6
    <3> QED
      BY <2>3, <3>1
  <2>7. CASE StartPool \/ RespawnWorker
    <3>1. /\ holder' = holder
          /\ \A q \in Pid : wst[q] # "absent" => wst'[q] = wst[q]
      <4>1. CASE StartPool
        BY <4>1 DEF StartPool, Goto, TypeInv, SpawnedExist, initVars, Pid
      <4>2. CASE RespawnWorker
        BY <2>0, <4>2 DEF RespawnWorker, TypeInv, TypeOK, WorkerTypeOK, SpawnedExist, initVars, Pid
      <4> QED
        BY <2>7, <4>1, <4>2
    <3>2. \A l \in Lock : "absent" \notin HeldIn(l)
      BY DEF HeldIn
    <3>3. ASSUME NEW l \in Lock, holder[l] # NoPid
          PROVE  wst'[holder[l]] \in HeldIn(l) \cup {"dead"}
      <4>1. holder[l] \in Pid /\ wst[holder[l]] \in HeldIn(l) \cup {"dead"}
        BY <2>0, <3>3 DEF LockHolder
      <4> QED
        BY <3>1, <3>2, <4>1
    <3> QED
      BY <3>1, <3>3 DEF LockHolder
  <2>8. CASE TerminatePool \/ AtExit \/ \E p \in Pid : WorkerDies(p)
    <3>1. /\ holder' = holder
          /\ \A q \in Pid : wst[q] # "absent" => wst'[q] \in {wst[q], "dead"}
      BY <2>0, <2>8 DEF TerminatePool, AtExit, KillWorkers, WorkerDies, initVars
    <3>2. \A l \in Lock : "absent" \notin HeldIn(l)
      BY DEF HeldIn
    <3>3. ASSUME NEW l \in Lock, holder[l] # NoPid
          PROVE  wst'[holder[l]] \in HeldIn(l) \cup {"dead"}
      <4>1. holder[l] \in Pid /\ wst[holder[l]] \in HeldIn(l) \cup {"dead"}
        BY <2>0, <3>3 DEF LockHolder
      <4> QED
        BY <3>1, <3>2, <4>1
    <3> QED
      BY <3>1, <3>3 DEF LockHolder
  <2>9. CASE UNCHANGED <<holder, wst>>
    BY <2>9 DEF LockHolder
  <2> QED
    BY <2>4, <2>5, <2>6, <2>7, <2>8, <2>9
       DEF Next, Main, Work, LockStep, vars, procVars, initVars, ConsumeResult, ConsumeError,
           EndLoop, HandleInterrupt, ClearStatus, Cleanup, PrintTable, CtrlC
<1> QED
  BY <1>1, <1>2, TypeCorrect, PTL DEF Spec

LEMMA DeadAreFinite == IsFiniteSet(DeadWorkers)
<1>1. NWorkers + MaxDeaths \in Int
  BY DriverAssumption
<1>2. IsFiniteSet(Pid) /\ DeadWorkers \subseteq Pid
  BY <1>1, FS_Interval DEF Pid, DeadWorkers
<1> QED
  BY <1>2, FS_Subset

\* A worker that was killed before the pool was terminated was killed from outside.
LEMMA DeadIsOutside ==
  ASSUME TypeInv, OnlyOutsideDeaths, main \in {"setup", "pool", "unwind"}, DeadWorkers # {}
  PROVE  deaths > 0
<1>1. deaths \in Nat /\ Cardinality(DeadWorkers) = deaths
  BY DriverAssumption DEF OnlyOutsideDeaths, TypeInv, TypeOK, WorkerTypeOK
<1>2. Cardinality(DeadWorkers) = 0 <=> DeadWorkers = {}
  BY DeadAreFinite, FS_EmptySet
<1> QED
  BY <1>1, <1>2

\* The steps that let a worker die are those that kill one or all.
LEMMA WhoDies ==
  ASSUME TypeInv, [Next]_vars, ~ TerminatePool, ~ AtExit, \A p \in Pid : ~ WorkerDies(p)
  PROVE  deaths' = deaths /\ DeadWorkers' = DeadWorkers
<1>0. wst \in [Pid -> WorkerState]
  BY DEF TypeInv, TypeOK, WorkerTypeOK
<1>1. CASE \E p \in Pid : Work(p)
  <2>1. PICK p \in Pid : Work(p)
    BY <1>1
  <2>2. deaths' = deaths
    BY <2>1 DEF Work, ReadIndex, BumpIndexAndPin, LockStep, TakeTask, Announce, GenerateProgram,
       EndTask, SweepScratch, SendResult
  <2>3. \E to : wst[p] # "dead" /\ to # "dead" /\ wst' = [wst EXCEPT ![p] = to]
    <3>1. CASE LockStep(p)
      <4>1. PICK m \in LockMove : Step(p, m[1], m[2])
        BY <3>1, LockMoves
      <4>2. m[1] # "dead" /\ m[2] # "dead"
        BY DEF LockMove
      <4> QED
        BY <4>1, <4>2 DEF Step
    <3>2. CASE ~ LockStep(p)
      BY <2>1, <3>2 DEF Work, ReadIndex, BumpIndexAndPin, TakeTask, Announce, GenerateProgram,
         EndTask, SweepScratch, SendResult, Acquire, Release, Step
    <3> QED
      BY <3>1, <3>2
  <2> QED
    BY <1>0, <2>2, <2>3 DEF DeadWorkers
<1>2. CASE StartPool
  <2>1. \A p \in Pid : wst[p] = "absent"
    BY <1>2 DEF StartPool, Goto, TypeInv, SpawnedExist, Pid
  <2> QED
    BY <1>2, <2>1 DEF StartPool, DeadWorkers
<1>3. CASE RespawnWorker
  <2>1. spawned + 1 \in Pid /\ wst[spawned + 1] = "absent"
    BY <1>3, DriverAssumption DEF RespawnWorker, TypeInv, TypeOK, WorkerTypeOK, SpawnedExist, Pid
  <2> QED
    BY <1>0, <1>3, <2>1 DEF RespawnWorker, DeadWorkers
<1>4. CASE UNCHANGED <<wst, deaths>>
  BY <1>4 DEF DeadWorkers
<1> QED
  BY <1>1, <1>2, <1>3, <1>4
     DEF Next, Main, vars, procVars, ConsumeResult, ConsumeError, EndLoop, HandleInterrupt,
         ClearStatus, Cleanup, PrintTable, CtrlC

LEMMA OnlyOutsideDeathsInvariant == Spec => []OnlyOutsideDeaths
<1>1. Init => OnlyOutsideDeaths
  <2> SUFFICES ASSUME Init PROVE OnlyOutsideDeaths
    OBVIOUS
  <2>1. DeadWorkers = {}
    BY DEF Init, DeadWorkers
  <2>2. Cardinality(DeadWorkers) = 0
    BY <2>1, FS_EmptySet
  <2> QED
    BY <2>2 DEF Init, OnlyOutsideDeaths
<1>2. TypeInv /\ Custody /\ OnlyOutsideDeaths /\ [Next]_vars => OnlyOutsideDeaths'
  <2> SUFFICES ASSUME TypeInv, Custody, OnlyOutsideDeaths, [Next]_vars PROVE OnlyOutsideDeaths'
    OBVIOUS
  <2>0. /\ wst \in [Pid -> WorkerState] /\ st \in [Task -> TaskState]
        /\ wtask \in [Pid -> Task \cup {NoTask}] /\ deaths \in Nat
    BY DriverAssumption DEF TypeInv, TypeOK, TaskTypeOK, WorkerTypeOK
  <2>1. \/ main' = main
        \/ main = "setup" /\ main' \in {"pool", "exiting"}
        \/ main = "pool" /\ main' = "unwind"
        \/ main' \notin {"setup", "pool", "unwind"}
    BY DEF Next, Main, Work, vars, mainVars, ReadIndex, BumpIndexAndPin, LockStep, TakeTask,
       Announce, GenerateProgram, EndTask, SweepScratch, SendResult, StartPool, ConsumeResult,
       ConsumeError, EndLoop, TerminatePool, HandleInterrupt, ClearStatus, Cleanup, PrintTable,
       AtExit, WorkerDies, RespawnWorker, CtrlC, InterruptIn, SwallowedIn, Goto
  <2>2. ASSUME main' \in {"setup", "pool", "unwind"} PROVE Cardinality(DeadWorkers') = deaths'
    <3>1. Cardinality(DeadWorkers) = deaths
      BY <2>1, <2>2 DEF OnlyOutsideDeaths
    <3>2. ASSUME NEW p \in Pid, WorkerDies(p) PROVE Cardinality(DeadWorkers') = deaths'
      <4>1. DeadWorkers' = DeadWorkers \cup {p} /\ p \notin DeadWorkers
        BY <2>0, <3>2 DEF WorkerDies, DeadWorkers
      <4>2. Cardinality(DeadWorkers') = Cardinality(DeadWorkers) + 1
        BY <4>1, DeadAreFinite, FS_AddElement
      <4> QED
        BY <3>1, <3>2, <4>2 DEF WorkerDies
    <3>3. ~ TerminatePool /\ ~ AtExit
      BY <2>2 DEF TerminatePool, AtExit, Goto
    <3> QED
      BY <3>1, <3>2, <3>3, WhoDies
  <2>3. ASSUME main' \in {"setup", "pool"}
        PROVE  \A t \in Task : st'[t] # "error" /\ (st'[t] = "lost" => deaths' > 0)
    <3>1. \A t \in Task : st[t] # "error" /\ (st[t] = "lost" => deaths > 0)
      BY <2>1, <2>3 DEF OnlyOutsideDeaths
    <3>2. ASSUME NEW p \in Pid, WorkerDies(p)
          PROVE  \A t \in Task : st'[t] # "error" /\ (st'[t] = "lost" => deaths' > 0)
      <4>1. deaths' = deaths + 1 /\ \A t \in Task : st'[t] \in {st[t], "lost"}
        BY <3>2 DEF WorkerDies
      <4> QED
        BY <2>0, <3>1, <4>1
    <3>3. ASSUME \A p \in Pid : ~ WorkerDies(p)
          PROVE  \A t \in Task : st'[t] # "error" /\ (st'[t] = "lost" => deaths' > 0)
      <4>1. ~ TerminatePool /\ ~ AtExit /\ ~ ConsumeError
        BY <2>3 DEF TerminatePool, AtExit, ConsumeError, Goto
      <4>2. deaths' = deaths
        BY <3>3, <4>1, WhoDies
      <4>3. \A t \in Task : st'[t] = st[t] \/ st'[t] \in {"held", "sent", "merged"}
        <5>1. ASSUME NEW p \in Pid, TakeTask(p) \/ SendResult(p) PROVE
                \A t \in Task : st'[t] = st[t] \/ st'[t] \in {"held", "sent"}
          BY <2>0, <5>1 DEF TakeTask, SendResult
        <5>2. CASE ConsumeResult
          BY <2>0, <5>2 DEF ConsumeResult
        <5> QED
          BY <3>3, <4>1, <5>1, <5>2, CustodySteps DEF custodyVars
      <4> QED
        BY <3>1, <4>2, <4>3
    <3> QED
      BY <3>2, <3>3
  <2> QED
    BY <2>2, <2>3 DEF OnlyOutsideDeaths
<1> QED
  BY <1>1, <1>2, TypeCorrect, CustodyInvariant, PTL DEF Spec

\* While the pool is at full strength one of its workers is alive.
LEMMA SomeWorkerLives ==
  ASSUME TypeInv, OnlyOutsideDeaths, main = "pool", spawned >= NWorkers + deaths
  PROVE  \E p \in Pid : wst[p] \notin {"absent", "dead"}
<1> SUFFICES ASSUME \A p \in Pid : wst[p] \in {"absent", "dead"} PROVE FALSE
  OBVIOUS
<1>1. spawned \in Nat /\ deaths \in Nat /\ spawned > deaths /\ spawned <= NWorkers + MaxDeaths
  BY DriverAssumption DEF TypeInv, TypeOK, WorkerTypeOK
<1>2. DeadWorkers = 1 .. spawned
  <2>1. \A p \in Pid : wst[p] = "dead" <=> p <= spawned
    BY <1>1, DriverAssumption DEF TypeInv, SpawnedExist, Pid
  <2> QED
    BY <1>1, <2>1, DriverAssumption DEF DeadWorkers, Pid
<1>3. Cardinality(1 .. spawned) = spawned
  BY <1>1, FS_Interval
<1> QED
  BY <1>1, <1>2, <1>3 DEF OnlyOutsideDeaths

\* Where neither the main thread nor any worker nor the pool's maintenance can
\* step, main() is done, or waits for what a killed worker took with it: its task
\* or a lock in the loop, a queue's lock in terminate(), the print lock
\* where main prints.  No other wait of the program lasts for ever.
THEOREM OnlyLossesBlockTheorem == Spec => []OnlyLossesBlock
<1>1. TypeInv /\ Custody /\ CountsMerged /\ TasksArePlaced /\ LockHolder /\ OnlyOutsideDeaths
      => OnlyLossesBlock
  <2> SUFFICES ASSUME TypeInv, Custody, CountsMerged, TasksArePlaced, LockHolder,
                      OnlyOutsideDeaths, Blocked, main # "exited"
               PROVE  ExplainedWait
    BY DEF OnlyLossesBlock
  <2>0. /\ wst \in [Pid -> WorkerState] /\ st \in [Task -> TaskState]
        /\ holder \in [Lock -> Pid \cup {NoPid}] /\ next \in 1 .. NTasks + 1
        /\ main \in MainState
    BY DEF TypeInv, TypeOK, MainTypeOK, TaskTypeOK, WorkerTypeOK
  <2>1. ASSUME NEW l \in Lock, Lost(l) PROVE DeadWorkers # {}
    <3>1. holder[l] \in Pid /\ wst[holder[l]] = "dead"
      BY <2>0, <2>1 DEF Lost
    <3> QED
      BY <3>1 DEF DeadWorkers
  <2>2. \A p \in Pid : wst[p] \in {"absent", "start", "idle", "waiting", "printing", "sending", "dead"}
    BY DEF Blocked
  <2>3. ASSUME NEW l \in Lock, holder[l] # NoPid, ~ Lost(l)
        PROVE  l = "get" /\ wst[holder[l]] = "waiting"
    <3>1. holder[l] \in Pid /\ wst[holder[l]] \in HeldIn(l)
      BY <2>0, <2>3 DEF LockHolder, Lost
    <3> QED
      BY <2>2, <3>1 DEF HeldIn, Lock
  <2>4. CASE main = "pool"
    <3>1. reports = <<>> /\ completed # NTasks /\ spawned >= NWorkers + deaths
      BY <2>4 DEF Blocked
    <3>2. CASE \E l \in Lock : Lost(l)
      <4>1. deaths > 0
        BY <2>1, <2>4, <3>2, DeadIsOutside
      <4> QED
        BY <2>4, <3>2, <4>1 DEF ExplainedWait
    <3>3. CASE ~ \E l \in Lock : Lost(l)
      <4>1. \A l \in Lock : holder[l] # NoPid => l = "get" /\ wst[holder[l]] = "waiting"
        BY <2>3, <3>3
      <4>2. \A p \in Pid : wst[p] \in {"absent", "idle", "waiting", "dead"}
        BY <2>2, <4>1 DEF Blocked, Lock
      <4>3. PICK p \in Pid : wst[p] \notin {"absent", "dead"}
        BY <2>4, <3>1, SomeWorkerLives
      <4>4. \E q \in Pid : wst[q] = "waiting"
        <5>1. CASE wst[p] = "idle"
          <6>1. holder["get"] # NoPid /\ "get" \in Lock
            BY <5>1 DEF Blocked, Lock
          <6>2. holder["get"] \in Pid
            BY <2>0, <6>1
          <6> QED
            BY <4>1, <6>1, <6>2
        <5> QED
          BY <4>2, <4>3, <5>1
      <4>5. next > NTasks
        BY <4>4 DEF Blocked
      <4>6. \A t \in Task : st[t] # "error" /\ (st[t] = "lost" => deaths > 0)
        BY <2>4 DEF OnlyOutsideDeaths
      <4>7. \A t \in Task : st[t] # "held"
        <5> SUFFICES ASSUME NEW t \in Task, st[t] = "held" PROVE FALSE
          OBVIOUS
        <5>1. PICK q \in Pid : wtask[q] = t
          BY DEF TasksArePlaced
        <5>2. wst[q] \in Holding
          BY <5>1, DriverAssumption DEF TypeInv, HoldsWhenBusy, Task, NoTask
        <5> QED
          BY <4>2, <5>2 DEF Holding, Compiling
      <4>8. \A t \in Task : st[t] # "sent"
        BY <3>1 DEF TasksArePlaced
      <4>9. \A t \in Task : st[t] # "queued"
        BY <2>0, <4>5, DriverAssumption DEF Custody, QueuedFromNext, Task
      <4>10. \A t \in Task : st[t] \in {"merged", "lost"}
        BY <2>0, <4>6, <4>7, <4>8, <4>9 DEF TaskState
      <4>11. deaths > 0
        <5> SUFFICES ASSUME ~ deaths > 0 PROVE FALSE
          OBVIOUS
        <5>1. Merged = Task
          BY <4>6, <4>10 DEF Merged
        <5>2. Cardinality(1 .. NTasks) = NTasks
          BY FS_Interval, DriverAssumption
        <5> QED
          BY <3>1, <5>1, <5>2 DEF CountsMerged, Task
      <4> QED
        BY <2>4, <4>10, <4>11 DEF ExplainedWait
    <3> QED
      BY <3>2, <3>3
  <2>5. CASE main = "unwind"
    <3>1. Lost("get") \/ Lost("put")
      BY <2>5 DEF Blocked
    <3>2. deaths > 0
      BY <2>1, <2>5, <3>1, DeadIsOutside DEF Lock
    <3> QED
      BY <2>5, <3>1, <3>2 DEF ExplainedWait
  <2>6. CASE main \in {"handler", "finally", "table"}
    <3>1. holder["print"] # NoPid /\ "print" \in Lock
      BY <2>6 DEF Blocked, Lock
    <3>2. Lost("print")
      BY <2>3, <3>1
    <3> QED
      BY <2>6, <3>2 DEF ExplainedWait
  <2> QED
    BY <2>0, <2>4, <2>5, <2>6 DEF Blocked, MainState
<1> QED
  BY <1>1, TypeCorrect, CustodyInvariant, CountInvariant, TasksArePlacedInvariant,
     LockHolderInvariant, OnlyOutsideDeathsInvariant, PTL

=============================================================================
