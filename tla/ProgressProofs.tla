---------------------------- MODULE ProgressProofs ----------------------------
(***************************************************************************)
(* The status and the count of it, for any number of workers, messages,    *)
(* interrupts and lines.  The argument follows the lock: who holds it says *)
(* how far the terminal and the count are apart, and when nobody does they *)
(* agree.                                                                  *)
(***************************************************************************)
EXTENDS Progress, TLAPS

Critical == {"locked", "erased", "zeroed", "said"}

\* The lock is held by whoever is in a critical section, or was killed in one.
LockOK ==
  /\ \A p \in Printer : ppc[p] \in Critical => lock = p
  /\ mpc \in {"locked", "erased", "drawn"} <=> lock = Monitor
  /\ lock \in Printer => ppc[lock] \in Critical \cup {"dead"}

\* main() prints one message where it prints any, and is in no critical section
\* elsewhere but in the last erasure.
MainOK ==
  /\ left[Main] = IF main \in {"say", "table"} THEN 1 ELSE 0
  /\ main \notin {"say", "table", "clear"} => ppc[Main] = "idle"
  /\ main = "clear" => ppc[Main] # "said"
  /\ ppc[Main] # "dead"
  /\ \A w \in Worker : ppc[w] \in Critical => left[w] > 0

\* How far the count and the terminal are apart.
CountOK ==
  managerUp /\ ~cut =>
    /\ lock = Free => statusLen = screen
    /\ \A p \in Printer :
         /\ ppc[p] = "locked" => statusLen = screen
         /\ ppc[p] = "erased" => screen = 0
         /\ ppc[p] \in {"zeroed", "said"} => statusLen = 0 /\ screen = 0
    /\ mpc = "locked" => statusLen = screen
    /\ mpc = "erased" => screen = IF mode = "tree" THEN 0 ELSE statusLen
    /\ mpc = "drawn" => screen = drawn

\* After the loop no worker lives, after the join no monitor, and after the last
\* erasure nothing is on the terminal.
QuietOK ==
  /\ main # "loop" => \A w \in Worker : ppc[w] = "dead"
  /\ ~managerUp => main \in {"table", "exited"}
  /\ main \in {"clear", "cleanup", "table"} /\ ~late => mpc = "gone"
  /\ main \in {"cleanup", "table"} /\ ~late /\ ~cut => screen = 0
  /\ garbled => cut \/ late

Inv == TypeOK /\ LockOK /\ MainOK /\ CountOK /\ QuietOK

\* The parties of the lock differ from each other.
LEMMA NamesApart ==
  /\ Monitor \notin Printer /\ Free \notin Printer /\ Monitor # Free
  /\ Main \in Printer /\ Main \notin Worker
  /\ \A p \in Printer : p \in Worker \/ p = Main
  /\ \A w \in Worker : w \in Printer
  BY ProgressAssumption DEF Monitor, Free, Main, Printer

\* A step keeps the types.
LEMMA TypeStep == ASSUME Inv, [Next]_vars PROVE TypeOK'
<1> USE NamesApart, ProgressAssumption DEF Inv, printers, monitor, flags, TypeOK, MainOK
<1>1. ASSUME NEW p \in Printer, PrintAcquire(p) PROVE TypeOK'
  BY <1>1 DEF PrintAcquire
<1>2. ASSUME NEW p \in Printer, PrintErase(p) PROVE TypeOK'
  BY <1>2 DEF PrintErase, ClearStatus
<1>3. ASSUME NEW p \in Printer, PrintZero(p) PROVE TypeOK'
  BY <1>3 DEF PrintZero
<1>4. ASSUME NEW p \in Printer, PrintMessage(p) PROVE TypeOK'
  BY <1>4 DEF PrintMessage
<1>5. ASSUME NEW p \in Printer, PrintRelease(p) PROVE TypeOK'
  <2>1. left[p] \in Nat /\ left[p] > 0
    BY <1>5 DEF PrintRelease, Critical
  <2>2. left' \in [Printer -> Nat]
    BY <1>5, <2>1 DEF PrintRelease
  <2> QED
    BY <1>5, <2>2 DEF PrintRelease
<1>6. CASE Compose \/ MonitorStops
  BY <1>6 DEF Compose, MonitorStops
<1>7. CASE MonitorAcquire
  BY <1>7 DEF MonitorAcquire
<1>8. CASE MonitorErase
  BY <1>8 DEF MonitorErase, ClearStatus
<1>9. CASE MonitorRaises
  BY <1>9 DEF MonitorRaises
<1>10. CASE MonitorDraw
  BY <1>10 DEF MonitorDraw, Larger
<1>11. CASE MonitorRecord
  BY <1>11 DEF MonitorRecord
<1>12. CASE LoopEnds
  BY <1>12 DEF LoopEnds, Terminate
<1>13. CASE TaskError
  BY <1>13 DEF TaskError, Terminate
<1>14. CASE Join
  BY <1>14 DEF Join
<1>15. CASE JoinTimesOut
  BY <1>15 DEF JoinTimesOut
<1>16. CASE ClearAcquire
  BY <1>16 DEF ClearAcquire
<1>17. CASE ClearRelease
  BY <1>17 DEF ClearRelease
<1>18. CASE Shutdown
  BY <1>18 DEF Shutdown
<1>19. CASE CtrlCInLoop
  BY <1>19 DEF CtrlCInLoop, Terminate, Again
<1>20. CASE CtrlCInPrint
  BY <1>20 DEF CtrlCInPrint, MainLetsGo, LetGo, Again
<1>21. CASE CtrlCInJoin
  <2>1. interrupts' \in 0 .. MaxInterrupts
    BY <1>21 DEF CtrlCInJoin, Again
  <2> QED
    BY <1>21, <2>1, Zenon DEF CtrlCInJoin
<1>22. CASE CtrlCInClear
  BY <1>22 DEF CtrlCInClear, MainLetsGo, LetGo, Again
<1>23. CASE UNCHANGED vars
  BY <1>23 DEF vars
<1> QED
  BY <1>1, <1>2, <1>3, <1>4, <1>5, <1>6, <1>7, <1>8, <1>9, <1>10, <1>11, <1>12,
     <1>13, <1>14, <1>15, <1>16, <1>17, <1>18, <1>19, <1>20, <1>21, <1>22, <1>23,
     Zenon DEF Next, LockedPrint, MonitorSteps, MainSteps, CtrlC

\* A step keeps the rule of the lock.
LEMMA LockStep == ASSUME Inv, [Next]_vars PROVE LockOK'
<1> USE NamesApart DEF Inv, printers, monitor, flags, TypeOK, LockOK, MainOK, Critical
<1>1. ASSUME NEW p \in Printer, PrintAcquire(p) PROVE LockOK'
  BY <1>1 DEF PrintAcquire
<1>2. ASSUME NEW p \in Printer, PrintErase(p) PROVE LockOK'
  BY <1>2 DEF PrintErase, ClearStatus
<1>3. ASSUME NEW p \in Printer, PrintZero(p) PROVE LockOK'
  BY <1>3 DEF PrintZero
<1>4. ASSUME NEW p \in Printer, PrintMessage(p) PROVE LockOK'
  BY <1>4 DEF PrintMessage
<1>5. ASSUME NEW p \in Printer, PrintRelease(p) PROVE LockOK'
  BY <1>5 DEF PrintRelease
<1>6. CASE Compose \/ MonitorStops
  BY <1>6 DEF Compose, MonitorStops
<1>7. CASE MonitorAcquire
  BY <1>7 DEF MonitorAcquire
<1>8. CASE MonitorErase
  BY <1>8 DEF MonitorErase, ClearStatus
<1>9. CASE MonitorRaises
  BY <1>9 DEF MonitorRaises
<1>10. CASE MonitorDraw
  BY <1>10 DEF MonitorDraw, Larger
<1>11. CASE MonitorRecord
  BY <1>11 DEF MonitorRecord
<1>12. CASE LoopEnds
  BY <1>12 DEF LoopEnds, Terminate
<1>13. CASE TaskError
  BY <1>13 DEF TaskError, Terminate
<1>14. CASE Join
  BY <1>14 DEF Join
<1>15. CASE JoinTimesOut
  BY <1>15 DEF JoinTimesOut
<1>16. CASE ClearAcquire
  BY <1>16 DEF ClearAcquire
<1>17. CASE ClearRelease
  BY <1>17 DEF ClearRelease
<1>18. CASE Shutdown
  BY <1>18 DEF Shutdown
<1>19. CASE CtrlCInLoop
  BY <1>19 DEF CtrlCInLoop, Terminate, Again
<1>20. CASE CtrlCInPrint
  BY <1>20 DEF CtrlCInPrint, MainLetsGo, LetGo, Again
<1>21. CASE CtrlCInJoin
  BY <1>21 DEF CtrlCInJoin, Again
<1>22. CASE CtrlCInClear
  BY <1>22 DEF CtrlCInClear, MainLetsGo, LetGo, Again
<1>23. CASE UNCHANGED vars
  BY <1>23 DEF vars
<1> QED
  BY <1>1, <1>2, <1>3, <1>4, <1>5, <1>6, <1>7, <1>8, <1>9, <1>10, <1>11, <1>12,
     <1>13, <1>14, <1>15, <1>16, <1>17, <1>18, <1>19, <1>20, <1>21, <1>22, <1>23,
     Zenon DEF Next, LockedPrint, MonitorSteps, MainSteps, CtrlC

\* A step keeps what main() prints and where.
LEMMA MainStep == ASSUME Inv, [Next]_vars PROVE MainOK'
<1> USE NamesApart DEF Inv, printers, monitor, flags, TypeOK, MainOK, LockOK, Critical
<1>1. ASSUME NEW p \in Printer, PrintAcquire(p) PROVE MainOK'
  BY <1>1 DEF PrintAcquire
<1>2. ASSUME NEW p \in Printer, PrintErase(p) PROVE MainOK'
  BY <1>2 DEF PrintErase, ClearStatus
<1>3. ASSUME NEW p \in Printer, PrintZero(p) PROVE MainOK'
  BY <1>3 DEF PrintZero
<1>4. ASSUME NEW p \in Printer, PrintMessage(p) PROVE MainOK'
  BY <1>4 DEF PrintMessage
<1>5. ASSUME NEW p \in Printer, PrintRelease(p) PROVE MainOK'
  BY <1>5 DEF PrintRelease
<1>6. CASE Compose \/ MonitorStops
  BY <1>6 DEF Compose, MonitorStops
<1>7. CASE MonitorAcquire
  BY <1>7 DEF MonitorAcquire
<1>8. CASE MonitorErase
  BY <1>8 DEF MonitorErase, ClearStatus
<1>9. CASE MonitorRaises
  BY <1>9 DEF MonitorRaises
<1>10. CASE MonitorDraw
  BY <1>10 DEF MonitorDraw, Larger
<1>11. CASE MonitorRecord
  BY <1>11 DEF MonitorRecord
<1>12. CASE LoopEnds
  BY <1>12 DEF LoopEnds, Terminate
<1>13. CASE TaskError
  BY <1>13 DEF TaskError, Terminate
<1>14. CASE Join
  BY <1>14 DEF Join
<1>15. CASE JoinTimesOut
  BY <1>15 DEF JoinTimesOut
<1>16. CASE ClearAcquire
  BY <1>16 DEF ClearAcquire
<1>17. CASE ClearRelease
  BY <1>17 DEF ClearRelease
<1>18. CASE Shutdown
  BY <1>18 DEF Shutdown
<1>19. CASE CtrlCInLoop
  BY <1>19 DEF CtrlCInLoop, Terminate, Again
<1>20. CASE CtrlCInPrint
  BY <1>20 DEF CtrlCInPrint, MainLetsGo, LetGo, Again
<1>21. CASE CtrlCInJoin
  BY <1>21 DEF CtrlCInJoin, Again
<1>22. CASE CtrlCInClear
  BY <1>22 DEF CtrlCInClear, MainLetsGo, LetGo, Again
<1>23. CASE UNCHANGED vars
  BY <1>23 DEF vars
<1> QED
  BY <1>1, <1>2, <1>3, <1>4, <1>5, <1>6, <1>7, <1>8, <1>9, <1>10, <1>11, <1>12,
     <1>13, <1>14, <1>15, <1>16, <1>17, <1>18, <1>19, <1>20, <1>21, <1>22, <1>23,
     Zenon DEF Next, LockedPrint, MonitorSteps, MainSteps, CtrlC

\* A step keeps the distance of the count from the terminal.
LEMMA CountStep == ASSUME Inv, [Next]_vars PROVE CountOK'
<1> USE NamesApart DEF Inv, printers, monitor, flags, TypeOK, LockOK, CountOK, Critical
<1>1. ASSUME NEW p \in Printer, PrintAcquire(p) PROVE CountOK'
  BY <1>1 DEF PrintAcquire
<1>2. ASSUME NEW p \in Printer, PrintErase(p) PROVE CountOK'
  BY <1>2 DEF PrintErase, ClearStatus
<1>3. ASSUME NEW p \in Printer, PrintZero(p) PROVE CountOK'
  BY <1>3 DEF PrintZero
<1>4. ASSUME NEW p \in Printer, PrintMessage(p) PROVE CountOK'
  BY <1>4 DEF PrintMessage
<1>5. ASSUME NEW p \in Printer, PrintRelease(p) PROVE CountOK'
  BY <1>5 DEF PrintRelease
<1>6. CASE Compose \/ MonitorStops
  BY <1>6 DEF Compose, MonitorStops
<1>7. CASE MonitorAcquire
  BY <1>7 DEF MonitorAcquire
<1>8. CASE MonitorErase
  BY <1>8 DEF MonitorErase, ClearStatus
<1>9. CASE MonitorRaises
  BY <1>9 DEF MonitorRaises
<1>10. CASE MonitorDraw
  BY <1>10 DEF MonitorDraw, Larger
<1>11. CASE MonitorRecord
  BY <1>11 DEF MonitorRecord
<1>12. CASE LoopEnds
  BY <1>12 DEF LoopEnds, Terminate
<1>13. CASE TaskError
  BY <1>13 DEF TaskError, Terminate
<1>14. CASE Join
  BY <1>14 DEF Join
<1>15. CASE JoinTimesOut
  BY <1>15 DEF JoinTimesOut
<1>16. CASE ClearAcquire
  BY <1>16 DEF ClearAcquire
<1>17. CASE ClearRelease
  BY <1>17 DEF ClearRelease
<1>18. CASE Shutdown
  BY <1>18 DEF Shutdown
<1>19. CASE CtrlCInLoop
  BY <1>19 DEF CtrlCInLoop, Terminate, Again
<1>20. CASE CtrlCInPrint
  BY <1>20 DEF CtrlCInPrint, MainLetsGo, LetGo, Again
<1>21. CASE CtrlCInJoin
  BY <1>21 DEF CtrlCInJoin, Again
<1>22. CASE CtrlCInClear
  BY <1>22 DEF CtrlCInClear, MainLetsGo, LetGo, Again
<1>23. CASE UNCHANGED vars
  BY <1>23 DEF vars
<1> QED
  BY <1>1, <1>2, <1>3, <1>4, <1>5, <1>6, <1>7, <1>8, <1>9, <1>10, <1>11, <1>12,
     <1>13, <1>14, <1>15, <1>16, <1>17, <1>18, <1>19, <1>20, <1>21, <1>22, <1>23,
     Zenon DEF Next, LockedPrint, MonitorSteps, MainSteps, CtrlC

\* A step keeps the terminal quiet after the last erasure.
LEMMA QuietStep == ASSUME Inv, [Next]_vars PROVE QuietOK'
<1> USE NamesApart DEF Inv, printers, monitor, flags, TypeOK, LockOK, CountOK, MainOK, QuietOK, Critical
<1>1. ASSUME NEW p \in Printer, PrintAcquire(p) PROVE QuietOK'
  BY <1>1 DEF PrintAcquire
<1>2. ASSUME NEW p \in Printer, PrintErase(p) PROVE QuietOK'
  BY <1>2 DEF PrintErase, ClearStatus
<1>3. ASSUME NEW p \in Printer, PrintZero(p) PROVE QuietOK'
  BY <1>3 DEF PrintZero
<1>4. ASSUME NEW p \in Printer, PrintMessage(p) PROVE QuietOK'
  BY <1>4 DEF PrintMessage
<1>5. ASSUME NEW p \in Printer, PrintRelease(p) PROVE QuietOK'
  BY <1>5 DEF PrintRelease
<1>6. CASE Compose \/ MonitorStops
  BY <1>6 DEF Compose, MonitorStops
<1>7. CASE MonitorAcquire
  BY <1>7 DEF MonitorAcquire
<1>8. CASE MonitorErase
  BY <1>8 DEF MonitorErase, ClearStatus
<1>9. CASE MonitorRaises
  BY <1>9 DEF MonitorRaises
<1>10. CASE MonitorDraw
  BY <1>10 DEF MonitorDraw, Larger
<1>11. CASE MonitorRecord
  BY <1>11 DEF MonitorRecord
<1>12. CASE LoopEnds
  BY <1>12 DEF LoopEnds, Terminate
<1>13. CASE TaskError
  BY <1>13 DEF TaskError, Terminate
<1>14. CASE Join
  BY <1>14 DEF Join
<1>15. CASE JoinTimesOut
  BY <1>15 DEF JoinTimesOut
<1>16. CASE ClearAcquire
  BY <1>16 DEF ClearAcquire
<1>17. CASE ClearRelease
  BY <1>17 DEF ClearRelease
<1>18. CASE Shutdown
  BY <1>18 DEF Shutdown
<1>19. CASE CtrlCInLoop
  BY <1>19 DEF CtrlCInLoop, Terminate, Again
<1>20. CASE CtrlCInPrint
  BY <1>20 DEF CtrlCInPrint, MainLetsGo, LetGo, Again
<1>21. CASE CtrlCInJoin
  BY <1>21 DEF CtrlCInJoin, Again
<1>22. CASE CtrlCInClear
  BY <1>22 DEF CtrlCInClear, MainLetsGo, LetGo, Again
<1>23. CASE UNCHANGED vars
  BY <1>23 DEF vars
<1> QED
  BY <1>1, <1>2, <1>3, <1>4, <1>5, <1>6, <1>7, <1>8, <1>9, <1>10, <1>11, <1>12,
     <1>13, <1>14, <1>15, <1>16, <1>17, <1>18, <1>19, <1>20, <1>21, <1>22, <1>23,
     Zenon DEF Next, LockedPrint, MonitorSteps, MainSteps, CtrlC

\* The initial states.
LEMMA InitHolds == Init => Inv
<1> SUFFICES ASSUME Init PROVE Inv
  OBVIOUS
<1> USE NamesApart, ProgressAssumption
<1>1. TypeOK
  <2>1. left \in [Printer -> Nat]
    BY DEF Init
  <2>2. ppc \in [Printer -> {"idle", "locked", "erased", "zeroed", "said", "dead"}]
    BY DEF Init
  <2>3. 0 \in 0 .. MaxLines /\ 0 \in Nat /\ 0 \in 0 .. MaxInterrupts
    OBVIOUS
  <2> QED
    BY <2>1, <2>2, <2>3, Zenon DEF Init, TypeOK
<1>2. LockOK /\ MainOK
  BY DEF Init, LockOK, MainOK, Critical
<1>3. CountOK /\ QuietOK
  BY DEF Init, CountOK, QuietOK
<1> QED
  BY <1>1, <1>2, <1>3 DEF Inv

\* The strengthened invariant holds in every reachable state.
THEOREM InvHolds == Spec => []Inv
<1>1. Inv /\ [Next]_vars => Inv'
  <2> SUFFICES ASSUME Inv, [Next]_vars PROVE Inv'
    OBVIOUS
  <2> QED
    BY TypeStep, LockStep, MainStep, CountStep, QuietStep DEF Inv
<1> QED
  BY <1>1, InitHolds, PTL DEF Spec

-----------------------------------------------------------------------------
\* Type correctness.
THEOREM TypeCorrect == Spec => []TypeOK
<1>1. Inv => TypeOK
  BY DEF Inv
<1> QED
  BY <1>1, InvHolds, PTL

\* Whoever takes the lock next finds a count that fits the terminal.
THEOREM StatusMatchesScreenTheorem == Spec => []StatusMatchesScreen
<1>1. Inv => StatusMatchesScreen
  BY DEF Inv, CountOK, StatusMatchesScreen
<1> QED
  BY <1>1, InvHolds, PTL

\* Messages and tables are printed on a terminal without a status, unless an
\* interrupt or a late monitor is to blame.
THEOREM NothingPrintedOnStatusTheorem == Spec => []NothingPrintedOnStatus
<1>1. Inv => NothingPrintedOnStatus
  BY DEF Inv, QuietOK, NothingPrintedOnStatus
<1> QED
  BY <1>1, InvHolds, PTL

-----------------------------------------------------------------------------
\* The monitor was told to stop, and workers were killed, exactly when the loop
\* was left.
LoopOK ==
  /\ main # "loop" => stop
  /\ main = "loop" => \A w \in Worker : ppc[w] # "dead"

LEMMA LoopHolds == Spec => []LoopOK
<1>1. Init => LoopOK
  BY NamesApart DEF Init, LoopOK
<1>2. Inv /\ LoopOK /\ [Next]_vars => LoopOK'
  <2> SUFFICES ASSUME Inv, LoopOK, [Next]_vars PROVE LoopOK'
    OBVIOUS
  <2>1. ASSUME NEW p \in Printer, LockedPrint(p) PROVE LoopOK'
    <3>1. stop' = stop /\ (main' = "loop" => main = "loop")
      BY <2>1, Zenon DEF LockedPrint, PrintAcquire, PrintErase, PrintZero, PrintMessage, PrintRelease,
         Inv, MainOK, LoopOK
    <3>2. \A w \in Worker : ppc'[w] = ppc[w] \/ ppc'[w] \in Critical \cup {"idle"}
      BY <2>1, NamesApart DEF LockedPrint, PrintAcquire, PrintErase, PrintZero, PrintMessage,
         PrintRelease, Inv, TypeOK, Critical
    <3>3. (main # "loop" => stop)'
      <4>1. main = "loop" => main' = "loop"
        BY <2>1, NamesApart DEF LockedPrint, PrintAcquire, PrintErase, PrintZero, PrintMessage,
           PrintRelease, Inv, MainOK
      <4> QED
        BY <3>1, <4>1, Zenon DEF LoopOK
    <3> QED
      BY <3>1, <3>2, <3>3 DEF LoopOK, Critical
  <2>2. CASE LoopEnds \/ TaskError \/ CtrlCInLoop
    BY <2>2, Zenon DEF LoopEnds, TaskError, CtrlCInLoop, LoopOK
  <2>3. CASE MonitorSteps \/ Join \/ JoinTimesOut \/ ClearAcquire \/ ClearRelease \/ Shutdown
             \/ CtrlCInPrint \/ CtrlCInJoin \/ CtrlCInClear \/ UNCHANGED vars
    <3>1. stop' = stop /\ (main' = "loop" <=> main = "loop") /\ (main = "loop" => ppc' = ppc)
      BY <2>3, Zenon DEF MonitorSteps, Compose, MonitorStops, MonitorAcquire, MonitorErase, MonitorRaises,
         MonitorDraw, MonitorRecord, Join, JoinTimesOut, ClearAcquire, ClearRelease, Shutdown,
         CtrlCInPrint, CtrlCInJoin, CtrlCInClear, vars, printers
    <3> QED
      BY <3>1, Zenon DEF LoopOK
  <2> QED
    BY <2>1, <2>2, <2>3, Zenon DEF Next, MainSteps, CtrlC
<1> QED
  BY <1>1, <1>2, InvHolds, PTL DEF Spec

\* main() is in no cycle of waits: what it waits for can go on unless a worker
\* was killed holding the lock.
THEOREM MainWaitsForTheLivingTheorem == Spec => []MainWaitsForTheLiving
<1>1. Inv /\ LoopOK => MainWaitsForTheLiving
  <2> SUFFICES ASSUME Inv, LoopOK, MainWaits, ~LockIsLost
               PROVE  \/ lock = Monitor /\ mpc \in {"locked", "erased", "drawn"}
                      \/ stop /\ mpc = "sleep"
                      \/ \E w \in Worker : \/ ppc[w] \in {"locked", "erased", "zeroed", "said"}
                                           \/ ppc[w] = "idle" /\ left[w] > 0 /\ lock = Free
    BY Zenon DEF MainWaitsForTheLiving
  <2>0. /\ ppc \in [Printer -> {"idle", "locked", "erased", "zeroed", "said", "dead"}]
        /\ left \in [Printer -> Nat] /\ lock \in Printer \cup {Monitor, Free}
    BY DEF Inv, TypeOK
  <2>1. CASE main = "join"
    BY <2>1, Zenon DEF MainWaits, LoopOK
  <2>2. CASE lock = Monitor
    BY <2>2, Zenon DEF Inv, LockOK
  <2>3. CASE main = "loop" /\ lock = Free
    <3>1. PICK w \in Worker : ppc[w] # "idle" \/ left[w] > 0
      BY <2>3 DEF MainWaits
    <3>2. ppc[w] \notin Critical /\ ppc[w] # "dead"
      BY <2>3, NamesApart DEF Inv, LockOK, LoopOK
    <3> QED
      BY <2>0, <2>3, <3>1, <3>2, NamesApart DEF Critical
  <2>4. CASE main = "loop" /\ lock \in Printer
    <3>1. lock \in Worker
      BY <2>4, NamesApart DEF Inv, LockOK, MainOK, Critical
    <3>2. ppc[lock] \in Critical
      BY <2>4, <3>1 DEF Inv, LockOK, LoopOK
    <3> QED
      BY <3>1, <3>2 DEF Critical
  <2>5. CASE main \in {"say", "clear", "table"} /\ lock \in Printer
    <3>1. ppc[Main] = "idle"
      BY <2>5 DEF MainWaits
    <3>2. lock \in Worker
      BY <2>5, <3>1, NamesApart DEF Inv, LockOK, Critical
    <3>3. ppc[lock] = "dead"
      BY <2>5, <3>2 DEF Inv, QuietOK
    <3> QED
      BY <3>2, <3>3 DEF LockIsLost
  <2>6. main \in {"loop", "join"} \/ (main \in {"say", "clear", "table"} /\ lock # Free)
    BY DEF MainWaits
  <2> QED
    BY <2>0, <2>1, <2>2, <2>3, <2>4, <2>5, <2>6, Zenon
<1> QED
  BY <1>1, InvHolds, LoopHolds, PTL

=============================================================================
