----------------------------- MODULE TaskLedger -----------------------------
(***************************************************************************)
(* What the benchmark driver of cbench_pkg/cli.py promises about the       *)
(* table it prints, with the process pool, the workers, the scratch        *)
(* directories and the signals abstracted away: a benchmark is a list of   *)
(* tasks, every task is collected at most once, a collected task overrides *)
(* exactly the cells it measured, and once the driver stops collecting the *)
(* table is frozen: it is either shown or thrown away.                     *)
(***************************************************************************)
EXTENDS Naturals

CONSTANTS NTasks,    \* length of the task list built by main()
          Cell,      \* (result row, metric column) pairs of the table
          CellsOf    \* CellsOf[t]: the cells task t may measure

Task == 1 .. NTasks
NoTask == 0

VARIABLES collected,  \* tasks whose result reached the table
          table,      \* table[c]: the task whose measurement cell c shows
          stage       \* "collecting", "stopped" or "shown"

ledgerVars == <<collected, table, stage>>

LedgerTypeOK ==
  /\ collected \subseteq Task
  /\ table \in [Cell -> Task \cup {NoTask}]
  /\ stage \in {"collecting", "stopped", "shown"}

LedgerInit ==
  /\ collected = {}
  /\ table = [c \in Cell |-> NoTask]
  /\ stage = "collecting"

Collect(t, measured) ==
  /\ stage = "collecting"
  /\ t \notin collected
  /\ measured \subseteq CellsOf[t]
  /\ collected' = collected \cup {t}
  /\ table' = [c \in Cell |-> IF c \in measured THEN t ELSE table[c]]
  /\ UNCHANGED stage

Stop ==
  /\ stage = "collecting"
  /\ stage' = "stopped"
  /\ UNCHANGED <<collected, table>>

Show ==
  /\ stage = "stopped"
  /\ stage' = "shown"
  /\ UNCHANGED <<collected, table>>

LedgerNext ==
  \/ \E t \in Task : \E measured \in SUBSET CellsOf[t] : Collect(t, measured)
  \/ Stop
  \/ Show

LedgerSpec == LedgerInit /\ [][LedgerNext]_ledgerVars
=============================================================================
