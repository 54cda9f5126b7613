----------------------------- MODULE CpuTopology -----------------------------
(***************************************************************************)
(* cpu_topology.py: which logical CPUs the pool may use, and whether they  *)
(* are the performance cores of a hybrid machine.  A machine is what the   *)
(* operating system tells of itself; every one of its tables may lack      *)
(* entries (a file that is missing or does not parse).                     *)
(*                                                                         *)
(*   affinity  the CPUs the process may run on                             *)
(*   core      CPU -> core_id of its topology directory                    *)
(*   kind      CPU -> "P", "E" or "?" (a core_type that does not parse)    *)
(*   pmu       the CPU sets of the existing cpu_core PMUs, in order        *)
(*   capacity  CPU -> cpu_capacity                                         *)
(*   maxFreq   CPU -> its maximum frequency, 0 if unknown                  *)
(*   perf0     CPUs of performance level 0 of a Mac, 0 elsewhere           *)
(***************************************************************************)
EXTENDS Integers, FiniteSets, Sequences

Known(table, S) == S \subseteq DOMAIN table
Values(table, S) == {table[c] : c \in S}
Top(table, S) == {c \in S : \A d \in S : table[d] <= table[c]}
Some(S, available) == S # {} /\ S # available

\* Mutant: every logical CPU counts as a core of its own.
EveryThread(m, S) == S

\* _filter_primary_smt_threads: the first thread of each core; a CPU without a
\* core_id is taken as it is.
PrimaryThreads(m, S) ==
  {c \in S : c \in DOMAIN m.core =>
     \A d \in S \cap DOMAIN m.core : m.core[d] = m.core[c] => c <= d}

Nothing == [by |-> "none", cpus |-> {}]

\* The core types decide if they single out some of the CPUs and not all;
\* otherwise the first PMU that does.
IntelHybrid(m) ==
  LET A == m.affinity
      P == {c \in A \cap DOMAIN m.kind : m.kind[c] = "P"}
      Splits == {i \in 1 .. Len(m.pmu) : Some(A \cap m.pmu[i], A)}
      First == CHOOSE i \in Splits : \A j \in Splits : i <= j
  IN IF Some(P, A) THEN [by |-> "core type", cpus |-> PrimaryThreads(m, P)]
     ELSE IF Splits # {}
     THEN [by |-> "pmu", cpus |-> PrimaryThreads(m, A \cap m.pmu[First])]
     ELSE Nothing

CpuCapacity(m) ==
  IF Known(m.capacity, m.affinity) /\ Cardinality(Values(m.capacity, m.affinity)) > 1
  THEN [by |-> "capacity", cpus |-> PrimaryThreads(m, Top(m.capacity, m.affinity))]
  ELSE Nothing

\* No threads are filtered here.
FrequencyHeterogeneity(m) ==
  IF /\ Known(m.maxFreq, m.affinity)
     /\ \A c \in m.affinity : m.maxFreq[c] > 0
     /\ Cardinality(Values(m.maxFreq, m.affinity)) > 1
  THEN [by |-> "frequency", cpus |-> Top(m.maxFreq, m.affinity)]
  ELSE Nothing

\* `available[:p_count]`: the lowest CPU numbers.
MacosPerflevel(m) ==
  IF m.perf0 > 0 /\ m.perf0 < Cardinality(m.affinity)
  THEN [by |-> "perflevel",
        cpus |-> {c \in m.affinity : Cardinality({d \in m.affinity : d < c}) < m.perf0}]
  ELSE Nothing

\* CORE_DETECTION_STRATEGIES
Strategies(m) == <<IntelHybrid(m), CpuCapacity(m), FrequencyHeterogeneity(m), MacosPerflevel(m)>>

\* get_available_cpus: what the first strategy finds that finds any CPU.
GetAvailableCpus(m) ==
  LET found == {i \in DOMAIN Strategies(m) : Strategies(m)[i].cpus # {}}
      first == Strategies(m)[CHOOSE i \in found : \A j \in found : i <= j]
  IN IF found # {}
     THEN [cpus |-> first.cpus, hetero |-> TRUE, by |-> first.by]
     ELSE [cpus |-> m.affinity, hetero |-> FALSE, by |-> "none"]

HOMOGENEOUS_CPU_RESERVE == 2

\* cpu_use_count of main(): how many workers the pool gets.
CpuUseCount(r) ==
  IF r.hetero THEN Cardinality(r.cpus)
  ELSE LET n == Cardinality(r.cpus) - HOMOGENEOUS_CPU_RESERVE IN IF n < 1 THEN 1 ELSE n
=============================================================================
