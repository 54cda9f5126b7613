---------------------------- MODULE TaskPlanProofs ----------------------------
(***************************************************************************)
(* Proofs about the planning of main(), for every registry, request and    *)
(* machine, and about what the modules it composes compute: the generated  *)
(* program, the choice of CPUs, the list of tasks.                         *)
(***************************************************************************)
EXTENDS TaskPlan, SortingProofs, FunctionTheorems

(***************************************************************************)
(* The generated program for every number of functions and every depth:    *)
(* it is closed, and no two of its functions have the same name.           *)
(***************************************************************************)
\* A name of a definition is that of its slot, the top of a chain apart.
LEMMA NameOfSlot ==
  ASSUME NEW fc \in Int, NEW fd \in Nat \ {0}, NEW i \in 0 .. fc - 1, NEW h \in 0 .. fd - 1
  PROVE  /\ <<i, h>> \in Slot(fc, fd)
         /\ DefinedName(i, h, fd) = <<i, IF h = fd - 1 THEN NoHeight ELSE h>>
  BY DEF Slot, DefinedName, FunctionName

\* Every function that a body or main() calls is defined, for every number of
\* functions and every depth of at least one (generate_function_definitions and the
\* emitters agree about names).
THEOREM GeneratedProgramIsClosed ==
  ASSUME NEW fc \in Int, NEW fd \in Nat \ {0}
  PROVE  Closed(fc, fd)
<1>1. ASSUME NEW i \in 0 .. fc - 1, NEW h \in 1 .. fd - 1
      PROVE  FunctionName(i, h - 1) \in Defined(fc, fd)
  <2>1. h - 1 \in 0 .. fd - 1 /\ h - 1 # fd - 1
    OBVIOUS
  <2>2. <<i, h - 1>> \in Slot(fc, fd) /\ DefinedName(i, h - 1, fd) = <<i, h - 1>>
    BY <2>1, NameOfSlot
  <2>3. <<i, h - 1>>[1] = i /\ <<i, h - 1>>[2] = h - 1
    OBVIOUS
  <2> QED
    BY <2>2, <2>3 DEF Defined, FunctionName
<1>2. ASSUME NEW i \in 0 .. fc - 1
      PROVE  FunctionName(i, NoHeight) \in Defined(fc, fd)
  <2>1. fd - 1 \in 0 .. fd - 1
    OBVIOUS
  <2>2. <<i, fd - 1>> \in Slot(fc, fd) /\ DefinedName(i, fd - 1, fd) = <<i, NoHeight>>
    BY <2>1, NameOfSlot
  <2>3. <<i, fd - 1>>[1] = i /\ <<i, fd - 1>>[2] = fd - 1
    OBVIOUS
  <2> QED
    BY <2>2, <2>3 DEF Defined, FunctionName
<1> QED
  BY <1>1, <1>2 DEF Closed, Called, CalledInBodies, CalledInMain

\* Two turns of the loops never define the same function.
THEOREM DefinedNamesDiffer ==
  ASSUME NEW fc \in Int, NEW fd \in Nat \ {0},
         NEW i \in 0 .. fc - 1, NEW h \in 0 .. fd - 1,
         NEW j \in 0 .. fc - 1, NEW k \in 0 .. fd - 1,
         DefinedName(i, h, fd) = DefinedName(j, k, fd)
  PROVE  i = j /\ h = k
<1>1. /\ DefinedName(i, h, fd) = <<i, IF h = fd - 1 THEN NoHeight ELSE h>>
      /\ DefinedName(j, k, fd) = <<j, IF k = fd - 1 THEN NoHeight ELSE k>>
  BY NameOfSlot
<1>2. i = j /\ (IF h = fd - 1 THEN NoHeight ELSE h) = IF k = fd - 1 THEN NoHeight ELSE k
  <2> DEFINE a == IF h = fd - 1 THEN NoHeight ELSE h
             b == IF k = fd - 1 THEN NoHeight ELSE k
  <2>1. <<i, a>> = <<j, b>>
    BY <1>1
  <2> HIDE DEF a, b
  <2>2. i = j /\ a = b
    BY <2>1
  <2> QED
    BY <2>2 DEF a, b
<1>3. NoHeight \notin Nat
  BY DEF NoHeight
<1> QED
  BY <1>2, <1>3

\* Two turns of the loops never ask for the same constant: the pool is what
\* makes them share one (rand_idx before `% RAND_POOL_SIZE`).
THEOREM RandIndicesDiffer ==
  ASSUME NEW fc \in Int, NEW fd \in Nat \ {0},
         NEW i \in 0 .. fc - 1, NEW h \in 0 .. fd - 1,
         NEW j \in 0 .. fc - 1, NEW k \in 0 .. fd - 1,
         RandIdx(i, h, fd) = RandIdx(j, k, fd)
  PROVE  i = j /\ h = k
<1>1. i * fd + h = j * fd + k
  BY DEF RandIdx
<1>2. CASE i < j
  <2>1. j * fd >= i * fd + fd
    <3>1. PICK d \in Nat : j = i + 1 + d
      <4>1. j - i - 1 \in Nat /\ j = i + 1 + (j - i - 1)
        BY <1>2
      <4> QED
        BY <4>1
    <3>2. j * fd = i * fd + fd + d * fd /\ d * fd >= 0
      BY <3>1
    <3> QED
      BY <3>2
  <2> QED
    BY <1>1, <2>1
<1>3. CASE j < i
  <2>1. i * fd >= j * fd + fd
    <3>1. PICK d \in Nat : i = j + 1 + d
      <4>1. i - j - 1 \in Nat /\ i = j + 1 + (i - j - 1)
        BY <1>3
      <4> QED
        BY <4>1
    <3>2. i * fd = j * fd + fd + d * fd /\ d * fd >= 0
      BY <3>1
    <3> QED
      BY <3>2
  <2> QED
    BY <1>1, <2>1
<1>4. CASE i = j
  BY <1>1, <1>4
<1> QED
  BY <1>2, <1>3, <1>4

-----------------------------------------------------------------------------
(***************************************************************************)
(* The CPUs.                                                               *)
(***************************************************************************)
OneThreadPerCore(m, S) ==
  \A c, d \in S \cap DOMAIN m.core : m.core[c] = m.core[d] => c = d

\* Two CPUs with one core would both be its first thread.
LEMMA PrimaryThreadsDiffer ==
  ASSUME NEW m, NEW S, S \subseteq Nat
  PROVE  PrimaryThreads(m, S) \subseteq S /\ OneThreadPerCore(m, PrimaryThreads(m, S))
<1>1. PrimaryThreads(m, S) \subseteq S
  BY DEF PrimaryThreads
<1>2. ASSUME NEW c \in PrimaryThreads(m, S) \cap DOMAIN m.core,
             NEW d \in PrimaryThreads(m, S) \cap DOMAIN m.core, m.core[c] = m.core[d]
      PROVE  c = d
  <2>1. c \in Nat /\ d \in Nat /\ c \in S /\ d \in S
    BY <1>1
  <2>2. c <= d /\ d <= c
    BY <1>2, <2>1 DEF PrimaryThreads
  <2> QED BY <2>1, <2>2
<1> QED
  BY <1>1, <1>2 DEF OneThreadPerCore

\* A strategy answers with CPUs the process may use, those named by topology or
\* capacity being threads of different cores.
Fits(m, r) ==
  /\ r.cpus \subseteq m.affinity
  /\ r.by \in {"core type", "pmu", "capacity"} => OneThreadPerCore(m, r.cpus)

LEMMA StrategiesFit ==
  ASSUME NEW m \in Machine, NEW i \in DOMAIN Strategies(m)
  PROVE  Fits(m, Strategies(m)[i])
<1>1. m.affinity \subseteq Nat
  BY TaskPlanAssumption
<1>2. Fits(m, Nothing)
  BY DEF Fits, Nothing
<1>3. ASSUME NEW S \in SUBSET m.affinity, NEW by
      PROVE  Fits(m, [by |-> by, cpus |-> PrimaryThreads(m, S)])
  BY <1>1, PrimaryThreadsDiffer DEF Fits
<1>4. Fits(m, IntelHybrid(m))
  <2> DEFINE Splits == {j \in 1 .. Len(m.pmu) : Some(m.affinity \cap m.pmu[j], m.affinity)}
             First == CHOOSE j \in Splits : \A k \in Splits : j <= k
             P == {c \in m.affinity \cap DOMAIN m.kind : m.kind[c] = "P"}
  <2>1. \/ IntelHybrid(m) = [by |-> "core type", cpus |-> PrimaryThreads(m, P)]
        \/ IntelHybrid(m) = [by |-> "pmu", cpus |-> PrimaryThreads(m, m.affinity \cap m.pmu[First])]
        \/ IntelHybrid(m) = Nothing
    BY DEF IntelHybrid
  <2> HIDE DEF First
  <2>2. P \in SUBSET m.affinity /\ m.affinity \cap m.pmu[First] \in SUBSET m.affinity
    OBVIOUS
  <2> QED
    BY <1>2, <1>3, <2>1, <2>2
<1>5. Fits(m, CpuCapacity(m))
  <2>1. Top(m.capacity, m.affinity) \in SUBSET m.affinity
    BY DEF Top
  <2> QED
    BY <1>2, <1>3, <2>1 DEF CpuCapacity
<1>6. Fits(m, FrequencyHeterogeneity(m))
  BY <1>2 DEF FrequencyHeterogeneity, Fits, Top
<1>7. Fits(m, MacosPerflevel(m))
  BY <1>2 DEF MacosPerflevel, Fits
<1> QED
  BY <1>4, <1>5, <1>6, <1>7 DEF Strategies

LEMMA AvailableCpusFit ==
  ASSUME NEW m \in Machine
  PROVE  /\ Fits(m, GetAvailableCpus(m)) /\ GetAvailableCpus(m).cpus # {}
         /\ CpuUseCount(GetAvailableCpus(m)) \in Nat
         /\ 1 <= CpuUseCount(GetAvailableCpus(m))
         /\ CpuUseCount(GetAvailableCpus(m)) <= Cardinality(GetAvailableCpus(m).cpus)
<1> DEFINE r == GetAvailableCpus(m)
           found == {i \in DOMAIN Strategies(m) : Strategies(m)[i].cpus # {}}
           first == CHOOSE i \in found : \A j \in found : i <= j
<1>1. Fits(m, r) /\ r.cpus # {}
  <2>1. CASE found # {}
    <3>1. found \subseteq Nat
      BY DEF Strategies
    <3>2. first \in found
      <4>1. \E i \in found : \A j \in found : i <= j
        BY <2>1, <3>1, LeastMember
      <4> QED BY <4>1
    <3>3. r = [cpus |-> Strategies(m)[first].cpus, hetero |-> TRUE, by |-> Strategies(m)[first].by]
      BY <2>1 DEF GetAvailableCpus
    <3> HIDE DEF first, r
    <3>4. r.cpus = Strategies(m)[first].cpus /\ r.by = Strategies(m)[first].by
      BY <3>3
    <3> QED
      BY <3>2, <3>4, StrategiesFit DEF Fits
  <2>2. CASE found = {}
    <3>1. r = [cpus |-> m.affinity, hetero |-> FALSE, by |-> "none"]
      BY <2>2 DEF GetAvailableCpus
    <3> QED
      BY <3>1, TaskPlanAssumption DEF Fits
  <2> QED BY <2>1, <2>2
<1> HIDE DEF r
<1>2. IsFiniteSet(r.cpus)
  BY <1>1, TaskPlanAssumption, FS_Subset DEF Fits
<1>3. Cardinality(r.cpus) \in Nat /\ Cardinality(r.cpus) # 0
  BY <1>1, <1>2, FS_CardinalityType, FS_EmptySet
<1>4. CpuUseCount(r) \in 1 .. Cardinality(r.cpus)
  BY <1>3 DEF CpuUseCount, HOMOGENEOUS_CPU_RESERVE
<1> QED
  BY <1>1, <1>3, <1>4 DEF r

-----------------------------------------------------------------------------
(***************************************************************************)
(* The list of tasks.  What may be in it depends on the request alone: for *)
(* a language asked for, an operation it supports and one of its runners,  *)
(* with the dimensions that its limit makes of those asked for.            *)
(***************************************************************************)
Asked == [fc |-> request.fc, fd |-> request.fd]

TasksFor(i) ==
  [lang : {Registry[i].name}, runner : 1 .. Len(Registry[i].runners),
   op : KnownOp \cap Registry[i].ops, templated : BOOLEAN,
   dims : {Capped(Registry[i].limit, Asked)}]

Proper == UNION {TasksFor(i) : i \in {j \in LangIx : Registry[j].name \in LanguageExes}}

LoopsOK ==
  /\ request \in Request
  /\ pc \in {"plan", "sort", "cpus", "ready"}
  /\ opIx \in 1 .. Len(Operations) + 1 /\ langIx \in LangIx
  /\ args = Asked

TasksOK == tasks \in Seq(Proper)
WarningsOK == \A w \in reported : w.lang \in {Registry[i].name : i \in LangIx} \cup {""}
PoolOK == pool.size \in Nat

PlanInv == LoopsOK /\ TasksOK /\ WarningsOK /\ PoolOK

LEMMA SupportOfName == \A i \in LangIx : LangSupport(Registry[i].name) = Registry[i]
BY RegistryAssumption DEF LangSupport

LEMMA AskedTyped ==
  ASSUME request \in Request
  PROVE  /\ Asked \in [fc : Int, fd : Int]
         /\ Asked.fc = request.fc /\ Asked.fd = request.fd
BY TaskPlanAssumption DEF Asked

\* The operations are known ones, --ast-check's in front or not.
LEMMA OperationsTyped ==
  ASSUME request \in Request
  PROVE  Operations \in Seq(KnownOp)
<1>1. request.ops \in Seq(STRING)
  BY TaskPlanAssumption
<1>2. KeepOnly(request.ops, KnownOp) \in Seq(STRING \cap KnownOp)
  BY <1>1, KeepOnlyPicks
<1>3. KeepOnly(request.ops, KnownOp) \in Seq(KnownOp) /\ "ast-check" \in KnownOp
  BY <1>2 DEF KnownOp
<1> QED
  BY <1>3 DEF Operations

\* The arithmetic of the two inner loops.
LEMMA InnerLoops ==
  ASSUME NEW n \in Nat \ {0}, NEW k \in 1 .. 2 * n
  PROVE  /\ ((k - 1) % n) + 1 \in 1 .. n
         /\ ((k - 1) \div n) + 1 \in 1 .. 2
         /\ k <= n => ((k - 1) \div n) + 1 = 1
         /\ k = ((k - 1) \div n) * n + ((k - 1) % n) + 1
<1> DEFINE j == k - 1
<1>1. j \in 0 .. 2 * n - 1
  OBVIOUS
<1> HIDE DEF j
<1>2. (j % n) \in 0 .. n - 1 /\ (j \div n) \in 0 .. 1 /\ j = n * (j \div n) + (j % n)
  BY <1>1, SMT
<1>3. j < n => j \div n = 0
  BY <1>1, SMT
<1> QED
  BY <1>2, <1>3 DEF j

\* The plain program comes first; there is a second variant if any is templated.
LEMMA VariantsListed ==
  ASSUME NEW spec
  PROVE  /\ Len(Variants(spec)) \in 1 .. 2
         /\ Variants(spec)[1] = FALSE
         /\ TRUE \in spec.templated <=> Len(Variants(spec)) = 2
         /\ Len(Variants(spec)) = 2 => Variants(spec)[2] = TRUE
<1>1. CASE TRUE \in spec.templated
  <2>1. Variants(spec) = <<FALSE, TRUE>>
    BY <1>1 DEF Variants
  <2>2. Len(<<FALSE, TRUE>>) = 2 /\ 2 \in 1 .. 2
    OBVIOUS
  <2>3. <<FALSE, TRUE>>[1] = FALSE /\ <<FALSE, TRUE>>[2] = TRUE
    OBVIOUS
  <2> QED BY <1>1, <2>1, <2>2, <2>3, Zenon
<1>2. CASE TRUE \notin spec.templated
  <2>1. Variants(spec) = <<FALSE>>
    BY <1>2 DEF Variants
  <2>2. Len(<<FALSE>>) = 1 /\ 1 \in 1 .. 2 /\ 1 # 2
    OBVIOUS
  <2>3. <<FALSE>>[1] = FALSE
    OBVIOUS
  <2> QED BY <1>2, <2>1, <2>2, <2>3, Zenon
<1> QED BY <1>1, <1>2

\* The place of the k-th task that one turn of the outer loops plans.
NRunners(i) == Len(Registry[i].runners)
NPlanned(i) == Len(Variants(Registry[i])) * NRunners(i)
RunnerAt(i, k) == ((k - 1) % NRunners(i)) + 1
VariantAt(i, k) == ((k - 1) \div NRunners(i)) + 1

\* One turn of the outer loops plans tasks of one language and operation, one for
\* each of its variants and runners.
LEMMA TasksOfTyped ==
  ASSUME NEW i \in LangIx, NEW op, NEW d
  PROVE  TasksOf(Registry[i], op, d) =
           [k \in 1 .. NPlanned(i) |->
              [lang |-> Registry[i].name, runner |-> RunnerAt(i, k), op |-> op,
               templated |-> Variants(Registry[i])[VariantAt(i, k)], dims |-> d]]
BY DEF TasksOf, NPlanned, RunnerAt, VariantAt, NRunners

LEMMA PlacesTyped ==
  ASSUME NEW i \in LangIx
  PROVE  /\ NRunners(i) \in Nat /\ NPlanned(i) \in Nat
         /\ \A k \in 1 .. NPlanned(i) :
              /\ RunnerAt(i, k) \in 1 .. NRunners(i)
              /\ VariantAt(i, k) \in 1 .. Len(Variants(Registry[i]))
              /\ k = (VariantAt(i, k) - 1) * NRunners(i) + RunnerAt(i, k)
<1> DEFINE n == NRunners(i)
           V == Len(Variants(Registry[i]))
<1>1. n \in Nat /\ V \in 1 .. 2
  BY TaskPlanAssumption, VariantsListed DEF NRunners
<1>2. NPlanned(i) = V * n
  BY DEF NPlanned
<1>3. \A k : RunnerAt(i, k) = ((k - 1) % n) + 1 /\ VariantAt(i, k) = ((k - 1) \div n) + 1
  BY DEF RunnerAt, VariantAt
<1> HIDE DEF n, V
<1>4. V * n \in Nat /\ V * n <= 2 * n /\ (V = 1 => V * n = n)
  BY <1>1
<1>5. ASSUME NEW k \in 1 .. V * n
      PROVE  /\ ((k - 1) % n) + 1 \in 1 .. n /\ ((k - 1) \div n) + 1 \in 1 .. V
             /\ k = (((k - 1) \div n) + 1 - 1) * n + ((k - 1) % n) + 1
  <2>1. n \in Nat \ {0} /\ k \in 1 .. 2 * n
    BY <1>1, <1>4
  <2>2. /\ ((k - 1) % n) + 1 \in 1 .. n /\ ((k - 1) \div n) + 1 \in 1 .. V
        /\ k = ((k - 1) \div n) * n + ((k - 1) % n) + 1 /\ (k - 1) \div n \in Int
    BY <1>1, <1>4, <2>1, InnerLoops
  <2> QED
    BY <2>2
<1>6. ASSUME NEW k \in 1 .. NPlanned(i)
      PROVE  /\ RunnerAt(i, k) \in 1 .. n
             /\ VariantAt(i, k) \in 1 .. V
             /\ k = (VariantAt(i, k) - 1) * n + RunnerAt(i, k)
  <2>1. k \in 1 .. V * n
    BY <1>2, Zenon
  <2>2. /\ ((k - 1) % n) + 1 \in 1 .. n /\ ((k - 1) \div n) + 1 \in 1 .. V
        /\ k = (((k - 1) \div n) + 1 - 1) * n + ((k - 1) % n) + 1
    BY <1>5, <2>1, Zenon
  <2>3. RunnerAt(i, k) = ((k - 1) % n) + 1 /\ VariantAt(i, k) = ((k - 1) \div n) + 1
    BY <1>3, Zenon
  <2>4. k = (VariantAt(i, k) - 1) * n + RunnerAt(i, k)
    BY ONLY <2>2, <2>3, <1>1
  <2> QED
    BY <2>2, <2>3, <2>4, Zenon
<1>7. n \in Nat /\ NPlanned(i) \in Nat
  BY <1>1, <1>2, <1>4
<1> QED
  BY <1>6, <1>7, Zenon DEF n, V

-----------------------------------------------------------------------------
(***************************************************************************)
(* The sort.                                                               *)
(***************************************************************************)
Keyed(ts) == {<<TaskWeight(ts[i]), i>> : i \in DOMAIN ts}
SoonerThan(K) == [t \in K |-> {u \in K : Sooner(u, t)}]
Order(ts) == InOrder(Keyed(ts), SoonerThan(Keyed(ts)))

LEMMA ProperTyped ==
  ASSUME NEW t \in Proper
  PROVE  /\ t.op \in KnownOp /\ TaskWeight(t) \in Weight
         /\ \E i \in LangIx : Registry[i].name \in LanguageExes /\ t \in TasksFor(i)
<1>1. PICK i \in LangIx : Registry[i].name \in LanguageExes /\ t \in TasksFor(i)
  BY DEF Proper
<1>2. t.lang = Registry[i].name /\ t.op \in KnownOp
  BY <1>1 DEF TasksFor
<1>3. LangSupport(t.lang).tier \in 0 .. 3
  BY <1>2, SupportOfName, TaskPlanAssumption
<1>4. (IF t.templated THEN 2 ELSE 1) \in 0 .. 3
  OBVIOUS
<1>5. OpWeight(t.op) \in 0 .. 3
  BY <1>2 DEF OpWeight, KnownOp
<1>6. TaskWeight(t) \in Weight
  BY <1>3, <1>4, <1>5 DEF TaskWeight, Weight
<1> QED BY <1>1, <1>2, <1>6

\* Weights are compared from left to right and positions break ties: a strict
\* order.
LEMMA SoonerOrders ==
  ASSUME NEW K, K \subseteq Weight \X Nat, \A t, u \in K : t[2] = u[2] => t = u
  PROVE  Orders(SoonerThan(K), K)
<1>1. SoonerThan(K) \in [K -> SUBSET K] /\ \A t \in K : SoonerThan(K)[t] = {u \in K : Sooner(u, t)}
  BY DEF SoonerThan
<1>2. \A w \in Weight : w[1] \in 0 .. 3 /\ w[2] \in 0 .. 3 /\ w[3] \in 0 .. 3 /\ w = <<w[1], w[2], w[3]>>
  BY DEF Weight
<1>3. \A t \in K : t[1] \in Weight /\ t[2] \in Nat
  OBVIOUS
<1>4. \A w \in Weight : ~Heavier(w, w)
  BY <1>2 DEF Heavier
<1>5. \A v, w \in Weight : v # w => Heavier(v, w) \/ Heavier(w, v)
  BY <1>2 DEF Heavier
<1>6. \A v, w, x \in Weight : Heavier(v, w) /\ Heavier(w, x) => Heavier(v, x)
  <2> SUFFICES ASSUME NEW v \in Weight, NEW w \in Weight, NEW x \in Weight, Heavier(v, w), Heavier(w, x)
               PROVE  Heavier(v, x)
    OBVIOUS
  <2> QED
    BY <1>2 DEF Heavier
<1> HIDE DEF Heavier
<1>7. \A t \in K : ~Sooner(t, t)
  BY <1>3, <1>4 DEF Sooner
<1>8. \A t, u, x \in K : Sooner(x, u) /\ Sooner(u, t) => Sooner(x, t)
  BY <1>3, <1>6 DEF Sooner
<1>9. \A t, u \in K : t # u => Sooner(t, u) \/ Sooner(u, t)
  <2> SUFFICES ASSUME NEW t \in K, NEW u \in K, t # u PROVE Sooner(t, u) \/ Sooner(u, t)
    OBVIOUS
  <2>1. t[2] # u[2]
    OBVIOUS
  <2> QED
    BY <1>3, <1>5, <2>1 DEF Sooner
<1> QED
  <2>1. \A t \in K : t \notin SoonerThan(K)[t]
    BY <1>1, <1>7
  <2>2. \A t \in K : \A u \in SoonerThan(K)[t] : SoonerThan(K)[u] \subseteq SoonerThan(K)[t]
    BY <1>1, <1>8
  <2>3. \A t, u \in K : t # u => t \in SoonerThan(K)[u] \/ u \in SoonerThan(K)[t]
    BY <1>1, <1>9
  <2> QED BY <1>1, <2>1, <2>2, <2>3 DEF Orders

\* The sorted list has the tasks of the list, each as often: its positions are
\* those of the list in another order, the heavier ones first and equal ones in
\* the order they had.
LEMMA SortPermutes ==
  ASSUME NEW ts \in Seq(Proper)
  PROVE  LET at == [n \in DOMAIN ts |-> Order(ts)[n][2]]
         IN /\ at \in Bijection(DOMAIN ts, DOMAIN ts)
            /\ \A m, n \in DOMAIN ts : m < n =>
                 \/ Heavier(TaskWeight(ts[at[m]]), TaskWeight(ts[at[n]]))
                 \/ TaskWeight(ts[at[m]]) = TaskWeight(ts[at[n]]) /\ at[m] < at[n]
<1> DEFINE K == Keyed(ts)
           o == Order(ts)
           D == DOMAIN ts
           at == [n \in D |-> o[n][2]]
           key == [i \in D |-> <<TaskWeight(ts[i]), i>>]
<1>1. D = 1 .. Len(ts) /\ Len(ts) \in Nat /\ D \subseteq Nat
  OBVIOUS
<1>2. \A i \in D : TaskWeight(ts[i]) \in Weight
  BY ProperTyped
<1>3. K \subseteq Weight \X Nat /\ \A t, u \in K : t[2] = u[2] => t = u
  BY <1>1, <1>2 DEF Keyed
<1>4. Orders(SoonerThan(K), K)
  BY <1>3, SoonerOrders
<1>5. key \in Bijection(D, K)
  BY DEF Keyed, Bijection, Injection, IsInjective, Surjection
<1>6. IsFiniteSet(D) /\ Cardinality(D) = Len(ts)
  BY <1>1, FS_Interval
<1>7. IsFiniteSet(K) /\ Cardinality(K) = Len(ts)
  <2>1. ExistsBijection(D, K)
    BY <1>5 DEF ExistsBijection
  <2> QED BY <1>6, <2>1, FS_Bijection
<1>8. o \in Bijection(D, K) /\ \A m, n \in D : m < n => o[m] \in SoonerThan(K)[o[n]]
  BY <1>1, <1>4, <1>7, InOrderLists DEF Order
<1> HIDE DEF o
<1>9. \A k \in K : k[2] \in D /\ k = <<TaskWeight(ts[k[2]]), k[2]>>
  BY DEF Keyed
<1>10. \A i \in D : <<TaskWeight(ts[i]), i>> \in K
  BY DEF Keyed
<1> HIDE DEF K
<1>11. o \in [D -> K] /\ (\A m, n \in D : o[m] = o[n] => m = n) /\ (\A k \in K : \E n \in D : o[n] = k)
  BY <1>8 DEF Bijection, Injection, IsInjective, Surjection
<1>12. at \in [D -> D]
  BY <1>9, <1>11
<1>13. \A m, n \in D : at[m] = at[n] => m = n
  BY <1>9, <1>11
<1>14. \A i \in D : \E n \in D : at[n] = i
  <2> SUFFICES ASSUME NEW i \in D PROVE \E n \in D : at[n] = i
    OBVIOUS
  <2>1. PICK n \in D : o[n] = <<TaskWeight(ts[i]), i>>
    BY <1>10, <1>11
  <2> QED BY <2>1
<1>15. at \in Bijection(D, D)
  BY <1>12, <1>13, <1>14 DEF Bijection, Injection, IsInjective, Surjection
<1>16. ASSUME NEW m \in D, NEW n \in D, m < n
       PROVE  \/ Heavier(TaskWeight(ts[at[m]]), TaskWeight(ts[at[n]]))
              \/ TaskWeight(ts[at[m]]) = TaskWeight(ts[at[n]]) /\ at[m] < at[n]
  <2>1. o[m] \in K /\ o[n] \in K /\ Sooner(o[m], o[n])
    BY <1>8, <1>11, <1>16 DEF SoonerThan
  <2>2. o[m][1] = TaskWeight(ts[at[m]]) /\ o[n][1] = TaskWeight(ts[at[n]])
    BY <1>9, <2>1
  <2> QED BY <2>1, <2>2 DEF Sooner
<1> QED
  BY <1>15, <1>16 DEF o

LEMMA SortStep ==
  ASSUME Sort, tasks \in Seq(Proper)
  PROVE  /\ tasks' = [n \in DOMAIN tasks |-> tasks[Order(tasks)[n][2]]]
         /\ DOMAIN tasks' = DOMAIN tasks /\ tasks' \in Seq(Proper)
<1>1. tasks' = [n \in DOMAIN tasks |-> tasks[Order(tasks)[n][2]]]
  BY DEF Sort, Order, Keyed, SoonerThan
<1>2. \A n \in DOMAIN tasks : Order(tasks)[n][2] \in DOMAIN tasks
  BY SortPermutes DEF Bijection, Injection
<1>3. DOMAIN tasks = 1 .. Len(tasks) /\ Len(tasks) \in Nat
  OBVIOUS
<1>4. \A n \in DOMAIN tasks : tasks[Order(tasks)[n][2]] \in Proper
  BY <1>2
<1> QED
  BY <1>1, <1>3, <1>4

-----------------------------------------------------------------------------
(***************************************************************************)
(* The loops.                                                              *)
(***************************************************************************)
LEMMA PlannedIsProper ==
  ASSUME NEW i \in LangIx, NEW op \in KnownOp \cap Registry[i].ops,
         Registry[i].name \in LanguageExes, NEW d, d = Capped(Registry[i].limit, Asked)
  PROVE  TasksOf(Registry[i], op, d) \in Seq(Proper)
<1>1. ASSUME NEW k \in 1 .. NPlanned(i)
      PROVE  [lang |-> Registry[i].name, runner |-> RunnerAt(i, k), op |-> op,
              templated |-> Variants(Registry[i])[VariantAt(i, k)], dims |-> d] \in Proper
  <2>1. RunnerAt(i, k) \in 1 .. NRunners(i) /\ VariantAt(i, k) \in 1 .. Len(Variants(Registry[i]))
    BY PlacesTyped
  <2>2. Variants(Registry[i])[VariantAt(i, k)] \in BOOLEAN
    <3> DEFINE V == Len(Variants(Registry[i]))
    <3>0. V \in 1 .. 2
      BY VariantsListed
    <3>1. VariantAt(i, k) = 1 \/ (VariantAt(i, k) = 2 /\ V = 2)
      <4> HIDE DEF V
      <4>1. VariantAt(i, k) \in 1 .. V
        BY <2>1 DEF V
      <4> QED BY <3>0, <4>1
    <3> QED BY <3>1, VariantsListed, Zenon
  <2>3. [lang |-> Registry[i].name, runner |-> RunnerAt(i, k), op |-> op,
         templated |-> Variants(Registry[i])[VariantAt(i, k)], dims |-> d] \in TasksFor(i)
    BY <2>1, <2>2 DEF TasksFor, NRunners
  <2> QED BY <2>3 DEF Proper
<1>2. NPlanned(i) \in Nat
  BY PlacesTyped
<1> DEFINE Planned(k) == [lang |-> Registry[i].name, runner |-> RunnerAt(i, k), op |-> op,
                          templated |-> Variants(Registry[i])[VariantAt(i, k)], dims |-> d]
<1>3. TasksOf(Registry[i], op, d) = [k \in 1 .. NPlanned(i) |-> Planned(k)]
  BY TasksOfTyped
<1>4. \A k \in 1 .. NPlanned(i) : Planned(k) \in Proper
  BY <1>1
<1> HIDE DEF Planned
<1> QED
  BY <1>2, <1>3, <1>4

\* The turn of both loops moves on in the table of languages and operations.
LEMMA TurnsTyped ==
  ASSUME LoopsOK, Turn, NextTurn
  PROVE  opIx' \in 1 .. Len(Operations) + 1 /\ langIx' \in LangIx
<1>1. Operations \in Seq(KnownOp)
  BY OperationsTyped DEF LoopsOK
<1>2. Len(Operations) \in Nat /\ Len(Registry) \in Nat \ {0}
  BY <1>1, RegistryAssumption
<1>3. /\ opIx \in 1 .. Len(Operations) /\ langIx \in 1 .. Len(Registry)
  BY <1>2 DEF LoopsOK, Turn, LangIx
<1>4. /\ langIx' = IF langIx < Len(Registry) THEN langIx + 1 ELSE 1
      /\ opIx' = IF langIx < Len(Registry) THEN opIx ELSE opIx + 1
  BY DEF NextTurn
<1> QED
  BY <1>2, <1>3, <1>4 DEF LangIx

LEMMA RequestStays ==
  ASSUME UNCHANGED request
  PROVE  Asked' = Asked /\ Operations' = Operations /\ Proper' = Proper
BY DEF Asked, Operations, Proper, TasksFor, LanguageExes

LEMMA WarningNamed ==
  ASSUME NEW i \in LangIx, NEW d
  PROVE  WarningOf(Registry[i], d).lang \in {Registry[j].name : j \in LangIx} \cup {""}
BY DEF WarningOf

LEMMA PlanInductive == PlanInv /\ [Next]_vars => PlanInv'
<1> SUFFICES ASSUME PlanInv, [Next]_vars PROVE PlanInv'
  OBVIOUS
<1>0. request' = request /\ Asked' = Asked /\ Operations' = Operations /\ Proper' = Proper
  BY RequestStays DEF Next, SkipLanguage, PlanLanguage, EndPlan, Sort, PickCpus, vars
<1>1. ASSUME Turn, NextTurn, UNCHANGED <<pc, args>> PROVE LoopsOK'
  BY <1>0, <1>1, TurnsTyped DEF PlanInv, LoopsOK
<1>2. ASSUME UNCHANGED <<opIx, langIx, args>>, pc' \in {"plan", "sort", "cpus", "ready"}
      PROVE  LoopsOK'
  BY <1>0, <1>2 DEF PlanInv, LoopsOK
<1>3. UNCHANGED tasks => TasksOK'
  BY <1>0 DEF PlanInv, TasksOK
<1>4. UNCHANGED reported => WarningsOK'
  BY DEF PlanInv, WarningsOK
<1>5. UNCHANGED pool => PoolOK'
  BY DEF PlanInv, PoolOK
<1>6. CASE SkipLanguage
  BY <1>1, <1>3, <1>4, <1>5, <1>6 DEF SkipLanguage, PlanInv
<1>7. CASE PlanLanguage
  <2>1. opIx \in 1 .. Len(Operations)
    <3>1. Operations \in Seq(KnownOp)
      BY OperationsTyped DEF PlanInv, LoopsOK
    <3>2. Len(Operations) \in Nat
      BY <3>1
    <3> QED BY <1>7, <3>2 DEF PlanLanguage, Turn, PlanInv, LoopsOK
  <2>2. Operations[opIx] \in KnownOp
    <3>1. Operations \in Seq(KnownOp)
      BY OperationsTyped DEF PlanInv, LoopsOK
    <3> QED BY <2>1, <3>1
  <2>3. /\ langIx \in LangIx /\ This = Registry[langIx] /\ This.name \in LanguageExes
        /\ Operations[opIx] \in KnownOp \cap This.ops /\ args = Asked
    BY <1>7, <2>2 DEF PlanLanguage, Wanted, This, PlanInv, LoopsOK
  <2>4. TasksOf(This, Operations[opIx], Capped(This.limit, args)) \in Seq(Proper)
    BY <2>3, PlannedIsProper
  <2>5. TasksOK'
    <3>1. tasks' = tasks \o TasksOf(This, Operations[opIx], Capped(This.limit, args))
      BY <1>7 DEF PlanLanguage
    <3>2. tasks \in Seq(Proper)
      BY DEF PlanInv, TasksOK
    <3>3. tasks' \in Seq(Proper)
      BY <2>4, <3>1, <3>2
    <3> QED BY <1>0, <3>3 DEF TasksOK
  <2>6. WarningsOK'
    <3>1. reported' \subseteq reported \cup {WarningOf(Registry[langIx], args)}
      BY <1>7, <2>3 DEF PlanLanguage
    <3> QED BY <2>3, <3>1, WarningNamed DEF PlanInv, WarningsOK
  <2> QED
    BY <1>1, <1>5, <1>7, <2>5, <2>6 DEF PlanLanguage, PlanInv
<1>8. CASE EndPlan
  BY <1>2, <1>3, <1>4, <1>5, <1>8 DEF EndPlan, PlanInv
<1>9. CASE Sort
  <2>1. TasksOK'
    BY <1>0, <1>9, SortStep DEF PlanInv, TasksOK
  <2> QED
    BY <1>2, <1>4, <1>5, <1>9, <2>1 DEF Sort, PlanInv
<1>10. CASE PickCpus
  <2>1. PICK m \in Machine :
          pool' = [on |-> {m}, cpus |-> GetAvailableCpus(m).cpus, by |-> GetAvailableCpus(m).by,
                   size |-> CpuUseCount(GetAvailableCpus(m))]
    BY <1>10 DEF PickCpus
  <2>2. PoolOK'
    BY <2>1, AvailableCpusFit DEF PoolOK
  <2> QED
    BY <1>2, <1>3, <1>4, <1>10, <2>2 DEF PickCpus, PlanInv
<1>11. CASE UNCHANGED vars
  <2>1. pc \in {"plan", "sort", "cpus", "ready"}
    BY DEF PlanInv, LoopsOK
  <2> QED
    BY <1>2, <1>3, <1>4, <1>5, <1>11, <2>1 DEF vars, PlanInv
<1> QED
  BY <1>6, <1>7, <1>8, <1>9, <1>10, <1>11 DEF Next

LEMMA PlanInitially == Init => PlanInv
<1> SUFFICES ASSUME Init PROVE PlanInv
  OBVIOUS
<1>1. Operations \in Seq(KnownOp)
  BY OperationsTyped DEF Init
<1>2. Len(Operations) \in Nat
  BY <1>1
<1>3. 1 \in LangIx
  BY RegistryAssumption DEF LangIx
<1>4. LoopsOK /\ TasksOK
  BY <1>2, <1>3 DEF Init, LoopsOK, TasksOK, Asked
<1>5. WarningsOK /\ PoolOK
  BY DEF Init, WarningsOK, PoolOK
<1> QED
  BY <1>4, <1>5 DEF PlanInv

LEMMA PlanInvariant == Spec => []PlanInv
BY PlanInitially, PlanInductive, PTL DEF Spec

\* Every variable of the planning has its type; the operations and weights of the
\* planned tasks are ones the rest of the program knows.
THEOREM PlanTypes == Spec => []TypeOK
<1>1. PlanInv => TypeOK
  <2> SUFFICES ASSUME PlanInv PROVE TypeOK
    OBVIOUS
  <2>1. tasks \in Seq(Proper)
    BY DEF PlanInv, TasksOK
  <2>2. \A t \in ToSet(tasks) : t \in Proper
    BY <2>1 DEF ToSet
  <2>3. args \in [fc : Int, fd : Int]
    BY AskedTyped DEF PlanInv, LoopsOK
  <2>4. \A t \in ToSet(tasks) : t.op \in KnownOp /\ TaskWeight(t) \in Weight
    BY <2>2, ProperTyped
  <2> QED
    BY <2>3, <2>4 DEF PlanInv, LoopsOK, WarningsOK, PoolOK, TypeOK
<1> QED
  BY <1>1, PlanInvariant, PTL

-----------------------------------------------------------------------------
\* What a planned task is told to generate.
LEMMA DimsOfTask ==
  ASSUME PlanInv, NEW k \in DOMAIN tasks
  PROVE  \E i \in LangIx : /\ tasks[k].lang = Registry[i].name
                           /\ LangSupport(tasks[k].lang) = Registry[i]
                           /\ tasks[k].dims = Capped(Registry[i].limit, Asked)
<1>1. tasks[k] \in Proper
  <2>1. tasks \in Seq(Proper)
    BY DEF PlanInv, TasksOK
  <2> QED BY <2>1
<1>2. PICK i \in LangIx : tasks[k] \in TasksFor(i)
  BY <1>1, ProperTyped
<1>3. tasks[k].lang = Registry[i].name /\ tasks[k].dims = Capped(Registry[i].limit, Asked)
  BY <1>2 DEF TasksFor
<1> QED
  BY <1>3, SupportOfName

\* Every task's program has the dimensions that its own language's limit makes of
\* the arguments, whatever was planned before it: limit_args only got a copy.
THEOREM LimitsDoNotLeakTheorem == Spec => []LimitsDoNotLeak
<1>1. PlanInv => LimitsDoNotLeak
  BY DimsOfTask DEF LimitsDoNotLeak, Asked
<1> QED
  BY <1>1, PlanInvariant, PTL

LEMMA ProductMonotone ==
  ASSUME NEW a \in Nat, NEW b \in Int, NEW c \in Int, b <= c
  PROVE  a * b <= a * c
<1>1. PICK d \in Nat : c = b + d
  <2>1. c - b \in Nat /\ c = b + (c - b)
    OBVIOUS
  <2> QED BY <2>1
<1>2. a * c = a * b + a * d /\ a * d >= 0
  BY <1>1
<1> QED
  BY <1>1, <1>2

\* Where caps are within what they replace, a capped program has no more functions
\* than the one asked for.
THEOREM CapShrinksTheorem == Spec => []CapShrinks
<1>1. PlanInv => CapShrinks
  <2> SUFFICES ASSUME PlanInv, NEW k \in DOMAIN tasks, tasks[k].lang \notin GrowingCap,
                      request.fc >= 0
               PROVE  tasks[k].dims.fc * tasks[k].dims.fd <= request.fc * request.fd
    BY DEF CapShrinks
  <2>1. PICK i \in LangIx : tasks[k].lang = Registry[i].name
                            /\ tasks[k].dims = Capped(Registry[i].limit, Asked)
    BY DimsOfTask
  <2> DEFINE limit == Registry[i].limit
  <2>2. /\ Asked = [fc |-> request.fc, fd |-> request.fd]
        /\ Asked.fc = request.fc /\ Asked.fd = request.fd
        /\ request.fc \in Nat /\ request.fd \in Int
    BY TaskPlanAssumption DEF PlanInv, LoopsOK, Asked
  <2>3. limit.kind \in {"none", "total", "depth"} /\ limit.least \in Nat /\ limit.dim \in Nat
    BY TaskPlanAssumption
  <2>4. /\ limit.kind = "total" => limit.dim * limit.dim <= limit.least
        /\ limit.kind = "depth" => limit.dim <= limit.least
    BY <2>1, CapAssumption
  <2> HIDE DEF limit
  <2>5. CASE ~Exceeds(limit, Asked)
    BY <2>1, <2>2, <2>5 DEF Capped, limit
  <2>6. CASE Exceeds(limit, Asked) /\ limit.kind = "depth"
    <3>1. limit.dim <= request.fd
      BY <2>2, <2>3, <2>4, <2>6 DEF Exceeds
    <3>2. tasks[k].dims.fc = request.fc /\ tasks[k].dims.fd = limit.dim
      BY <2>1, <2>2, <2>6 DEF Capped, limit
    <3> QED
      BY <2>2, <2>3, <3>1, <3>2, ProductMonotone
  <2>7. CASE Exceeds(limit, Asked) /\ limit.kind # "depth"
    <3>1. limit.kind = "total" /\ request.fc * request.fd >= limit.least
      BY <2>2, <2>7 DEF Exceeds
    <3>2. tasks[k].dims.fc = limit.dim /\ tasks[k].dims.fd = limit.dim
      BY <2>1, <2>7 DEF Capped, limit
    <3>3. limit.dim * limit.dim \in Nat /\ request.fc * request.fd \in Int
      BY <2>2, <2>3
    <3> QED
      BY <2>3, <2>4, <3>1, <3>2, <3>3
  <2> QED BY <2>5, <2>6, <2>7
<1> QED
  BY <1>1, PlanInvariant, PTL

\* Whatever dimensions the limits leave, a program calls only functions it defines.
THEOREM ProgramsAreClosedTheorem == Spec => []ProgramsAreClosed
<1>1. PlanInv => ProgramsAreClosed
  <2> SUFFICES ASSUME PlanInv, NEW k \in DOMAIN tasks, request.fd >= 1
               PROVE  Closed(tasks[k].dims.fc, tasks[k].dims.fd)
    BY DEF ProgramsAreClosed
  <2>1. PICK i \in LangIx : tasks[k].dims = Capped(Registry[i].limit, Asked)
    BY DimsOfTask
  <2>2. Asked \in [fc : Int, fd : Int]
    BY AskedTyped DEF PlanInv, LoopsOK
  <2>3. /\ Registry[i].limit.kind \in {"none", "total", "depth"}
        /\ Registry[i].limit.kind # "none" => Registry[i].limit.dim \in Nat \ {0}
    BY TaskPlanAssumption
  <2>4. Asked.fd \in Nat \ {0}
    BY <2>2, AskedTyped DEF PlanInv, LoopsOK
  <2>5. /\ Capped(Registry[i].limit, Asked).fc \in Int
        /\ Capped(Registry[i].limit, Asked).fd \in Nat \ {0}
    BY <2>2, <2>3, <2>4 DEF Capped, Exceeds
  <2> QED
    BY <2>1, <2>5, GeneratedProgramIsClosed
<1> QED
  BY <1>1, PlanInvariant, PTL

-----------------------------------------------------------------------------
\* The pool is what the driver needs: at least one worker, no more than CPUs,
\* all of which the process may use; one thread per core where cores are known.
THEOREM PoolFitsCpusTheorem == Spec => []PoolFitsCpus
<1> DEFINE Picked == \A m \in pool.on :
                       /\ m \in Machine
                       /\ LET r == GetAvailableCpus(m)
                          IN pool.cpus = r.cpus /\ pool.by = r.by /\ pool.size = CpuUseCount(r)
<1>1. Init => Picked
  BY DEF Init
<1>2. Picked /\ [Next]_vars => Picked'
  <2> SUFFICES ASSUME Picked, [Next]_vars PROVE Picked'
    OBVIOUS
  <2>1. CASE PickCpus
    <3>1. PICK m \in Machine :
            pool' = [on |-> {m}, cpus |-> GetAvailableCpus(m).cpus, by |-> GetAvailableCpus(m).by,
                     size |-> CpuUseCount(GetAvailableCpus(m))]
      BY <2>1 DEF PickCpus
    <3> QED BY <3>1
  <2>2. CASE ~PickCpus
    <3>1. pool' = pool
      BY <2>2 DEF Next, SkipLanguage, PlanLanguage, EndPlan, Sort, vars
    <3> QED BY <3>1
  <2> QED BY <2>1, <2>2
<1>3. Picked => PoolFitsCpus
  <2> SUFFICES ASSUME Picked, NEW m \in pool.on
               PROVE  /\ 1 <= pool.size /\ pool.size <= Cardinality(pool.cpus)
                      /\ pool.cpus \subseteq m.affinity
                      /\ pool.by \in {"core type", "pmu", "capacity"} =>
                           OneThreadPerCore(m, pool.cpus)
    BY DEF PoolFitsCpus, OneThreadPerCore
  <2> QED
    BY AvailableCpusFit DEF Fits
<1> QED
  BY <1>1, <1>2, <1>3, PTL DEF Spec

-----------------------------------------------------------------------------
(***************************************************************************)
(* Exactness: for each language asked for, operation it supports, variant  *)
(* and runner the list has one task per turn of the outer loop that met    *)
(* the operation and has passed the language.                              *)
(***************************************************************************)
Match(t, i, op, v, r) ==
  t.op = op /\ t.lang = Registry[i].name /\ t.templated = v /\ t.runner = r

Has(ts, i, op, v, r) == {k \in DOMAIN ts : Match(ts[k], i, op, v, r)}

Turned(i, op, ops, ox, lx) ==
  {j \in DOMAIN ops : ops[j] = op /\ (j < ox \/ (j = ox /\ i < lx))}

Counted ==
  \A i \in LangIx, op \in KnownOp : Wanted(Registry[i], op) =>
    \A v \in Registry[i].templated, r \in 1 .. NRunners(i) :
      Cardinality(Has(tasks, i, op, v, r)) = Cardinality(Turned(i, op, Operations, opIx, langIx))

LoopsDone == pc # "plan" => opIx > Len(Operations)

\* A variant of a language has one index.
LEMMA VariantIndex ==
  ASSUME NEW i \in LangIx, NEW v \in Registry[i].templated
  PROVE  \E a \in 1 .. Len(Variants(Registry[i])) :
           \A b \in 1 .. Len(Variants(Registry[i])) : Variants(Registry[i])[b] = v <=> b = a
<1> DEFINE V == Len(Variants(Registry[i]))
<1>1. V \in 1 .. 2 /\ (\A b \in 1 .. V : b = 1 \/ (b = 2 /\ V = 2)) /\ 1 \in 1 .. V /\ 1 # 2
  <2>1. V \in 1 .. 2
    BY VariantsListed
  <2> HIDE DEF V
  <2> QED BY <2>1
<1>2. v = TRUE \/ v = FALSE
  BY TaskPlanAssumption, Zenon
<1>3. CASE v = FALSE
  <2>1. \A b \in 1 .. V : Variants(Registry[i])[b] = v <=> b = 1
    BY <1>1, <1>3, VariantsListed, Zenon
  <2> QED BY <1>1, <2>1, Zenon
<1>4. CASE v = TRUE
  <2>1. V = 2
    BY <1>4, VariantsListed, Zenon
  <2>2. 2 \in 1 .. V
    BY <2>1
  <2>3. \A b \in 1 .. V : Variants(Registry[i])[b] = v <=> b = 2
    BY <1>1, <1>4, <2>1, VariantsListed, Zenon
  <2> QED BY <2>2, <2>3, Zenon
<1> QED BY <1>2, <1>3, <1>4

\* The place of a variant and a runner among the tasks of a turn.
LEMMA PlaceOfPair ==
  ASSUME NEW i \in LangIx, NEW a \in 1 .. Len(Variants(Registry[i])), NEW r \in 1 .. NRunners(i)
  PROVE  \E k \in 1 .. NPlanned(i) :
           /\ RunnerAt(i, k) = r /\ VariantAt(i, k) = a
           /\ k = (a - 1) * NRunners(i) + r
<1>1. PICK n \in Nat \ {0} : n = NRunners(i)
  <2>1. NRunners(i) \in Nat
    BY PlacesTyped
  <2> QED BY <2>1
<1>2. PICK V \in 1 .. 2 : V = Len(Variants(Registry[i]))
  BY VariantsListed
<1>3. PICK k : k = (a - 1) * n + r
  OBVIOUS
<1>4. a \in 1 .. V /\ r \in 1 .. n
  BY <1>1, <1>2
<1>5. k \in 1 .. V * n /\ ((k - 1) % n) + 1 = r /\ ((k - 1) \div n) + 1 = a
  <2>1. CASE a = 1
    <3>1. r - 1 \in 0 .. n - 1 /\ k = r
      BY <1>3, <1>4, <2>1
    <3>2. (r - 1) \div n = 0 /\ (r - 1) % n = r - 1
      BY <3>1, SMT
    <3>3. n <= V * n
      <4>1. V * n = n \/ V * n = 2 * n
        OBVIOUS
      <4> QED BY <4>1
    <3> QED BY <1>4, <2>1, <3>1, <3>2, <3>3
  <2>2. CASE a = 2
    <3>1. V = 2 /\ k = n + r
      BY <1>3, <1>4, <2>2
    <3> DEFINE j == n + r - 1
    <3>2. j \in n .. 2 * n - 1
      BY <1>4
    <3> HIDE DEF j
    <3>3. j \div n = 1 /\ j % n = j - n
      BY <3>2, SMT
    <3> QED BY <1>4, <2>2, <3>1, <3>3 DEF j
  <2> QED BY <1>4, <2>1, <2>2
<1>6. NPlanned(i) = V * n
  BY <1>1, <1>2 DEF NPlanned
<1>7. RunnerAt(i, k) = r /\ VariantAt(i, k) = a
  BY <1>1, <1>5 DEF RunnerAt, VariantAt
<1> QED BY <1>1, <1>3, <1>5, <1>6, <1>7, Zenon

\* How many tasks a turn plans, and what the k-th is.
LEMMA PlannedMany ==
  ASSUME NEW i \in LangIx, NEW op, NEW d
  PROVE  DOMAIN TasksOf(Registry[i], op, d) = 1 .. NPlanned(i)
<1> DEFINE Planned(k) == [lang |-> Registry[i].name, runner |-> RunnerAt(i, k), op |-> op,
                          templated |-> Variants(Registry[i])[VariantAt(i, k)], dims |-> d]
<1>1. TasksOf(Registry[i], op, d) = [k \in 1 .. NPlanned(i) |-> Planned(k)]
  BY TasksOfTyped
<1> HIDE DEF Planned
<1> QED BY <1>1

LEMMA PlannedTask ==
  ASSUME NEW i \in LangIx, NEW op, NEW d, NEW k \in 1 .. NPlanned(i)
  PROVE  /\ TasksOf(Registry[i], op, d)[k].lang = Registry[i].name
         /\ TasksOf(Registry[i], op, d)[k].op = op
         /\ TasksOf(Registry[i], op, d)[k].runner = RunnerAt(i, k)
         /\ TasksOf(Registry[i], op, d)[k].templated = Variants(Registry[i])[VariantAt(i, k)]
<1> DEFINE Planned(l) == [lang |-> Registry[i].name, runner |-> RunnerAt(i, l), op |-> op,
                          templated |-> Variants(Registry[i])[VariantAt(i, l)], dims |-> d]
<1>1. TasksOf(Registry[i], op, d) = [l \in 1 .. NPlanned(i) |-> Planned(l)]
  BY TasksOfTyped
<1>2. /\ Planned(k).lang = Registry[i].name /\ Planned(k).op = op
      /\ Planned(k).runner = RunnerAt(i, k)
      /\ Planned(k).templated = Variants(Registry[i])[VariantAt(i, k)]
  OBVIOUS
<1> HIDE DEF Planned
<1>3. TasksOf(Registry[i], op, d)[k] = Planned(k)
  BY <1>1
<1> QED BY <1>2, <1>3, Zenon

LEMMA PlannedMatches ==
  ASSUME NEW i \in LangIx, NEW op, NEW d, NEW v, NEW r, NEW k \in 1 .. NPlanned(i)
  PROVE  Match(TasksOf(Registry[i], op, d)[k], i, op, v, r)
           <=> RunnerAt(i, k) = r /\ Variants(Registry[i])[VariantAt(i, k)] = v
<1> DEFINE t == TasksOf(Registry[i], op, d)[k]
<1>1. t.lang = Registry[i].name
  BY PlannedTask
<1>2. t.op = op
  BY PlannedTask
<1>3. t.runner = RunnerAt(i, k)
  BY PlannedTask
<1>4. t.templated = Variants(Registry[i])[VariantAt(i, k)]
  BY PlannedTask
<1> HIDE DEF t
<1>5. Match(t, i, op, v, r)
        <=> t.op = op /\ t.lang = Registry[i].name /\ t.templated = v /\ t.runner = r
  BY DEF Match
<1>6. Match(t, i, op, v, r)
        <=> RunnerAt(i, k) = r /\ Variants(Registry[i])[VariantAt(i, k)] = v
  BY <1>1, <1>2, <1>3, <1>4, <1>5, Zenon
<1> QED BY <1>6 DEF t

\* Tasks of other languages and operations do not count.
LEMMA OthersMatchNot ==
  ASSUME NEW l \in LangIx, NEW o, NEW d, NEW i \in LangIx, NEW op, NEW v, NEW r,
         ~(l = i /\ o = op), NEW k \in 1 .. NPlanned(l)
  PROVE  ~Match(TasksOf(Registry[l], o, d)[k], i, op, v, r)
<1> DEFINE t == TasksOf(Registry[l], o, d)[k]
<1>1. t.lang = Registry[l].name
  BY PlannedTask
<1>2. t.op = o
  BY PlannedTask
<1> HIDE DEF t
<1>3. Registry[l].name = Registry[i].name => l = i
  BY RegistryAssumption
<1>4. ~Match(t, i, op, v, r)
  BY <1>1, <1>2, <1>3 DEF Match
<1> QED BY <1>4 DEF t

PlansOne(us, i, op, v, r) ==
  \E m \in 1 .. NPlanned(i) : \A k \in 1 .. NPlanned(i) : Match(us[k], i, op, v, r) <=> k = m

\* One turn plans one task for a variant and a runner.
LEMMA OneTaskEach ==
  ASSUME NEW i \in LangIx, NEW op, NEW d, NEW v \in Registry[i].templated,
         NEW r \in 1 .. NRunners(i)
  PROVE  PlansOne(TasksOf(Registry[i], op, d), i, op, v, r)
<1> DEFINE n == NRunners(i)
           V == Len(Variants(Registry[i]))
<1>1. PICK a \in 1 .. V : \A b \in 1 .. V : Variants(Registry[i])[b] = v <=> b = a
  BY VariantIndex
<1>3. PICK m \in 1 .. NPlanned(i) :
        RunnerAt(i, m) = r /\ VariantAt(i, m) = a /\ m = (a - 1) * n + r
  BY PlaceOfPair
<1>4. ASSUME NEW k \in 1 .. NPlanned(i)
      PROVE  /\ VariantAt(i, k) \in 1 .. V
             /\ VariantAt(i, k) = a /\ RunnerAt(i, k) = r => k = m
  <2>1. VariantAt(i, k) \in 1 .. V /\ k = (VariantAt(i, k) - 1) * n + RunnerAt(i, k)
    BY PlacesTyped
  <2> QED BY <1>3, <2>1, Zenon
<1> HIDE DEF n, V
<1>5. ASSUME NEW k \in 1 .. NPlanned(i)
      PROVE  Match(TasksOf(Registry[i], op, d)[k], i, op, v, r) <=> k = m
  <2>1. Match(TasksOf(Registry[i], op, d)[k], i, op, v, r)
          <=> RunnerAt(i, k) = r /\ Variants(Registry[i])[VariantAt(i, k)] = v
    BY PlannedMatches
  <2>2. Variants(Registry[i])[VariantAt(i, k)] = v <=> VariantAt(i, k) = a
    BY <1>1, <1>4, Zenon
  <2>3. VariantAt(i, k) = a /\ RunnerAt(i, k) = r => k = m
    BY <1>4, Zenon
  <2>4. k = m => VariantAt(i, k) = a /\ RunnerAt(i, k) = r
    BY <1>3, Zenon
  <2> QED BY <2>1, <2>2, <2>3, <2>4, Zenon
<1> DEFINE us == TasksOf(Registry[i], op, d)
<1>6. \A k \in 1 .. NPlanned(i) : Match(us[k], i, op, v, r) <=> k = m
  BY <1>5
<1> HIDE DEF us
<1>7. PlansOne(us, i, op, v, r)
  BY <1>3, <1>6 DEF PlansOne
<1> QED
  BY <1>7 DEF us

\* The list before and after one turn, and how far the loops are.
LEMMA HasOfConcat ==
  ASSUME NEW X, NEW ts \in Seq(X), NEW us \in Seq(X), NEW i, NEW op, NEW v, NEW r
  PROVE  Has(ts \o us, i, op, v, r)
           = Has(ts, i, op, v, r) \cup {Len(ts) + k : k \in Has(us, i, op, v, r)}
<1> DEFINE a == Len(ts)
           b == Len(us)
           all == ts \o us
           M(t) == Match(t, i, op, v, r)
<1>1. a \in Nat /\ b \in Nat /\ DOMAIN ts = 1 .. a /\ DOMAIN us = 1 .. b /\ DOMAIN all = 1 .. a + b
  OBVIOUS
<1>2. \A k \in 1 .. a : all[k] = ts[k]
  OBVIOUS
<1>3. \A k \in 1 .. b : all[a + k] = us[k]
  OBVIOUS
<1>4. \A s : Has(s, i, op, v, r) = {k \in DOMAIN s : M(s[k])}
  BY DEF Has
<1> HIDE DEF M, all, a, b
<1>5. {k \in DOMAIN all : M(all[k])} \subseteq
        {k \in DOMAIN ts : M(ts[k])} \cup {a + k : k \in {l \in DOMAIN us : M(us[l])}}
  <2> SUFFICES ASSUME NEW k \in 1 .. a + b, M(all[k]), ~(k \in 1 .. a /\ M(ts[k]))
               PROVE  \E l \in 1 .. b : k = a + l /\ M(us[l])
    BY <1>1
  <2>1. k - a \in 1 .. b /\ k = a + (k - a)
    BY <1>1, <1>2
  <2>2. M(us[k - a])
    BY <1>3, <2>1
  <2> QED BY <2>1, <2>2
<1>6. {k \in DOMAIN ts : M(ts[k])} \cup {a + k : k \in {l \in DOMAIN us : M(us[l])}}
        \subseteq {k \in DOMAIN all : M(all[k])}
  <2>1. ASSUME NEW k \in 1 .. a, M(ts[k]) PROVE k \in DOMAIN all /\ M(all[k])
    BY <1>1, <1>2, <2>1
  <2>2. ASSUME NEW k \in 1 .. b, M(us[k]) PROVE a + k \in DOMAIN all /\ M(all[a + k])
    BY <1>1, <1>3, <2>2
  <2> QED BY <1>1, <2>1, <2>2
<1>7. {k \in DOMAIN all : M(all[k])} =
        {k \in DOMAIN ts : M(ts[k])} \cup {a + k : k \in {l \in DOMAIN us : M(us[l])}}
  BY <1>5, <1>6
<1> QED BY <1>4, <1>7 DEF all, a

LEMMA HasFinite ==
  ASSUME NEW X, NEW ts \in Seq(X), NEW i, NEW op, NEW v, NEW r
  PROVE  IsFiniteSet(Has(ts, i, op, v, r)) /\ Cardinality(Has(ts, i, op, v, r)) \in Nat
<1>1. Has(ts, i, op, v, r) \in SUBSET (1 .. Len(ts)) /\ Len(ts) \in Nat
  BY DEF Has
<1>2. IsFiniteSet(1 .. Len(ts))
  BY <1>1, FS_Interval
<1> QED
  BY <1>1, <1>2, FS_Subset, FS_CardinalityType

Grown(ts, l, o, d) == ts \o TasksOf(Registry[l], o, d)
Adds(l, o, i, op) == IF l = i /\ o = op THEN 1 ELSE 0

\* A turn of the language and operation adds one task, any other none.
LEMMA HasGrows ==
  ASSUME NEW ts \in Seq(Proper), NEW l \in LangIx, NEW o, NEW d,
         TasksOf(Registry[l], o, d) \in Seq(Proper),
         NEW i \in LangIx, NEW op, NEW v \in Registry[i].templated, NEW r \in 1 .. NRunners(i)
  PROVE  Cardinality(Has(Grown(ts, l, o, d), i, op, v, r)) =
           Cardinality(Has(ts, i, op, v, r)) + Adds(l, o, i, op)
<1>0. PlansOne(TasksOf(Registry[i], op, d), i, op, v, r)
  BY OneTaskEach
<1> DEFINE us == TasksOf(Registry[l], o, d)
           all == Grown(ts, l, o, d)
           H == Has(ts, i, op, v, r)
           U == Has(us, i, op, v, r)
<1>1. Has(all, i, op, v, r) = H \cup {Len(ts) + k : k \in U}
  BY HasOfConcat DEF Grown
<1>2. DOMAIN us = 1 .. NPlanned(l)
  BY PlannedMany
<1>3. U = {k \in 1 .. NPlanned(l) : Match(us[k], i, op, v, r)}
  BY <1>2 DEF Has
<1>4. IsFiniteSet(H) /\ Cardinality(H) \in Nat
  BY HasFinite
<1>5. CASE l = i /\ o = op
  <2>0. us = TasksOf(Registry[i], op, d)
    BY <1>5
  <2>1. PICK m \in 1 .. NPlanned(i) : \A k \in 1 .. NPlanned(i) : Match(us[k], i, op, v, r) <=> k = m
    <3> HIDE DEF us
    <3> QED BY <1>0, <2>0 DEF PlansOne
  <2>2. U = {m}
    BY <1>3, <1>5, <2>1
  <2> HIDE DEF U
  <2>3. Has(all, i, op, v, r) = H \cup {Len(ts) + m}
    BY <1>1, <2>2
  <2>4. Len(ts) + m \notin H
    <3>1. H \subseteq 1 .. Len(ts) /\ Len(ts) \in Nat
      BY DEF Has
    <3>2. m >= 1 /\ m \in Int
      BY PlacesTyped
    <3> HIDE DEF H
    <3> QED BY <3>1, <3>2
  <2> HIDE DEF H
  <2>5. Cardinality(H \cup {Len(ts) + m}) = Cardinality(H) + 1
    BY <1>4, <2>4, FS_AddElement
  <2> QED BY <1>5, <2>3, <2>5 DEF H, Adds
<1>6. CASE ~(l = i /\ o = op)
  <2>1. ASSUME NEW k \in 1 .. NPlanned(l) PROVE ~Match(us[k], i, op, v, r)
    BY <1>6, <2>1, OthersMatchNot
  <2>2. U = {}
    BY <1>3, <2>1
  <2> HIDE DEF U
  <2>3. Has(all, i, op, v, r) = H
    BY <1>1, <2>2
  <2> HIDE DEF H
  <2>4. Cardinality(H) = Cardinality(H) + 0
    BY <1>4
  <2> QED BY <1>6, <2>3, <2>4 DEF H, Adds
<1> QED BY <1>5, <1>6

LEMMA TurnedFinite ==
  ASSUME LoopsOK, NEW i, NEW op, NEW ox, NEW lx
  PROVE  /\ IsFiniteSet(Turned(i, op, Operations, ox, lx))
         /\ Cardinality(Turned(i, op, Operations, ox, lx)) \in Nat
<1>0. Operations \in Seq(KnownOp)
  BY OperationsTyped DEF LoopsOK
<1>1. Turned(i, op, Operations, ox, lx) \in SUBSET (1 .. Len(Operations)) /\ Len(Operations) \in Nat
  BY <1>0 DEF Turned
<1>2. IsFiniteSet(1 .. Len(Operations))
  BY <1>1, FS_Interval
<1> QED
  BY <1>1, <1>2, FS_Subset, FS_CardinalityType

LEMMA TurnedGrows ==
  ASSUME LoopsOK, Turn, NextTurn, NEW i \in LangIx, NEW op
  PROVE  Cardinality(Turned(i, op, Operations, opIx', langIx')) =
           Cardinality(Turned(i, op, Operations, opIx, langIx))
             + Adds(langIx, Operations[opIx], i, op)
<1> DEFINE old == Turned(i, op, Operations, opIx, langIx)
           new == Turned(i, op, Operations, opIx', langIx')
           N == Len(Registry)
<1>1. Operations \in Seq(KnownOp)
  BY OperationsTyped DEF LoopsOK
<1>2. /\ DOMAIN Operations = 1 .. Len(Operations) /\ Len(Operations) \in Nat
      /\ opIx \in DOMAIN Operations
  BY <1>1 DEF LoopsOK, Turn
<1>3. N \in Nat \ {0} /\ langIx \in 1 .. N /\ i \in 1 .. N
  BY RegistryAssumption DEF LangIx, LoopsOK
<1>4. /\ langIx' = IF langIx < N THEN langIx + 1 ELSE 1
      /\ opIx' = IF langIx < N THEN opIx ELSE opIx + 1
  BY DEF NextTurn
<1> HIDE DEF N
<1>5. ASSUME NEW j \in DOMAIN Operations
      PROVE  (j < opIx' \/ (j = opIx' /\ i < langIx'))
               <=> (j < opIx \/ (j = opIx /\ i < langIx)) \/ (j = opIx /\ i = langIx)
  <2>1. j \in Nat /\ opIx \in Nat
    BY <1>2
  <2>2. CASE langIx < N
    <3>1. langIx' = langIx + 1 /\ opIx' = opIx
      BY <1>4, <2>2
    <3> QED BY <1>3, <2>1, <3>1
  <2>3. CASE ~(langIx < N)
    <3>1. langIx' = 1 /\ opIx' = opIx + 1 /\ langIx = N
      BY <1>3, <1>4, <2>3
    <3> QED BY <1>3, <2>1, <3>1
  <2> QED BY <2>2, <2>3
<1>6. old = {j \in DOMAIN Operations : Operations[j] = op /\ (j < opIx \/ (j = opIx /\ i < langIx))}
  BY DEF Turned
<1>7. new = {j \in DOMAIN Operations : Operations[j] = op /\ (j < opIx' \/ (j = opIx' /\ i < langIx'))}
  BY DEF Turned
<1>8. IsFiniteSet(old) /\ Cardinality(old) \in Nat
  BY TurnedFinite
<1> HIDE DEF old, new
<1>9. CASE langIx = i /\ Operations[opIx] = op
  <2>1. new = old \cup {opIx}
    BY <1>2, <1>5, <1>6, <1>7, <1>9
  <2>2. opIx \notin old
    BY <1>2, <1>3, <1>6, <1>9
  <2>3. Cardinality(old \cup {opIx}) = Cardinality(old) + 1
    BY <1>8, <2>2, FS_AddElement
  <2> QED BY <1>9, <2>1, <2>3 DEF old, new, Adds
<1>10. CASE ~(langIx = i /\ Operations[opIx] = op)
  <2>1. new = old
    BY <1>5, <1>6, <1>7, <1>10
  <2>2. Cardinality(old) = Cardinality(old) + 0
    BY <1>8
  <2> QED BY <1>10, <2>1, <2>2 DEF old, new, Adds
<1> QED BY <1>9, <1>10

\* The sort keeps each number of tasks.
LEMMA HasPermuted ==
  ASSUME NEW ts \in Seq(Proper), NEW us, us = [n \in DOMAIN ts |-> ts[Order(ts)[n][2]]],
         NEW i, NEW op, NEW v, NEW r
  PROVE  Cardinality(Has(us, i, op, v, r)) = Cardinality(Has(ts, i, op, v, r))
<1> DEFINE D == DOMAIN ts
           at == [n \in D |-> Order(ts)[n][2]]
           H == Has(ts, i, op, v, r)
           G == Has(us, i, op, v, r)
           f == [n \in G |-> at[n]]
<1>1. at \in Bijection(D, D)
  BY SortPermutes
<1>2. at \in [D -> D] /\ (\A m, n \in D : at[m] = at[n] => m = n) /\ \A k \in D : \E n \in D : at[n] = k
  BY <1>1 DEF Bijection, Injection, IsInjective, Surjection
<1>3. DOMAIN us = D /\ \A n \in D : us[n] = ts[at[n]]
  OBVIOUS
<1>4. IsFiniteSet(H)
  BY HasFinite
<1> HIDE DEF at
<1>5. G = {n \in D : Match(us[n], i, op, v, r)} /\ H = {n \in D : Match(ts[n], i, op, v, r)}
  BY <1>3 DEF Has
<1>6. G = {n \in D : at[n] \in H}
  <2>1. \A n \in D : at[n] \in D
    BY <1>2
  <2> HIDE DEF G, H, D
  <2> QED BY <1>3, <1>5, <2>1
<1>7. G \subseteq D /\ H \subseteq D
  BY <1>5
<1> HIDE DEF G, H, D
<1>8. f \in Bijection(G, H)
  <2>1. f \in [G -> H]
    BY <1>6
  <2>2. \A m, n \in G : f[m] = f[n] => m = n
    BY <1>2, <1>7
  <2>3. \A k \in H : \E n \in G : f[n] = k
    <3> SUFFICES ASSUME NEW k \in H PROVE \E n \in G : f[n] = k
      OBVIOUS
    <3>1. PICK n \in D : at[n] = k
      BY <1>2, <1>7
    <3> QED BY <1>6, <3>1
  <2> QED BY <2>1, <2>2, <2>3 DEF Bijection, Injection, IsInjective, Surjection
<1>9. ExistsBijection(H, G)
  <2>1. ExistsBijection(G, H)
    BY <1>8 DEF ExistsBijection
  <2> QED BY <2>1, Fun_ExistsBijSymmetric
<1>10. Cardinality(G) = Cardinality(H)
  BY <1>4, <1>9, FS_Bijection
<1> QED BY <1>10 DEF G, H

LEMMA CountedInitially == Init => Counted /\ LoopsDone
<1> SUFFICES ASSUME Init, NEW i \in LangIx, NEW op \in KnownOp,
                    NEW v \in Registry[i].templated, NEW r \in 1 .. NRunners(i)
             PROVE  Cardinality(Has(tasks, i, op, v, r)) =
                      Cardinality(Turned(i, op, Operations, opIx, langIx))
  BY DEF Init, Counted, LoopsDone
<1>1. Operations \in Seq(KnownOp)
  BY OperationsTyped DEF Init
<1>2. Has(tasks, i, op, v, r) = {}
  BY DEF Init, Has
<1>3. Turned(i, op, Operations, opIx, langIx) = {}
  <2>1. DOMAIN Operations \subseteq Nat \ {0} /\ i \in Nat \ {0} /\ opIx = 1 /\ langIx = 1
    BY <1>1, RegistryAssumption DEF Init, LangIx
  <2> QED BY <2>1 DEF Turned
<1> QED BY <1>2, <1>3

LEMMA CountedInductive == PlanInv /\ Counted /\ LoopsDone /\ [Next]_vars => Counted' /\ LoopsDone'
<1> SUFFICES ASSUME PlanInv, Counted, LoopsDone, [Next]_vars PROVE Counted' /\ LoopsDone'
  OBVIOUS
<1>0. request' = request /\ Operations' = Operations /\ LanguageExes' = LanguageExes
  BY RequestStays DEF Next, SkipLanguage, PlanLanguage, EndPlan, Sort, PickCpus, vars, LanguageExes
<1>1. LoopsOK /\ tasks \in Seq(Proper)
  BY DEF PlanInv, TasksOK
<1>2. ASSUME \A i \in LangIx, op \in KnownOp : Wanted(Registry[i], op) =>
               \A v \in Registry[i].templated, r \in 1 .. NRunners(i) :
                 Cardinality(Has(tasks', i, op, v, r))
                   = Cardinality(Turned(i, op, Operations, opIx', langIx'))
      PROVE  Counted'
  BY <1>0, <1>2 DEF Counted, Wanted
<1>3. ASSUME UNCHANGED <<opIx, langIx>>,
             \A i, op, v, r : Cardinality(Has(tasks', i, op, v, r)) = Cardinality(Has(tasks, i, op, v, r))
      PROVE  Counted'
  BY <1>2, <1>3 DEF Counted
<1>4. CASE SkipLanguage
  <2>1. Turn /\ NextTurn /\ tasks' = tasks /\ ~Wanted(Registry[langIx], Operations[opIx])
    BY <1>4 DEF SkipLanguage, This
  <2>2. ASSUME NEW i \in LangIx, NEW op \in KnownOp, Wanted(Registry[i], op),
               NEW v \in Registry[i].templated, NEW r \in 1 .. NRunners(i)
        PROVE  Cardinality(Has(tasks', i, op, v, r))
                 = Cardinality(Turned(i, op, Operations, opIx', langIx'))
    <3>1. ~(langIx = i /\ Operations[opIx] = op)
      BY <2>1, <2>2
    <3>2. Cardinality(Turned(i, op, Operations, opIx', langIx')) =
            Cardinality(Turned(i, op, Operations, opIx, langIx)) + 0
      BY <1>1, <2>1, <3>1, TurnedGrows DEF Adds
    <3>3. Cardinality(Turned(i, op, Operations, opIx, langIx)) \in Nat
      BY <1>1, TurnedFinite
    <3>4. Cardinality(Has(tasks, i, op, v, r)) = Cardinality(Turned(i, op, Operations, opIx, langIx))
      BY <2>2 DEF Counted
    <3> QED BY <2>1, <3>2, <3>3, <3>4
  <2>3. LoopsDone'
    BY <1>4 DEF SkipLanguage, Turn, LoopsDone
  <2> QED BY <1>2, <2>2, <2>3
<1>5. CASE PlanLanguage
  <2> DEFINE d == Capped(This.limit, args)
             o == Operations[opIx]
  <2>1. /\ Turn /\ NextTurn /\ Wanted(Registry[langIx], o) /\ langIx \in LangIx
        /\ tasks' = tasks \o TasksOf(Registry[langIx], o, d)
    BY <1>1, <1>5 DEF PlanLanguage, This, LoopsOK
  <2>2. TasksOf(Registry[langIx], o, d) \in Seq(Proper)
    <3>0. Operations \in Seq(KnownOp)
      BY <1>1, OperationsTyped DEF LoopsOK
    <3>1. opIx \in DOMAIN Operations
      BY <1>1, <2>1, <3>0 DEF LoopsOK, Turn
    <3>2. o \in KnownOp
      BY <3>0, <3>1
    <3>3. o \in KnownOp \cap Registry[langIx].ops /\ Registry[langIx].name \in LanguageExes
      BY <2>1, <3>2 DEF Wanted
    <3>4. d = Capped(Registry[langIx].limit, Asked)
      BY <1>1 DEF LoopsOK, This
    <3> HIDE DEF d, o
    <3> QED BY <2>1, <3>3, <3>4, PlannedIsProper
  <2> HIDE DEF d, o
  <2>3. ASSUME NEW i \in LangIx, NEW op \in KnownOp, Wanted(Registry[i], op),
               NEW v \in Registry[i].templated, NEW r \in 1 .. NRunners(i)
        PROVE  Cardinality(Has(tasks', i, op, v, r))
                 = Cardinality(Turned(i, op, Operations, opIx', langIx'))
    <3>1. Cardinality(Has(tasks', i, op, v, r)) =
            Cardinality(Has(tasks, i, op, v, r)) + Adds(langIx, o, i, op)
      <4>1. Cardinality(Has(Grown(tasks, langIx, o, d), i, op, v, r)) =
              Cardinality(Has(tasks, i, op, v, r)) + Adds(langIx, o, i, op)
        <5>1. tasks \in Seq(Proper) /\ langIx \in LangIx
          BY <1>1, <2>1
        <5>2. /\ i \in LangIx /\ v \in Registry[i].templated /\ r \in 1 .. NRunners(i)
          OBVIOUS
        <5> QED BY ONLY <2>2, <5>1, <5>2, HasGrows, SMTT(60)
      <4>2. tasks' = Grown(tasks, langIx, o, d)
        BY <2>1 DEF Grown
      <4> QED BY <4>1, <4>2
    <3>2. Cardinality(Turned(i, op, Operations, opIx', langIx')) =
            Cardinality(Turned(i, op, Operations, opIx, langIx)) + Adds(langIx, o, i, op)
      BY <1>1, <2>1, TurnedGrows DEF o
    <3>3. Cardinality(Has(tasks, i, op, v, r)) = Cardinality(Turned(i, op, Operations, opIx, langIx))
      BY <2>3 DEF Counted
    <3> QED BY <3>1, <3>2, <3>3
  <2>4. LoopsDone'
    BY <1>5 DEF PlanLanguage, Turn, LoopsDone
  <2> QED BY <1>2, <2>3, <2>4
<1>6. CASE EndPlan
  <2>1. opIx \in 1 .. Len(Operations) + 1 /\ opIx > Len(Operations) /\ opIx' = opIx
    BY <1>1, <1>6 DEF EndPlan, LoopsOK
  <2>2. LoopsDone'
    BY <1>0, <2>1 DEF LoopsDone
  <2> QED BY <1>3, <1>6, <2>2 DEF EndPlan
<1>7. CASE Sort
  <2>1. tasks' = [n \in DOMAIN tasks |-> tasks[Order(tasks)[n][2]]]
    BY <1>1, <1>7, SortStep
  <2>2. \A i, op, v, r : Cardinality(Has(tasks', i, op, v, r)) = Cardinality(Has(tasks, i, op, v, r))
    BY <1>1, <2>1, HasPermuted
  <2>3. LoopsDone'
    BY <1>0, <1>7 DEF Sort, LoopsDone
  <2> QED BY <1>3, <1>7, <2>2, <2>3 DEF Sort
<1>8. CASE PickCpus
  <2>1. LoopsDone'
    BY <1>0, <1>8 DEF PickCpus, LoopsDone
  <2> QED BY <1>3, <1>8, <2>1 DEF PickCpus
<1>9. CASE UNCHANGED vars
  <2>1. LoopsDone'
    BY <1>0, <1>9 DEF vars, LoopsDone
  <2> QED BY <1>3, <1>9, <2>1 DEF vars
<1> QED
  BY <1>4, <1>5, <1>6, <1>7, <1>8, <1>9 DEF Next

\* What a name is resolved to is the name of a registered language.
LEMMA ResolvedIsRegistered ==
  ASSUME NEW lang \in LanguageExes
  PROVE  \E i \in LangIx : Registry[i].name = lang
<1>1. PICK s \in request.spelled : lang = Normalize(s) /\ lang # ""
  BY DEF LanguageExes
<1> DEFINE matching == {i \in LangIx : s \in {Registry[i].key} \cup Registry[i].aliases}
<1>2. matching # {} /\ lang = Registry[Max(matching)].name
  BY <1>1 DEF Normalize
<1>3. matching \subseteq Nat /\ Len(Registry) \in Nat /\ \A x \in matching : x <= Len(Registry)
  BY RegistryAssumption DEF LangIx
<1>4. matching \subseteq LangIx
  OBVIOUS
<1> HIDE DEF matching
<1>5. \E x \in matching : \A y \in matching : y <= x
  BY <1>2, <1>3, GreatestMember
<1>6. \E x \in matching : \A y \in matching : x >= y
  BY <1>3, <1>5
<1>7. Max(matching) \in matching
  BY <1>6 DEF Max
<1> QED BY <1>2, <1>4, <1>7

\* The pool gets each task that was asked for, as often as it was asked for, no
\* other and none that would do nothing -- provided that the registry's aliases
\* are the documented ones and its runners serve the operations of their language.
THEOREM PlanIsExactTheorem ==
  ASSUME AliasesAsDocumented, NoIdleRunner
  PROVE  Spec => []PlanIsExact
<1>1. PlanInv /\ Counted /\ LoopsDone => PlanIsExact
  <2> SUFFICES ASSUME PlanInv, Counted, LoopsDone, Final PROVE PlanIsExact
    BY DEF PlanIsExact
  <2>0. LoopsOK /\ tasks \in Seq(Proper)
    BY DEF PlanInv, TasksOK
  <2>1. Promised = LanguageExes
    BY <2>0 DEF AliasesAsDocumented, LoopsOK, Promised, LanguageExes
  <2>2. ASSUME NEW op \in KnownOp, NEW lang \in Promised, op \in LangSupport(lang).ops,
               NEW v \in LangSupport(lang).templated,
               NEW r \in 1 .. Len(LangSupport(lang).runners)
        PROVE  Cardinality({k \in DOMAIN tasks :
                 /\ tasks[k].op = op /\ tasks[k].lang = lang
                 /\ tasks[k].templated = v /\ tasks[k].runner = r}) = OccurrencesOf(op)
    <3>1. PICK i \in LangIx : Registry[i].name = lang
      BY <2>1, ResolvedIsRegistered
    <3>2. LangSupport(lang) = Registry[i]
      BY <3>1, SupportOfName
    <3>3. Wanted(Registry[i], op) /\ v \in Registry[i].templated /\ r \in 1 .. NRunners(i)
      BY <2>1, <2>2, <3>1, <3>2 DEF Wanted, NRunners
    <3>4. Cardinality(Has(tasks, i, op, v, r)) = Cardinality(Turned(i, op, Operations, opIx, langIx))
      BY <3>3 DEF Counted
    <3>5. Has(tasks, i, op, v, r) = {k \in DOMAIN tasks :
                 /\ tasks[k].op = op /\ tasks[k].lang = lang
                 /\ tasks[k].templated = v /\ tasks[k].runner = r}
      BY <3>1 DEF Has, Match
    <3>6. Turned(i, op, Operations, opIx, langIx) = {j \in DOMAIN Operations : Operations[j] = op}
      <4>1. Operations \in Seq(KnownOp)
        BY <2>0, OperationsTyped DEF LoopsOK
      <4>2. \A j \in DOMAIN Operations : j \in Nat /\ j <= Len(Operations)
        BY <4>1
      <4>3. opIx \in Nat /\ Len(Operations) \in Nat /\ opIx > Len(Operations)
        BY <2>0, <4>1 DEF LoopsOK, LoopsDone, Final
      <4>4. \A j \in DOMAIN Operations : j < opIx
        BY <4>2, <4>3
      <4> QED BY <4>4 DEF Turned
    <3> QED BY <3>4, <3>5, <3>6 DEF OccurrencesOf
  <2>3. ASSUME NEW k \in DOMAIN tasks
        PROVE  /\ tasks[k].lang \in Promised
               /\ \E c \in DOMAIN LangSupport(tasks[k].lang).runners[tasks[k].runner] :
                    tasks[k].op \in LangSupport(tasks[k].lang).runners[tasks[k].runner][c].ops
    <3>1. tasks[k] \in Proper
      BY <2>0
    <3>2. PICK i \in LangIx : Registry[i].name \in LanguageExes /\ tasks[k] \in TasksFor(i)
      BY <3>1, ProperTyped
    <3>3. /\ tasks[k].lang = Registry[i].name /\ tasks[k].op \in KnownOp \cap Registry[i].ops
          /\ tasks[k].runner \in 1 .. Len(Registry[i].runners)
      BY <3>2 DEF TasksFor
    <3>4. Registry[i].runners[tasks[k].runner] \in ToSet(Registry[i].runners)
      BY <3>3, TaskPlanAssumption DEF ToSet
    <3>5. \E c \in DOMAIN Registry[i].runners[tasks[k].runner] :
            tasks[k].op \in Registry[i].runners[tasks[k].runner][c].ops
      BY <3>3, <3>4 DEF NoIdleRunner
    <3>6. LangSupport(tasks[k].lang) = Registry[i]
      BY <3>3, SupportOfName
    <3> QED BY <2>1, <3>2, <3>3, <3>5, <3>6
  <2> QED BY <2>2, <2>3 DEF PlanIsExact
<1>2. PlanInv /\ Counted /\ LoopsDone /\ [Next]_vars => PlanInv' /\ Counted' /\ LoopsDone'
  BY PlanInductive, CountedInductive
<1>3. Init => PlanInv /\ Counted /\ LoopsDone
  BY PlanInitially, CountedInitially
<1> QED
  BY <1>1, <1>2, <1>3, PTL DEF Spec
=============================================================================
