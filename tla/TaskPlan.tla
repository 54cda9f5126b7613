------------------------------ MODULE TaskPlan -------------------------------
(***************************************************************************)
(* What main() (cbench_pkg/cli.py) does between reading its arguments and  *)
(* starting the pool: it resolves the language names, parses the           *)
(* operations, builds the list of tasks operation by operation and         *)
(* language by language, each language's limits applied to a copy of the   *)
(* arguments, sorts the list and picks the CPUs.  The registry             *)
(* (cbench_pkg/types.py) is what the language modules registered, in that  *)
(* order.  Every language asked for is taken to be installed: what happens *)
(* to the others is Discovery's subject.                                   *)
(***************************************************************************)
EXTENDS LanguageRegistry, CpuTopology, Generation, Sorting

CONSTANTS Request,   \* [spelled, ops, astCheck, fc, fd]: the arguments
          Meaning,   \* spelling -> the language the documentation says it names
          Machine    \* machines the program may run on

KnownOp == {"ast-check", "check", "compile", "build", "run"}

ASSUME TaskPlanAssumption ==
  /\ \A r \in Request : r.ops \in Seq(STRING) /\ r.fc \in Int /\ r.fd \in Int
  /\ \A m \in Machine :
       m.affinity \subseteq Nat /\ m.affinity # {} /\ IsFiniteSet(m.affinity)
  /\ \A i \in LangIx :
       /\ Registry[i].tier \in 1 .. 3 /\ Registry[i].templated \subseteq BOOLEAN
       /\ Registry[i].limit \in [kind : {"none", "total", "depth"}, least : Nat, dim : Nat]
       /\ Registry[i].limit.kind # "none" => Registry[i].limit.dim > 0
       /\ Len(Registry[i].runners) \in Nat
       /\ DOMAIN Registry[i].runners = 1 .. Len(Registry[i].runners)

VARIABLES
  request,        \* the arguments
  pc,             \* "plan", "sort", "cpus", "ready"
  opIx, langIx,   \* the turn of the two loops
  args,           \* args.function_count and function_depth
  reported,       \* reported_warnings
  tasks,          \* the list
  pool            \* what the pool is created with

vars == <<request, pc, opIx, langIx, args, reported, tasks, pool>>

-----------------------------------------------------------------------------
\* The keys of language_exes.
LanguageExes == {Normalize(s) : s \in request.spelled} \ {""}

\* Operations that are no Op are dropped; --ast-check puts its own in front
\* unless it is there.  Repeated ones stay.
Operations ==
  LET known == KeepOnly(request.ops, KnownOp)
  IN IF request.astCheck /\ ~Contains(known, "ast-check")
     THEN <<"ast-check">> \o known ELSE known

\* Mutant: the product is compared with the dimension of the cap.
ExceedsDim(limit, d) ==
  \/ limit.kind = "total" /\ d.fc * d.fd > limit.dim
  \/ limit.kind = "depth" /\ d.fd >= limit.least

\* limit_args: the condition and the capped dimensions.
Exceeds(limit, d) ==
  \/ limit.kind = "total" /\ d.fc * d.fd >= limit.least
  \/ limit.kind = "depth" /\ d.fd >= limit.least

Capped(limit, d) ==
  IF ~Exceeds(limit, d) THEN d
  ELSE IF limit.kind = "depth" THEN [d EXCEPT !.fd = limit.dim]
  ELSE [fc |-> limit.dim, fd |-> limit.dim]

\* The text of the warning: that of Julia and OCaml names neither.
NamelessCap == {"Julia", "OCaml"}
WarningOf(spec, d) ==
  [lang |-> IF spec.name \in NamelessCap THEN "" ELSE spec.name, from |-> d,
   to |-> Capped(spec.limit, d)]

\* Mutant: no templated variants.
VariantsPlain(spec) == <<FALSE>>

\* templated_variants
Variants(spec) == IF TRUE \in spec.templated THEN <<FALSE, TRUE>> ELSE <<FALSE>>

\* The two inner loops: one task for each variant and runner.
TasksOf(spec, op, d) ==
  LET n == Len(spec.runners)
  IN [k \in 1 .. Len(Variants(spec)) * n |->
        [lang |-> spec.name, runner |-> ((k - 1) % n) + 1, op |-> op,
         templated |-> Variants(spec)[((k - 1) \div n) + 1], dims |-> d]]

-----------------------------------------------------------------------------
Init ==
  /\ request \in Request
  /\ pc = "plan" /\ opIx = 1 /\ langIx = 1
  /\ args = [fc |-> request.fc, fd |-> request.fd]
  /\ reported = {} /\ tasks = <<>>
  /\ pool = [on |-> {}, cpus |-> {}, by |-> "none", size |-> 0]

Turn == pc = "plan" /\ opIx <= Len(Operations)
This == Registry[langIx]

\* The two loops.
NextTurn ==
  /\ langIx' = IF langIx < Len(Registry) THEN langIx + 1 ELSE 1
  /\ opIx' = IF langIx < Len(Registry) THEN opIx ELSE opIx + 1

Wanted(spec, op) == spec.name \in LanguageExes /\ op \in spec.ops

SkipLanguage ==
  /\ Turn
  /\ ~Wanted(This, Operations[opIx])
  /\ NextTurn
  /\ UNCHANGED <<request, pc, args, reported, tasks, pool>>

\* Mutant: the limits are applied to args, not to a copy.
PlanLanguageShared ==
  /\ Turn
  /\ Wanted(This, Operations[opIx])
  /\ NextTurn
  /\ args' = Capped(This.limit, args)
  /\ reported' = IF Exceeds(This.limit, args) THEN reported \cup {WarningOf(This, args)}
                 ELSE reported
  /\ tasks' = tasks \o TasksOf(This, Operations[opIx], args')
  /\ UNCHANGED <<request, pc, pool>>

\* The body of the loops: the copy of the arguments is limited, a warning is
\* printed unless the same text was printed before.
PlanLanguage ==
  /\ Turn
  /\ Wanted(This, Operations[opIx])
  /\ NextTurn
  /\ reported' = IF Exceeds(This.limit, args) THEN reported \cup {WarningOf(This, args)}
                 ELSE reported
  /\ tasks' = tasks \o TasksOf(This, Operations[opIx], Capped(This.limit, args))
  /\ UNCHANGED <<request, pc, args, pool>>

EndPlan ==
  /\ pc = "plan" /\ opIx > Len(Operations)
  /\ pc' = "sort"
  /\ UNCHANGED <<request, opIx, langIx, args, reported, tasks, pool>>

\* op_weights.get(op, 1)
OpWeight(op) == CASE op = "build" -> 3 [] op = "compile" -> 2 [] op = "ast-check" -> 0
                  [] OTHER -> 1

\* _task_weight: compared from left to right.
TaskWeight(t) == <<LangSupport(t.lang).tier, IF t.templated THEN 2 ELSE 1, OpWeight(t.op)>>

Weight == (0 .. 3) \X (0 .. 3) \X (0 .. 3)
Heavier(v, w) == \/ v[1] > w[1]
                 \/ v[1] = w[1] /\ v[2] > w[2]
                 \/ v[1] = w[1] /\ v[2] = w[2] /\ v[3] > w[3]

\* `tasks.sort(key=_task_weight, reverse=True)` of <<weight, position>> pairs:
\* the heavier ones first, equal ones in the order they have.
Sooner(u, t) == Heavier(u[1], t[1]) \/ (u[1] = t[1] /\ u[2] < t[2])

Sort ==
  /\ pc = "sort"
  /\ pc' = "cpus"
  /\ tasks' = LET keyed == {<<TaskWeight(tasks[i]), i>> : i \in DOMAIN tasks}
                  order == InOrder(keyed, [t \in keyed |-> {u \in keyed : Sooner(u, t)}])
              IN [n \in DOMAIN tasks |-> tasks[order[n][2]]]
  /\ UNCHANGED <<request, opIx, langIx, args, reported, pool>>

\* get_available_cpus and the size of the pool.
PickCpus ==
  /\ pc = "cpus"
  /\ pc' = "ready"
  /\ \E m \in Machine : LET r == GetAvailableCpus(m)
       IN pool' = [on |-> {m}, cpus |-> r.cpus, by |-> r.by, size |-> CpuUseCount(r)]
  /\ UNCHANGED <<request, opIx, langIx, args, reported, tasks>>

Next == SkipLanguage \/ PlanLanguage \/ EndPlan \/ Sort \/ PickCpus

Spec == Init /\ [][Next]_vars

-----------------------------------------------------------------------------
\* The list is complete and sorted; it does not change any more.
Final == pc = "cpus"

TypeOK ==
  /\ request \in Request
  /\ pc \in {"plan", "sort", "cpus", "ready"}
  /\ opIx \in 1 .. Len(Operations) + 1 /\ langIx \in LangIx
  /\ args \in [fc : Int, fd : Int]
  /\ \A w \in reported : w.lang \in {Registry[i].name : i \in LangIx} \cup {""}
  /\ Final => \A t \in ToSet(tasks) : t.op \in KnownOp /\ TaskWeight(t) \in Weight
  /\ pool.size \in Nat

\* The languages the documentation promises for the names of the request.
Promised == {Meaning[s] : s \in request.spelled \cap DOMAIN Meaning}
OccurrencesOf(op) == Cardinality({i \in DOMAIN Operations : Operations[i] = op})

\* What the registry owes to PlanIsExact: each spelling names the language that the
\* documentation says, and each runner looks a compiler up for every operation of
\* its language.
AliasesAsDocumented ==
  \A r \in Request :
    {Normalize(s) : s \in r.spelled} \ {""} = {Meaning[s] : s \in r.spelled \cap DOMAIN Meaning}

NoIdleRunner ==
  \A i \in LangIx : \A runner \in ToSet(Registry[i].runners) :
    \A op \in KnownOp \cap Registry[i].ops : \E c \in DOMAIN runner : op \in runner[c].ops

\* The pool gets a task for each operation, promised language that supports it,
\* variant and runner, as often as the operation was given, and no other
\* task: neither the loops, nor the aliases, nor the sort lose or add any.  None
\* is idle: operations are declared in one place of a language module and
\* dispatched on in another, and each task's runner looks a compiler up for its
\* operation.
PlanIsExact ==
  Final =>
    /\ \A op \in KnownOp, lang \in Promised : op \in LangSupport(lang).ops =>
         \A v \in LangSupport(lang).templated, r \in 1 .. Len(LangSupport(lang).runners) :
           Cardinality({i \in DOMAIN tasks :
             /\ tasks[i].op = op /\ tasks[i].lang = lang
             /\ tasks[i].templated = v /\ tasks[i].runner = r}) = OccurrencesOf(op)
    /\ \A i \in DOMAIN tasks :
         LET calls == LangSupport(tasks[i].lang).runners[tasks[i].runner]
         IN /\ tasks[i].lang \in Promised
            /\ \E c \in DOMAIN calls : tasks[i].op \in calls[c].ops

\* All tasks of a language work on the program that its own limits make of the
\* request, whatever languages and operations were planned before: limit_args
\* changes its argument in place, and must only ever get a copy.
LimitsDoNotLeak ==
  Final => \A i \in DOMAIN tasks :
    tasks[i].dims = Capped(LangSupport(tasks[i].lang).limit,
                           [fc |-> request.fc, fd |-> request.fd])

\* Languages whose cap can be larger than the program it replaces: Lua allows
\* 20000 functions and caps at 150x150, Julia and OCaml 9999 and 200x200; where
\* only the product counts, a deep or a wide program can grow in the other
\* dimension.
GrowingCap == {"Lua", "Julia", "OCaml"}

\* The caps of all others are within what they replace.
ASSUME CapAssumption ==
  \A i \in LangIx : LET limit == Registry[i].limit IN Registry[i].name \notin GrowingCap =>
    /\ limit.kind = "total" => limit.dim * limit.dim <= limit.least
    /\ limit.kind = "depth" => limit.dim <= limit.least

\* Capping makes the program smaller: the number of functions a language is
\* measured with is never above what was asked for.  (A negative count is accepted,
\* and generates nothing.)
CapShrinks ==
  Final /\ request.fc >= 0 => \A i \in DOMAIN tasks :
    tasks[i].dims.fc * tasks[i].dims.fd <= request.fc * request.fd
      \/ tasks[i].lang \in GrowingCap

\* Whatever dimensions the limits leave, the program calls no function it does
\* not define.  (A depth below one is accepted, and generates calls only.)
ProgramsAreClosed ==
  Final /\ request.fd >= 1 => \A d \in {tasks[i].dims : i \in DOMAIN tasks} : Closed(d.fc, d.fd)

\* The version shown for a compiler is never read with the VersionSpec of
\* another language; the one exception is goose, for which that of go is
\* registered first.
OwnVersionProbe ==
  Final => \A lang \in Promised : \A exe \in LangSupport(lang).exes :
    LET own == \E i \in LangIx : Registry[i].name = lang /\ Probes(i, exe)
    IN ProbeOf(exe) = IF exe = "goose" THEN "Go" ELSE IF own THEN lang ELSE ""

\* The pool never has more workers than CPUs to pin them to, has at least one,
\* and pins to CPUs the process may use (what the driver relies on).  Where the
\* performance cores were found by topology or capacity, no two workers share
\* a physical core.
PoolFitsCpus ==
  pc = "ready" => \A m \in pool.on :
    /\ 1 <= pool.size /\ pool.size <= Cardinality(pool.cpus)
    /\ pool.cpus \subseteq m.affinity
    /\ pool.by \in {"core type", "pmu", "capacity"} =>
         \A c, d \in pool.cpus \cap DOMAIN m.core : m.core[c] = m.core[d] => c = d
=============================================================================
