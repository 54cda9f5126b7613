-------------------------- MODULE CompilerOpProofs --------------------------
(***************************************************************************)
(* Proofs about one task's compiler operations, for every runner, every    *)
(* number of repetitions and every pair of thresholds.                     *)
(***************************************************************************)
EXTENDS CompilerOp, WellFoundedInduction, TLAPS

\* A call is in progress from the first repetition to the row.
InCall == {"source", "compile", "judge", "run", "write"}

-----------------------------------------------------------------------------
(***************************************************************************)
(* The shared output file.  From the judgement of a build that returned 0  *)
(* to the row of its call the file is the one that call wrote, whatever an *)
(* earlier call or an earlier task left behind.                            *)
(***************************************************************************)
Inputs == calls \in Runner /\ runCount \in RunCounts /\ noFunctions \in BOOLEAN

\* A call is in progress, and a repetition is under way only if one is left.
Series ==
  /\ call \in Nat \ {0}
  /\ pc \in InCall => call \in Call
  /\ rep \in Nat
  /\ pc = "source" => rep < runCount \/ runCount = 0
  /\ pc \in {"compile", "judge"} => rep < runCount
  /\ pc \in {"run", "write"} => runCount # 0
  /\ result # "running" => pc = "end"

Told == Op = "build" /\ This.writes

OutputFile ==
  /\ pc = "judge" /\ last.verdict = "ok" /\ Told => artifact = call
  /\ pc \in {"run", "write"} /\ Told => artifact = call
  /\ pc = "write" /\ ran # NotRun => Op = "build" /\ ran = artifact

\* A row is a function on the keys whose values have the four cells.
RowShape ==
  /\ row = [k \in Key |-> row[k]]
  /\ \A k \in Key : row[k] = [version |-> row[k].version, dur |-> row[k].dur,
                              run |-> row[k].run, size |-> row[k].size]

\* The call that filled a cell has the cell's key and, if it was told where to
\* write, filled it from its own file.
OwnCell(k, cell) ==
  cell.by # 0 =>
    /\ cell.by \in Call
    /\ calls[cell.by].key = k
    /\ calls[cell.by].writes => cell.val = cell.by

OwnCells == \A k \in Key : OwnCell(k, row[k].run) /\ OwnCell(k, row[k].size)

\* A file that is missing when it is started is one nobody was told to write.
Missing == result = "no_file" => ~This.writes

FileInv == Inputs /\ Series /\ OutputFile /\ RowShape /\ OwnCells /\ Missing

LEMMA CallsTyped ==
  ASSUME Inputs
  PROVE  /\ Len(calls) \in Nat
         /\ \A c \in Call : calls[c] \in CallRecord
         /\ runCount \in Nat
  BY RunnerAssumption, OpAssumption DEF Inputs, Call

LEMMA FileInitially == ASSUME Init PROVE FileInv
<1>1. RowShape /\ OwnCells
  BY DEF Init, RowShape, OwnCells, OwnCell, EmptyRow, NoCell
<1> QED
  BY <1>1 DEF Init, FileInv, Inputs, Series, OutputFile, Missing, InCall

\* A row that is written, at any cell but run and size, keeps its shape and
\* what those two say.
LEMMA CellKept ==
  ASSUME FileInv, NEW k \in Key, NEW x, UNCHANGED calls,
         \/ row' = [row EXCEPT ![k].version = x]
         \/ row' = [row EXCEPT ![k].dur = x]
  PROVE  RowShape' /\ OwnCells'
<1> DEFINE R == row[k]
<1> USE DEF FileInv, RowShape
<1>1. /\ R = [version |-> R.version, dur |-> R.dur, run |-> R.run, size |-> R.size]
      /\ \E r : /\ row' = [row EXCEPT ![k] = r]
                /\ r = [version |-> r.version, dur |-> r.dur, run |-> R.run, size |-> R.size]
  <2>1. CASE row' = [row EXCEPT ![k].version = x]
    <3>1. row' = [row EXCEPT ![k] = [version |-> x, dur |-> R.dur, run |-> R.run, size |-> R.size]]
      BY <2>1
    <3> QED BY <3>1
  <2>2. CASE row' = [row EXCEPT ![k].dur = x]
    <3>1. row' = [row EXCEPT ![k] = [version |-> R.version, dur |-> x, run |-> R.run, size |-> R.size]]
      BY <2>2
    <3> QED BY <3>1
  <2> QED BY <2>1, <2>2
<1>2. PICK r : /\ row' = [row EXCEPT ![k] = r]
               /\ r = [version |-> r.version, dur |-> r.dur, run |-> R.run, size |-> R.size]
  BY <1>1
<1>3. \A j \in Key : row'[j] = IF j = k THEN r ELSE row[j]
  BY <1>2
<1>4. RowShape'
  BY <1>2, <1>3
<1>5. \A j \in Key : row'[j].run = row[j].run /\ row'[j].size = row[j].size
  BY <1>2, <1>3
<1>6. OwnCells'
  BY <1>5 DEF OwnCells, OwnCell, Call
<1> QED BY <1>4, <1>6

LEMMA FileInductive ==
  ASSUME FileInv, [Next]_vars
  PROVE  FileInv'
<1> USE DEF FileInv, Inputs, Series, OutputFile, Missing, InCall, Told, This, Call, inputs,
        NotRun, Earlier
<1>0. /\ Len(calls) \in Nat
      /\ \A c \in Call : calls[c] \in CallRecord
      /\ runCount \in Nat
  BY CallsTyped
<1>1. CASE BeginCall
  <2>1. calls[call].key \in Key
    BY <1>0, <1>1 DEF BeginCall, CallRecord
  <2>2. RowShape' /\ OwnCells'
    BY <1>1, <2>1, CellKept DEF BeginCall
  <2> QED
    BY <1>0, <1>1, <2>2 DEF BeginCall
<1>2. CASE PickSource
  BY <1>0, <1>2 DEF PickSource, RowShape, OwnCells, OwnCell
<1>3. CASE SourceRaises \/ NoRepetition \/ RowRaises
  BY <1>0, <1>3 DEF SourceRaises, NoRepetition, RowRaises, Raise, RowShape, OwnCells, OwnCell
<1>4. CASE Compile
  <2>1. last'.verdict = "ok" /\ Told => artifact' = call
    BY <1>4 DEF Compile
  <2>2. (RowShape /\ OwnCells)'
    BY <1>4 DEF Compile, RowShape, OwnCells, OwnCell
  <2> QED
    BY <1>0, <1>4, <2>1, <2>2 DEF Compile
<1>12. CASE CompileRaises
  BY <1>0, <1>12 DEF CompileRaises, Raise, RowShape, OwnCells, OwnCell
<1>5. CASE Fail \/ FailRaises
  <2>0. TagTimeout /\ pc = "judge" /\ calls' = calls
    BY <1>5 DEF Fail, FailRaises
  <2>1. calls[call].key \in Key
    BY <1>0, <2>0 DEF CallRecord
  <2>2. RowShape' /\ OwnCells'
    <3>1. CASE last.verdict = "timeout"
      BY <2>0, <2>1, <3>1, CellKept DEF TagTimeout
    <3>2. CASE last.verdict # "timeout"
      BY <2>0, <3>2 DEF TagTimeout, RowShape, OwnCells, OwnCell
    <3> QED BY <3>1, <3>2
  <2> QED
    BY <1>0, <1>5, <2>2 DEF Fail, FailRaises, NextCall, Raise
<1>6. CASE Accept
  BY <1>0, <1>6 DEF Accept, RowShape, OwnCells, OwnCell
<1>7. CASE RunArtifact
  <2>1. /\ pc = "run" /\ pc' = "write"
        /\ ran' # NotRun => Op = "build" /\ ran' = artifact
        /\ UNCHANGED <<inputs, call, rep, artifact, row, result>>
    BY <1>7 DEF RunArtifact, Executes
  <2> QED BY <1>0, <2>1 DEF RowShape, OwnCells, OwnCell
<1>8. CASE RunRaises
  BY <1>0, <1>8 DEF RunRaises, Raise, StartsFile, NoFile, RowShape, OwnCells, OwnCell
<1>9. CASE WriteRow
  <2> DEFINE R == row[This.key]
             newRun == IF ran = NotRun THEN R.run ELSE [by |-> call, val |-> ran]
             newSize == IF Op = "build" /\ artifact # NoFile
                        THEN [by |-> call, val |-> artifact] ELSE R.size
  <2>1. call \in Call /\ calls[call].key \in Key
    BY <1>0, <1>9 DEF WriteRow, CallRecord
  <2>2. PICK v, d :
          row' = [row EXCEPT ![This.key] = [version |-> v, dur |-> d,
                                            run |-> newRun, size |-> newSize]]
    <3>1. R = [version |-> R.version, dur |-> R.dur, run |-> R.run, size |-> R.size]
      BY <2>1 DEF RowShape
    <3>2. row' = [row EXCEPT ![This.key] =
            [version |-> This.version, dur |-> [by |-> call, val |-> Min(Range(durs))],
             run |-> newRun, size |-> newSize]]
      BY <1>9, <2>1, <3>1 DEF WriteRow
    <3> QED BY <3>2
  <2>3. \A k \in Key : row'[k] = IF k = This.key
          THEN [version |-> v, dur |-> d, run |-> newRun, size |-> newSize] ELSE row[k]
    BY <2>2 DEF RowShape
  <2>4. RowShape'
    BY <2>2, <2>3 DEF RowShape
  <2>5. OwnCell(This.key, newRun) /\ OwnCell(This.key, newSize)
    <3>1. OwnCell(This.key, R.run) /\ OwnCell(This.key, R.size)
      BY <2>1 DEF OwnCells
    <3>2. OwnCell(This.key, newRun)
      BY <1>9, <2>1, <3>1 DEF WriteRow, OwnCell
    <3>3. OwnCell(This.key, newSize)
      BY <1>9, <2>1, <3>1 DEF WriteRow, OwnCell
    <3> QED BY <3>2, <3>3
  <2>6. calls' = calls
    BY <1>9 DEF WriteRow
  <2>7. OwnCells'
    <3> SUFFICES ASSUME NEW k \in Key
                 PROVE  (OwnCell(k, row[k].run) /\ OwnCell(k, row[k].size))'
      BY DEF OwnCells
    <3>1. CASE k = This.key
      <4>1. row'[k].run = newRun /\ row'[k].size = newSize
        BY <2>3, <3>1
      <4> HIDE DEF newRun, newSize
      <4> QED BY <2>5, <2>6, <3>1, <4>1 DEF OwnCell
    <3>2. CASE k # This.key
      BY <2>3, <2>6, <3>2 DEF OwnCells, OwnCell
    <3> QED BY <3>1, <3>2
  <2>8. (Inputs /\ Series /\ OutputFile /\ Missing)'
    BY <1>0, <1>9 DEF WriteRow, NextCall
  <2> QED
    BY <2>4, <2>7, <2>8
<1>10. CASE Finish
  BY <1>0, <1>10 DEF Finish, RowShape, OwnCells, OwnCell
<1>11. CASE UNCHANGED vars
  BY <1>11 DEF vars, RowShape, OwnCells, OwnCell
<1> HIDE DEF FileInv
<1> QED
  BY <1>1, <1>2, <1>3, <1>4, <1>5, <1>6, <1>7, <1>8, <1>9, <1>10, <1>11, <1>12 DEF Next

\* The run time and the size in the row of a compiler that is told where to
\* write are those of the file it wrote (run_target_binary, os.path.getsize).
THEOREM RunMeasuresOwnArtifactTheorem == Spec => []RunMeasuresOwnArtifact
<1>1. FileInv => RunMeasuresOwnArtifact
  BY DEF FileInv, OwnCells, OwnCell, RunMeasuresOwnArtifact, OwnArtifact, Call
<1> QED
  BY <1>1, FileInitially, FileInductive, PTL DEF Spec

NoFigures == runCount = 0 \/ noFunctions => \A k \in Key : NoFigure(row[k])

LEMMA FiguresInductive ==
  ASSUME FileInv, NoFigures, [Next]_vars
  PROVE  NoFigures'
<1> USE DEF inputs
<1>1. CASE row' = row
  <2>1. UNCHANGED <<runCount, noFunctions>>
    BY DEF Next, vars, BeginCall, SourceRaises, PickSource, NoRepetition, Compile,
       CompileRaises, Fail, FailRaises, Accept, RunArtifact, RunRaises, RowRaises, WriteRow, Finish
  <2> QED BY <1>1, <2>1 DEF NoFigures
<1>2. CASE BeginCall
  <2>1. \A k \in Key : UNCHANGED <<row[k].dur, row[k].run, row[k].size>>
    BY <1>2 DEF BeginCall, FileInv, RowShape
  <2> QED BY <1>2, <2>1 DEF BeginCall, NoFigures, NoFigure
<1>3. CASE Fail \/ FailRaises
  <2>1. TagTimeout /\ UNCHANGED <<runCount, noFunctions>>
    BY <1>3 DEF Fail, FailRaises
  <2>2. \A k \in Key : /\ UNCHANGED <<row[k].run, row[k].size>>
                       /\ row'[k].dur.val \in {row[k].dur.val, TimedOut}
    BY <2>1 DEF TagTimeout, FileInv, RowShape
  <2> QED BY <2>1, <2>2 DEF NoFigures, NoFigure
<1>4. CASE WriteRow
  BY <1>4 DEF WriteRow, NoFigures, FileInv, Series
<1>5. row' = row \/ BeginCall \/ Fail \/ FailRaises \/ WriteRow
  BY DEF Next, vars, SourceRaises, PickSource, NoRepetition, Compile, CompileRaises, Accept,
     RunArtifact, RunRaises, RowRaises, Finish
<1> QED BY <1>1, <1>2, <1>3, <1>4, <1>5

\* A file that is missing when it is started belongs to a compiler that is not told
\* where to write, and without repetitions or functions no row has a figure
\* (run_target_binary, min(durs) and the divisions by total_funcs).
THEOREM RaisesAreExplainedTheorem == Spec => []RaisesAreExplained
<1>1. Init => NoFigures
  BY DEF Init, NoFigures, NoFigure, EmptyRow, NoCell, TimedOut
<1>2. FileInv /\ NoFigures => RaisesAreExplained
  BY DEF FileInv, Missing, NoFigures, RaisesAreExplained
<1> QED
  BY <1>1, <1>2, FileInitially, FileInductive, FiguresInductive, PTL DEF Spec

-----------------------------------------------------------------------------
(***************************************************************************)
(* The repetitions.  While a call is in progress durs is the history of    *)
(* its series without the verdicts; once a call is over its history never  *)
(* changes, and says whether it ended in a failure, at the run count or at *)
(* the adaptive cut.                                                       *)
(***************************************************************************)
Outcomes == [verdict : Verdict, dur : Dur]

\* No repetition but the last could have ended the series.
WentOn(s) == \A i \in 1 .. Len(s) - 1 : ~Enough(s[i].dur, i)

\* A series that is over failed, reached the run count or was cut.
Over(s) ==
  /\ s # <<>>
  /\ s[Len(s)].verdict = "ok" => Len(s) = runCount \/ Enough(s[Len(s)].dur, Len(s))

\* The successful repetitions of s are the durations d, in the same order.
Mirrors(s, d) == \A i \in 1 .. Len(d) : s[i].verdict = "ok" /\ s[i].dur = d[i]

Histories ==
  /\ tried \in [Call -> Seq(Outcomes)]
  /\ durs \in Seq(Dur)
  /\ \A c \in Call : c > call \/ (c = call /\ pc = "call") => tried[c] = <<>>
  /\ \A c \in Call : WentOn(tried[c]) /\ (c < call => Over(tried[c]))

Current ==
  pc \in InCall =>
    /\ Len(durs) = rep
    /\ Mirrors(tried[call], durs)
    /\ Len(tried[call]) = IF pc = "judge" THEN rep + 1 ELSE rep
    /\ pc = "judge" => tried[call][rep + 1] = last
    /\ pc \in {"source", "compile"} => \A i \in 1 .. rep : ~Enough(durs[i], i)
    /\ pc \in {"run", "write"} => Over(tried[call])

\* A duration cell belongs to a call before the n-th, and h, the outcomes of
\* the calls, bears it out.
Honest(cell, n, h) ==
  cell.by # 0 =>
    /\ cell.by \in DOMAIN h /\ cell.by < n
    /\ LET s == h[cell.by] IN
         IF cell.val = TimedOut
         THEN s[Len(s)].verdict = "timeout"
         ELSE /\ \A i \in 1 .. Len(s) : s[i].verdict = "ok"
              /\ cell.val = Min({s[i].dur : i \in 1 .. Len(s)})

\* The calls before this one have written their cell; one that has raised may have.
Front == IF pc = "end" THEN call + 1 ELSE call

DurCells == \A k \in Key : Honest(row[k].dur, Front, tried)

SeriesInv == FileInv /\ Histories /\ Current /\ DurCells

\* The library states that < is well-founded on the naturals; a set of naturals
\* therefore has the least member that Min chooses.
Smaller == {ss \in Nat \X Nat : ss[1] < ss[2]}

LEMMA MinMember ==
  ASSUME NEW S, S \subseteq Nat, S # {}
  PROVE  Min(S) \in S
<1>1. IsWellFoundedOn(Smaller, Nat)
  BY NatLessThanWellFounded DEF OpToRel, Smaller
<1>2. PICK x \in S : \A y \in S : <<y, x>> \notin Smaller
  BY <1>1, WFMin
<1>3. \A y \in S : x <= y
  <2> SUFFICES ASSUME NEW y \in S, y < x PROVE FALSE
    BY SMT
  <2>1. <<y, x>> \in Smaller
    BY DEF Smaller
  <2> QED BY <2>1, <1>2
<1> QED
  BY <1>3 DEF Min

\* The series of a call that is over, without a failure, is what durs holds.
LEMMA DursAreHistory ==
  ASSUME NEW s \in Seq(Outcomes), NEW d \in Seq(Dur), Len(s) = Len(d), Mirrors(s, d)
  PROVE  /\ \A i \in 1 .. Len(s) : s[i].verdict = "ok"
         /\ Range(d) = {s[i].dur : i \in 1 .. Len(s)}
  BY DEF Mirrors, Range

LEMMA OutcomeTyped ==
  ASSUME NEW s \in Seq(Outcomes), NEW i \in 1 .. Len(s)
  PROVE  s[i].dur \in Dur
<1>1. s[i] \in Outcomes
  OBVIOUS
<1> QED BY <1>1 DEF Outcomes

\* Calls that are over keep their cells honest.
LEMMA HonestKept ==
  ASSUME NEW cell, NEW n \in Nat, NEW m \in Nat, n <= m, NEW h, NEW g,
         DOMAIN h \subseteq Nat, DOMAIN g = DOMAIN h,
         \A c \in DOMAIN h : c < n => g[c] = h[c],
         Honest(cell, n, h)
  PROVE  Honest(cell, m, g)
<1> SUFFICES ASSUME cell.by # 0 PROVE Honest(cell, m, g)
  BY DEF Honest
<1>1. cell.by \in DOMAIN h /\ cell.by < n
  BY DEF Honest
<1>2. cell.by < m /\ g[cell.by] = h[cell.by]
  BY <1>1
<1> QED
  BY <1>1, <1>2 DEF Honest

LEMMA SeriesInitially == ASSUME Init PROVE SeriesInv
<1>1. Histories
  <2>1. /\ tried \in [Call -> Seq(Outcomes)] /\ durs \in Seq(Dur)
        /\ \A c \in Call : tried[c] = <<>> /\ ~(c < call)
    BY DEF Init, Call
  <2> QED BY <2>1 DEF Histories, WentOn
<1>2. Current /\ DurCells
  BY DEF Init, Current, InCall, DurCells, Front, Honest, EmptyRow, NoCell
<1> QED
  BY <1>1, <1>2, FileInitially DEF SeriesInv

\* A step that leaves the histories and the duration cells alone, and whose
\* call does not go back, keeps what is known of both.
LEMMA HistoriesKept ==
  ASSUME SeriesInv, UNCHANGED <<inputs, tried, call>>, pc = "end" => pc' = "end",
         \A k \in Key : row'[k].dur = row[k].dur
  PROVE  /\ (tried \in [Call -> Seq(Outcomes)])'
         /\ (\A c \in Call : WentOn(tried[c]) /\ (c < call => Over(tried[c])))'
         /\ DurCells'
<1> USE DEF SeriesInv, inputs, Call
<1>1. (tried \in [Call -> Seq(Outcomes)])'
  BY DEF Histories
<1>2. (\A c \in Call : WentOn(tried[c]) /\ (c < call => Over(tried[c])))'
  BY DEF Histories, WentOn, Over
<1>3. DurCells'
  <2>1. call \in Nat /\ Front \in Nat /\ Front' \in Nat /\ Front <= Front'
    BY DEF FileInv, Series, Front
  <2>2. \A k \in Key : Honest(row[k].dur, Front', tried)
    BY <2>1, CallsTyped, HonestKept DEF DurCells, Histories, FileInv
  <2> QED BY <2>2 DEF DurCells
<1> QED BY <1>1, <1>2, <1>3

LEMMA SeriesInductive ==
  ASSUME SeriesInv, [Next]_vars
  PROVE  SeriesInv'
<1> USE DEF inputs, InCall, Call
<1>0. /\ FileInv /\ Histories /\ Current /\ DurCells
      /\ Inputs /\ Series /\ RowShape
      /\ FileInv'
  BY FileInductive DEF SeriesInv, FileInv
<1>00. /\ Len(calls) \in Nat /\ runCount \in Nat
       /\ call \in Nat \ {0} /\ rep \in Nat
       /\ Dur \subseteq Nat \ {0}
  BY <1>0, CallsTyped, OpAssumption DEF Series
<1>1. CASE BeginCall
  <2>1. /\ pc = "call" /\ call \in Call /\ pc' = "source" /\ rep' = 0 /\ durs' = <<>>
        /\ UNCHANGED <<inputs, call, tried, last>>
    BY <1>1 DEF BeginCall
  <2>2. \A k \in Key : row'[k].dur = row[k].dur
    BY <1>1, <1>0 DEF BeginCall, RowShape
  <2>3. Histories'
    BY <1>0, <1>00, <2>1, <2>2, HistoriesKept DEF Histories
  <2>4. Current'
    BY <1>0, <1>00, <2>1 DEF Histories, Current, Mirrors
  <2> QED BY <1>0, <2>1, <2>2, <2>3, <2>4, HistoriesKept DEF SeriesInv
<1>2. CASE \/ PickSource \/ SourceRaises \/ NoRepetition \/ RunArtifact \/ RunRaises
           \/ RowRaises \/ Finish
  <2>1. UNCHANGED <<inputs, call, tried, last, rep, durs, row>>
    BY <1>2 DEF PickSource, SourceRaises, NoRepetition, RunArtifact, RunRaises, RowRaises, Finish
  <2>2. \/ pc = "source" /\ pc' = "compile"
        \/ pc = "run" /\ pc' = "write"
        \/ pc' = "end"
    BY <1>2 DEF PickSource, SourceRaises, NoRepetition, RunArtifact, RunRaises, RowRaises,
       Finish, Raise
  <2>3. Histories'
    BY <1>0, <1>00, <2>1, <2>2, HistoriesKept DEF Histories
  <2>4. Current'
    BY <1>0, <1>00, <2>1, <2>2 DEF Current, Mirrors, Over
  <2>5. pc = "end" => pc' = "end"
    BY <2>2
  <2> QED BY <1>0, <2>1, <2>3, <2>4, <2>5, HistoriesKept DEF SeriesInv
<1>8. CASE CompileRaises
  <2>1. /\ pc = "compile" /\ pc' = "end"
        /\ UNCHANGED <<inputs, call, tried, durs, row>>
    BY <1>8 DEF CompileRaises, Raise
  <2>2. Histories'
    BY <1>0, <1>00, <2>1, HistoriesKept DEF Histories
  <2>3. Current'
    BY <2>1 DEF Current
  <2> QED BY <1>0, <2>1, <2>2, <2>3, HistoriesKept DEF SeriesInv
<1>3. CASE Compile
  <2>1. /\ pc = "compile" /\ pc' = "judge" /\ last' \in Outcomes
        /\ tried' = [tried EXCEPT ![call] = Append(tried[call], last')]
        /\ UNCHANGED <<inputs, call, rep, durs, row>>
    BY <1>3 DEF Compile, Outcomes
  <2>2. call \in Call /\ tried[call] \in Seq(Outcomes) /\ Len(tried[call]) = rep
    BY <1>0, <2>1 DEF Series, Histories, Current
  <2>3. /\ tried' \in [Call -> Seq(Outcomes)]
        /\ \A c \in Call : c # call => tried'[c] = tried[c]
        /\ Len(tried'[call]) = rep + 1
        /\ \A i \in 1 .. rep : tried'[call][i] = tried[call][i]
        /\ tried'[call][rep + 1] = last'
    BY <1>0, <1>00, <2>1, <2>2 DEF Histories
  <2>4. \A i \in 1 .. rep : durs[i] = tried[call][i].dur /\ ~Enough(durs[i], i)
    BY <1>0, <2>1 DEF Current, Mirrors
  <2>5. WentOn(tried'[call])
    BY <1>00, <2>3, <2>4 DEF WentOn
  <2>6. Histories'
    BY <1>0, <1>00, <2>1, <2>2, <2>3, <2>5 DEF Histories, WentOn, Over
  <2>7. Current'
    BY <1>0, <1>00, <2>1, <2>2, <2>3 DEF Current, Mirrors
  <2>8. DurCells'
    <3>0. \A k \in Key : Honest(row[k].dur, call, tried)
      BY <1>0, <2>1 DEF DurCells, Front
    <3>1. \A k \in Key : Honest(row[k].dur, call, tried')
      BY <1>0, <1>00, <2>3, <3>0, HonestKept DEF Histories
    <3> QED BY <2>1, <3>1 DEF DurCells, Front
  <2> QED BY <1>0, <2>6, <2>7, <2>8 DEF SeriesInv
<1>4. CASE Fail \/ FailRaises
  <2>1. /\ pc = "judge" /\ last.verdict # "ok" /\ TagTimeout
        /\ \/ pc' = "call" /\ call' = call + 1
           \/ pc' = "end" /\ call' = call
        /\ UNCHANGED <<inputs, tried, durs>>
    BY <1>4 DEF Fail, FailRaises, NextCall, Raise
  <2>2. call \in Call /\ calls[call].key \in Key
    BY <1>0, <2>1, CallsTyped DEF Series, CallRecord
  <2>3. Len(tried[call]) = rep + 1 /\ tried[call][rep + 1] = last
    BY <1>0, <2>1 DEF Current
  <2>4. Over(tried[call])
    BY <1>00, <2>1, <2>3 DEF Over
  <2>5. Histories'
    <3>1. \A c \in Call : c < call' => c < call \/ c = call
      BY <1>00, <2>1
    <3>2. \A c \in Call : Over(tried[c])' = Over(tried[c]) /\ WentOn(tried[c])' = WentOn(tried[c])
      BY <2>1 DEF Over, WentOn
    <3>3. \A c \in Call : c > call' \/ (c = call' /\ pc' = "call") => tried[c] = <<>>
      BY <1>0, <1>00, <2>1 DEF Histories
    <3> QED BY <1>0, <2>1, <2>4, <3>1, <3>2, <3>3 DEF Histories
  <2>6. \A k \in Key :
          \/ row'[k].dur = row[k].dur
          \/ last.verdict = "timeout" /\ row'[k].dur = [by |-> call, val |-> TimedOut]
    BY <1>0, <2>1, <2>2 DEF TagTimeout, RowShape, This
  <2>7. DurCells'
    <3>1. \A k \in Key : Honest(row[k].dur, call + 1, tried)
      BY <1>0, <1>00, <2>1, HonestKept DEF DurCells, Front, Histories
    <3>2. last.verdict = "timeout" => Honest([by |-> call, val |-> TimedOut], call + 1, tried)
      BY <1>0, <1>00, <2>2, <2>3 DEF Honest, Histories
    <3>3. Front' = call + 1
      BY <2>1 DEF Front
    <3> QED BY <2>1, <2>6, <3>1, <3>2, <3>3 DEF DurCells
  <2> QED BY <1>0, <2>1, <2>5, <2>7 DEF SeriesInv, Current
<1>5. CASE Accept
  <2>1. /\ pc = "judge" /\ last.verdict = "ok" /\ durs' = Append(durs, last.dur)
        /\ rep' = rep + 1
        /\ pc' = IF Enough(last.dur, Len(durs')) \/ rep' = runCount THEN "run" ELSE "source"
        /\ UNCHANGED <<inputs, call, tried, last, row>>
    BY <1>5 DEF Accept
  <2>2. /\ call \in Call /\ tried[call] \in Seq(Outcomes)
        /\ durs \in Seq(Dur) /\ Len(durs) = rep /\ Mirrors(tried[call], durs)
        /\ Len(tried[call]) = rep + 1 /\ tried[call][rep + 1] = last
        /\ WentOn(tried[call])
    BY <1>0, <2>1 DEF Series, Histories, Current
  <2>3. last.dur \in Dur
    BY <1>00, <2>2, OutcomeTyped
  <2>4. /\ durs' \in Seq(Dur) /\ Len(durs') = rep + 1
        /\ Mirrors(tried[call], durs')
    BY <1>00, <2>1, <2>2, <2>3 DEF Mirrors
  <2>5. pc' = "run" => Over(tried[call])
    BY <1>00, <2>1, <2>2, <2>4 DEF Over
  <2>6. pc' = "source" => \A i \in 1 .. rep + 1 : ~Enough(durs'[i], i)
    <3>1. \A i \in 1 .. rep + 1 : durs'[i] = tried[call][i].dur
      BY <2>4 DEF Mirrors
    <3>2. \A i \in 1 .. rep : ~Enough(tried[call][i].dur, i)
      BY <1>00, <2>2 DEF WentOn
    <3>3. pc' = "source" => ~Enough(tried[call][rep + 1].dur, rep + 1)
      BY <2>1, <2>2, <2>4
    <3> QED BY <1>00, <3>1, <3>2, <3>3
  <2>7. Histories'
    BY <1>0, <1>00, <2>1, <2>4, HistoriesKept DEF Histories
  <2>8. Current'
    <3>1. pc' \in {"run", "source"}
      BY <2>1
    <3>2. Over(tried[call])' = Over(tried[call])
      BY <2>1 DEF Over
    <3> QED BY <2>1, <2>2, <2>4, <2>5, <2>6, <3>1, <3>2 DEF Current, Mirrors
  <2> QED BY <1>0, <2>1, <2>7, <2>8, HistoriesKept DEF SeriesInv
<1>6. CASE WriteRow
  <2>1. /\ pc = "write" /\ pc' = "call" /\ call' = call + 1
        /\ UNCHANGED <<inputs, tried, durs>>
    BY <1>6 DEF WriteRow, NextCall
  <2>2. call \in Call /\ calls[call].key \in Key
    BY <1>0, <2>1, CallsTyped DEF Series, CallRecord
  <2>3. /\ Over(tried[call]) /\ tried[call] \in Seq(Outcomes) /\ durs \in Seq(Dur)
        /\ Len(tried[call]) = Len(durs) /\ Mirrors(tried[call], durs)
    BY <1>0, <2>1, <2>2 DEF Current, Histories
  <2>4. Succeeded(call) /\ Range(durs) = DursOf(call)
    BY <2>3, DursAreHistory DEF Succeeded, DursOf
  <2>5. Min(Range(durs)) # TimedOut
    <3>1. Range(durs) \subseteq Dur /\ Range(durs) # {}
      BY <2>3 DEF Range, Over
    <3>2. Min(Range(durs)) \in Range(durs)
      BY <1>00, <3>1, MinMember
    <3> QED BY <1>00, <3>1, <3>2 DEF TimedOut
  <2>6. Histories'
    <3>1. \A c \in Call : c < call + 1 => c < call \/ c = call
      BY <1>00
    <3>2. \A c \in Call : Over(tried[c])' = Over(tried[c]) /\ WentOn(tried[c])' = WentOn(tried[c])
      BY <2>1 DEF Over, WentOn
    <3>3. \A c \in Call : c > call + 1 \/ c = call + 1 => tried[c] = <<>>
      BY <1>0, <1>00 DEF Histories
    <3> QED BY <1>0, <2>1, <2>3, <3>1, <3>2, <3>3 DEF Histories
  <2>7. \A k \in Key :
          \/ row'[k].dur = row[k].dur
          \/ row'[k].dur = [by |-> call, val |-> Min(Range(durs))]
    BY <1>0, <1>6, <2>2 DEF WriteRow, RowShape, This
  <2>8. DurCells'
    <3>1. \A k \in Key : Honest(row[k].dur, call + 1, tried)
      BY <1>0, <1>00, <2>1, HonestKept DEF DurCells, Front, Histories
    <3>2. Honest([by |-> call, val |-> Min(Range(durs))], call + 1, tried)
      BY <1>0, <1>00, <2>2, <2>4, <2>5 DEF Honest, Histories, Succeeded, DursOf
    <3> QED BY <2>1, <2>7, <3>1, <3>2 DEF DurCells, Front
  <2> QED BY <1>0, <2>1, <2>6, <2>8 DEF SeriesInv, Current
<1>7. CASE UNCHANGED vars
  <2>1. UNCHANGED <<inputs, call, tried, last, rep, durs, row, pc>>
    BY <1>7 DEF vars
  <2>2. Histories'
    BY <1>0, <2>1, HistoriesKept DEF Histories
  <2>3. Current'
    BY <1>0, <2>1 DEF Current, Mirrors, Over
  <2> QED BY <1>0, <2>1, <2>2, <2>3, HistoriesKept DEF SeriesInv
<1> QED
  BY <1>1, <1>2, <1>3, <1>4, <1>5, <1>6, <1>7, <1>8 DEF Next

\* A duration is the fastest repetition of a series that succeeded as a whole,
\* or the tag of one whose last repetition was killed (the early `return None`).
THEOREM DurIsFastestTheorem == Spec => []DurIsFastestOfWholeSeries
<1>1. SeriesInv => DurIsFastestOfWholeSeries
  BY DEF SeriesInv, DurCells, Honest, DurIsFastestOfWholeSeries, Succeeded, DursOf
<1> QED
  BY <1>1, SeriesInitially, SeriesInductive, PTL DEF Spec

\* A repetition is spent only after fast ones, and only a slow repetition or a
\* failure ends a series before the run count.
THEOREM AdaptiveSeriesTheorem == Spec => []AdaptiveSeries
<1>1. SeriesInv => AdaptiveSeries
  <2> SUFFICES ASSUME SeriesInv, NEW c \in Call
               PROVE  /\ \A i \in 1 .. Len(tried[c]) - 1 :
                           /\ i >= SlowRuns => tried[c][i].dur < SlowDur
                           /\ i >= FastRuns => tried[c][i].dur < FastDur
                      /\ c < call /\ Succeeded(c) /\ Len(tried[c]) < runCount =>
                           \/ Len(tried[c]) >= FastRuns /\ tried[c][Len(tried[c])].dur >= FastDur
                           \/ Len(tried[c]) >= SlowRuns /\ tried[c][Len(tried[c])].dur >= SlowDur
    BY DEF AdaptiveSeries
  <2>1. /\ tried[c] \in Seq(Outcomes) /\ WentOn(tried[c])
        /\ c < call => Over(tried[c])
    BY DEF SeriesInv, Histories
  <2>2. \A i \in 1 .. Len(tried[c]) : tried[c][i].dur \in Nat
    BY <2>1, OutcomeTyped, OpAssumption
  <2>3. \A i \in 1 .. Len(tried[c]) - 1 :
          /\ i >= SlowRuns => tried[c][i].dur < SlowDur
          /\ i >= FastRuns => tried[c][i].dur < FastDur
    BY <2>1, <2>2, OpAssumption DEF WentOn, Enough
  <2>4. c < call /\ Succeeded(c) /\ Len(tried[c]) < runCount =>
          Enough(tried[c][Len(tried[c])].dur, Len(tried[c]))
    BY <2>1 DEF Over, Succeeded
  <2> QED BY <2>3, <2>4 DEF Enough
<1> QED
  BY <1>1, SeriesInitially, SeriesInductive, PTL DEF Spec

-----------------------------------------------------------------------------
(***************************************************************************)
(* Success.  A failure is noticed before the call ends, a call that is     *)
(* over left its duration unless something was noticed, and what was       *)
(* noticed is flagged.                                                     *)
(***************************************************************************)
\* What was printed is flagged, as long as no call owns its arguments.
Flagged == (\A c \in Call : ~calls[c].ownArgs) /\ printed => flagged

Figure(cell) == cell.by # 0 /\ cell.val # TimedOut

SuccessInv ==
  /\ Flagged
  /\ pc = "judge" /\ last.verdict # "ok" => printed
  /\ \A c \in Call : c < call /\ ~printed => Figure(row[calls[c].key].dur)
  /\ result # "running" => pc = "end"
  /\ result = "success" => ~flagged /\ call > Len(calls)

\* A row that is written keeps the figures of the others, and its own if the
\* duration that is written is one.
LEMMA FiguresKept ==
  ASSUME FileInv, call \in Call, UNCHANGED <<calls, printed>>, NEW n \in Nat, n <= call + 1,
         \A c \in Call : c < call /\ ~printed => Figure(row[calls[c].key].dur),
         \A k \in Key : row'[k].dur = row[k].dur \/ Figure(row'[k].dur),
         n > call /\ ~printed => Figure(row'[calls[call].key].dur)
  PROVE  \A c \in Call : c < n /\ ~printed => Figure(row'[calls[c].key].dur)
<1> SUFFICES ASSUME NEW c \in Call, c < n, ~printed
             PROVE  Figure(row'[calls[c].key].dur)
  OBVIOUS
<1>1. calls[c].key \in Key
  BY CallsTyped DEF FileInv, CallRecord
<1>2. c < call \/ (c = call /\ n > call)
  BY CallsTyped DEF FileInv, Call
<1>3. CASE c < call
  BY <1>1, <1>3
<1>4. CASE c = call /\ n > call
  BY <1>4
<1> QED BY <1>2, <1>3, <1>4

LEMMA SuccessInductive ==
  ASSUME SeriesInv, SeriesInv', SuccessInv, [Next]_vars
  PROVE  SuccessInv'
<1> USE DEF SuccessInv, Flagged, inputs, Call
<1>0. /\ FileInv /\ Series /\ RowShape
      /\ Len(calls) \in Nat /\ call \in Nat \ {0}
      /\ pc \in InCall => call \in Call /\ calls[call].key \in Key
  BY CallsTyped DEF SeriesInv, FileInv, Series, CallRecord
<1>1. CASE BeginCall
  <2>1. \A k \in Key : row'[k].dur = row[k].dur
    BY <1>0, <1>1 DEF BeginCall, RowShape
  <2>2. \A c \in Call : c < call /\ ~printed => Figure(row'[calls[c].key].dur)
    BY <1>0, <1>1, <2>1, FiguresKept DEF BeginCall
  <2> QED BY <1>1, <2>2 DEF BeginCall
<1>2. CASE \/ PickSource \/ SourceRaises \/ NoRepetition \/ CompileRaises \/ Accept
           \/ RunArtifact \/ RunRaises \/ RowRaises
  <2>1. /\ pc \in InCall /\ pc # "end" /\ pc' # "judge"
        /\ UNCHANGED <<calls, call, row, flagged, printed>>
        /\ result' = result \/ (result' \in Raises /\ pc' = "end")
    BY <1>2 DEF PickSource, SourceRaises, NoRepetition, CompileRaises, Accept, RunArtifact,
       RunRaises, RowRaises, Raise, Raises, InCall
  <2> QED BY <2>1 DEF Raises
<1>8. CASE FailRaises
  <2>1. /\ pc' = "end" /\ result' = "no_functions" /\ printed
        /\ UNCHANGED <<calls, call, flagged, printed>>
    BY <1>8 DEF FailRaises, Raise
  <2> QED BY <2>1
<1>3. CASE Compile
  <2>1. /\ pc = "compile" /\ pc' = "judge"
        /\ UNCHANGED <<calls, call, row, result>>
    BY <1>3 DEF Compile
  <2>2. PICK v \in Verdict, d \in Dur, noise \in BOOLEAN :
          /\ last' = [verdict |-> v, dur |-> d]
          /\ printed' = (printed \/ noise \/ v # "ok")
          /\ flagged' = (flagged \/ ((noise \/ v # "ok") /\ ~This.ownArgs))
    BY <1>3 DEF Compile
  <2>3. Flagged'
    BY <1>0, <2>1, <2>2 DEF This, InCall
  <2>4. /\ last'.verdict # "ok" => printed'
        /\ printed => printed'
    BY <2>2
  <2> QED BY <2>1, <2>3, <2>4
<1>4. CASE Fail
  <2>1. /\ pc = "judge" /\ last.verdict # "ok" /\ pc' = "call" /\ call' = call + 1
        /\ UNCHANGED <<calls, flagged, printed, result>>
    BY <1>4 DEF Fail, NextCall
  <2> QED BY <2>1
<1>5. CASE WriteRow
  <2>1. /\ pc = "write" /\ pc' = "call" /\ call' = call + 1 /\ call \in Call
        /\ UNCHANGED <<calls, flagged, printed, result>>
    BY <1>0, <1>5 DEF WriteRow, NextCall, InCall
  <2>2. Min(Range(durs)) # TimedOut
    <3>1. /\ durs \in Seq(Dur) /\ Len(durs) = Len(tried[call]) /\ tried[call] # <<>>
          /\ tried[call] \in Seq(Outcomes)
      BY <2>1 DEF SeriesInv, Histories, Current, Over, InCall
    <3>2. Range(durs) \subseteq Dur /\ Range(durs) # {}
      BY <3>1 DEF Range
    <3> QED BY <3>2, MinMember, OpAssumption DEF TimedOut
  <2>3. \A k \in Key : IF k = calls[call].key
                       THEN row'[k].dur = [by |-> call, val |-> Min(Range(durs))]
                       ELSE row'[k].dur = row[k].dur
    BY <1>0, <1>5 DEF WriteRow, RowShape, This
  <2>4. Figure([by |-> call, val |-> Min(Range(durs))])
    BY <1>0, <2>2 DEF Figure
  <2>5. \A c \in Call : c < call + 1 /\ ~printed => Figure(row'[calls[c].key].dur)
    BY <1>0, <2>1, <2>3, <2>4, FiguresKept DEF InCall
  <2> QED BY <2>1, <2>5
<1>6. CASE Finish
  <2>1. /\ call > Len(calls) /\ pc' = "end"
        /\ result' = IF flagged THEN "kept" ELSE "success"
        /\ UNCHANGED <<calls, call, row, flagged, printed>>
    BY <1>6 DEF Finish
  <2> QED BY <2>1
<1>7. CASE UNCHANGED vars
  BY <1>7 DEF vars
<1> QED
  BY <1>1, <1>2, <1>3, <1>4, <1>5, <1>6, <1>7, <1>8 DEF Next

LEMMA SuccessInvariant == Spec => [](SeriesInv /\ SuccessInv)
<1>1. Init => SuccessInv
  BY DEF Init, SuccessInv, Flagged, Call
<1> QED
  BY <1>1, SuccessInductive, SeriesInitially, SeriesInductive, PTL DEF Spec

\* No failure or output of any compiler, in any order of repetitions and calls,
\* lets a task count as a success, and one that does has a duration for every
\* compiler it called (benchmark_compiler_op and _run_task).
THEOREM NoSilentFailureTheorem == Spec => []NoSilentFailure
<1>1. SeriesInv /\ SuccessInv => NoSilentFailure
  <2> SUFFICES ASSUME SeriesInv, SuccessInv, result = "success", \A c \in Call : ~calls[c].ownArgs
               PROVE  /\ ~printed
                      /\ \A c \in Call : Figure(row[calls[c].key].dur)
    BY DEF NoSilentFailure, Figure
  <2>1. ~printed
    BY DEF SuccessInv, Flagged
  <2>2. \A c \in Call : c < call
    BY CallsTyped DEF SuccessInv, SeriesInv, FileInv, Series, Call
  <2> QED BY <2>1, <2>2 DEF SuccessInv
<1> QED
  BY <1>1, SuccessInvariant, PTL

-----------------------------------------------------------------------------
(***************************************************************************)
(* The runner implements TaskRun: which cells its rows show, and what has  *)
(* happened when the task is over.                                         *)
(***************************************************************************)
\* Every column that a row shows is one that a call with that key may fill.
Explained ==
  \A k \in Key : \A col \in Shown(row[k]) :
    \E c \in Call : calls[c].key = k /\ col \in Columns(calls[c])

\* What a call was asked to run it may measure; whoever has begun to compile
\* has a program, and a runner that calls nobody does nothing.
Begun ==
  /\ pc = "write" /\ ran # NotRun => Executes(This)
  /\ pc \in {"compile", "judge", "run", "write"} \/ call > 1 => paths # {}
  /\ calls = <<>> => paths = {} /\ ~flagged

RunnerInv == Explained /\ Begun

\* A row that shows new columns of the current call only stays explained.
LEMMA ExplainedKept ==
  ASSUME Explained, call \in Call, calls' = calls,
         \A k \in Key : \A col \in Shown(row'[k]) :
           \/ col \in Shown(row[k])
           \/ k = calls[call].key /\ col \in Columns(calls[call])
  PROVE  Explained'
<1> SUFFICES ASSUME NEW k \in Key, NEW col \in Shown(row'[k])
             PROVE  \E c \in Call : calls[c].key = k /\ col \in Columns(calls[c])
  BY DEF Explained, Call, Shown, Columns, Executes
<1> QED BY DEF Explained

LEMMA RunnerInductive ==
  ASSUME SeriesInv, RunnerInv, [Next]_vars
  PROVE  RunnerInv'
<1> USE DEF RunnerInv, Begun, inputs
<1>0. /\ RowShape /\ OutputFile
      /\ Len(calls) \in Nat /\ call \in Nat \ {0} /\ rep \in Nat
      /\ pc \in InCall => call \in Call /\ calls[call].key \in Key
      /\ calls = <<>> => Call = {}
  BY CallsTyped DEF SeriesInv, FileInv, Series, CallRecord, Call
<1>00. row' = row /\ calls' = calls => Explained'
  BY DEF Explained, Shown, Columns, Executes, Call
<1>1. CASE BeginCall
  <2>1. \A k \in Key : \A col \in Shown(row'[k]) :
          \/ col \in Shown(row[k])
          \/ k = calls[call].key /\ col \in Columns(calls[call])
    BY <1>0, <1>1 DEF BeginCall, RowShape, Shown, Columns, This
  <2>2. Explained'
    BY <1>1, <2>1, ExplainedKept DEF BeginCall
  <2> QED BY <1>1, <2>2 DEF BeginCall
<1>2. CASE PickSource
  BY <1>0, <1>00, <1>2 DEF PickSource, InCall
<1>3. CASE SourceRaises \/ NoRepetition \/ CompileRaises \/ RunRaises \/ RowRaises \/ Finish
  BY <1>0, <1>00, <1>3 DEF SourceRaises, NoRepetition, CompileRaises, RunRaises, RowRaises,
     Finish, Raise
<1>4. CASE Compile
  <2>1. /\ pc = "compile" /\ pc' = "judge"
        /\ UNCHANGED <<calls, call, row, paths>>
    BY <1>4 DEF Compile
  <2>2. calls # <<>>
    BY <1>0, <2>1 DEF InCall
  <2> QED BY <1>0, <1>00, <2>1, <2>2
<1>5. CASE Fail \/ FailRaises
  <2>1. /\ pc = "judge" /\ TagTimeout
        /\ \/ pc' = "call" /\ call' = call + 1
           \/ pc' = "end" /\ call' = call
        /\ UNCHANGED <<calls, paths, flagged>>
    BY <1>5 DEF Fail, FailRaises, NextCall, Raise
  <2>2. \A k \in Key : \A col \in Shown(row'[k]) :
          \/ col \in Shown(row[k])
          \/ k = calls[call].key /\ col \in Columns(calls[call])
    BY <1>0, <2>1 DEF TagTimeout, RowShape, Shown, Columns, This
  <2>3. Explained'
    BY <1>0, <2>1, <2>2, ExplainedKept DEF InCall
  <2> QED BY <2>1, <2>3
<1>6. CASE Accept
  BY <1>0, <1>00, <1>6 DEF Accept
<1>7. CASE RunArtifact
  <2>1. /\ pc = "run" /\ pc' = "write"
        /\ ran' # NotRun => Executes(This)
        /\ UNCHANGED <<calls, call, paths, row, flagged>>
    BY <1>7 DEF RunArtifact
  <2>2. Executes(This)' = Executes(This) /\ NotRun' = NotRun
    BY <2>1 DEF Executes, This, NotRun, Earlier
  <2> QED BY <1>0, <1>00, <2>1, <2>2
<1>8. CASE WriteRow
  <2>1. /\ pc = "write" /\ pc' = "call" /\ call' = call + 1
        /\ UNCHANGED <<calls, paths, flagged>>
    BY <1>8 DEF WriteRow, NextCall
  <2>2. \A k \in Key : \A col \in Shown(row'[k]) :
          \/ col \in Shown(row[k])
          \/ k = calls[call].key /\ col \in Columns(calls[call])
    <3> DEFINE R == row[This.key]
               newRun == IF ran = NotRun THEN R.run ELSE [by |-> call, val |-> ran]
               newSize == IF Op = "build" /\ artifact # NoFile
                          THEN [by |-> call, val |-> artifact] ELSE R.size
               newDur == [by |-> call, val |-> Min(Range(durs))]
    <3>1. row' = [row EXCEPT ![This.key] = [version |-> This.version, dur |-> newDur,
                                            run |-> newRun, size |-> newSize]]
      BY <1>0, <1>8 DEF WriteRow, RowShape, This
    <3>2. newRun.by # R.run.by => Executes(calls[call])
      BY <1>0, <2>1 DEF This
    <3>3. newSize.by # R.size.by => Op = "build"
      OBVIOUS
    <3> HIDE DEF newRun, newSize, newDur
    <3>4. \A k \in Key : row'[k] = IF k = This.key
            THEN [version |-> This.version, dur |-> newDur, run |-> newRun, size |-> newSize]
            ELSE row[k]
      BY <1>0, <3>1 DEF RowShape
    <3> QED BY <3>2, <3>3, <3>4 DEF Shown, Columns, This
  <2>3. Explained'
    BY <1>0, <2>1, <2>2, ExplainedKept DEF InCall
  <2> QED BY <2>1, <2>3
<1>9. CASE UNCHANGED vars
  BY <1>00, <1>9 DEF vars, This, NotRun, Earlier
<1> QED
  BY <1>1, <1>2, <1>3, <1>4, <1>5, <1>6, <1>7, <1>8, <1>9 DEF Next

LEMMA RunnerInvariant == Spec => []RunnerInv
<1>1. Init => RunnerInv
  <2> SUFFICES ASSUME Init PROVE RunnerInv
    OBVIOUS
  <2>1. \A k \in Key : Shown(row[k]) = {}
    BY DEF Init, Shown, EmptyRow, NoCell
  <2>2. Explained
    BY <2>1 DEF Explained
  <2> QED BY <2>2 DEF Init, RunnerInv, Begun
<1> QED
  BY <1>1, RunnerInductive, SuccessInvariant, PTL DEF Spec

\* What a task that is over shows are cells that it may measure.
LEMMA MeasuredMay ==
  ASSUME Explained
  PROVE  UNION {{k} \X Shown(row[k]) : k \in Key} \subseteq MayMeasure
<1> SUFFICES ASSUME NEW k \in Key, NEW x \in {k} \X Shown(row[k])
             PROVE  x \in MayMeasure
  OBVIOUS
<1>1. x[1] = k /\ x[2] \in Shown(row[k]) /\ x = <<x[1], x[2]>>
  OBVIOUS
<1>2. PICK c \in Call : calls[c].key = k /\ x[2] \in Columns(calls[c])
  BY <1>1 DEF Explained
<1>3. x \in {calls[c].key} \X Columns(calls[c])
  BY <1>1, <1>2
<1> QED BY <1>3 DEF MayMeasure

\* The calls of a runner implement the run of a task that the driver counts on,
\* for every runner, operation, run count and pair of thresholds (_run_task and
\* benchmark_compiler_op).
THEOREM RunRefinement == Spec => RunSpec
<1>1. Init => Run!RunInit
  BY DEF Init, Run!RunInit, Phase, Outcome, Measured, Raises
<1>2. ASSUME SeriesInv, SuccessInv, RunnerInv, RunnerInv', [Next]_vars
      PROVE  [Run!RunNext]_(Run!runVars)
  <2> USE DEF inputs
  <2>0. result # "running" => pc = "end"
    BY <1>2 DEF SuccessInv
  <2>1. calls' = calls => MayMeasure' = MayMeasure
    BY DEF MayMeasure, Columns, Executes, Call
  <2>2. CASE PickSource
    <3>1. /\ pc = "source" /\ pc' = "compile" /\ paths' # {}
          /\ UNCHANGED <<calls, row, result>>
      BY <2>2 DEF PickSource
    <3>2. UNCHANGED <<Outcome, Measured, MayMeasure>>
      BY <2>1, <3>1 DEF Outcome, Measured, Shown
    <3>3. Phase' = "compiling" /\ Phase \in {"idle", "compiling"}
      BY <3>1 DEF Phase
    <3> QED BY <3>2, <3>3 DEF Run!RunNext, Run!Generate, Run!runVars
  <2>3. CASE \/ SourceRaises \/ NoRepetition \/ CompileRaises \/ FailRaises
            \/ RunRaises \/ RowRaises
    <3>1. /\ pc # "end" /\ pc' = "end" /\ result' \in Raises /\ calls' = calls
      BY <2>3 DEF SourceRaises, NoRepetition, CompileRaises, FailRaises, RunRaises, RowRaises,
         Raise, Raises
    <3>2. Outcome' = "raised" /\ Measured' = {} /\ MayMeasure' = MayMeasure
      BY <2>1, <3>1 DEF Outcome, Measured, Raises
    <3>3. Phase' = "over" /\ Phase \in {"idle", "compiling"}
      BY <3>1 DEF Phase
    <3>4. <<"raised", {}>> \in Run!Endings
      BY DEF Run!Endings, Run!Exceptions
    <3> QED BY <3>2, <3>3, <3>4 DEF Run!RunNext, Run!End
  <2>4. CASE Finish
    <3>1. /\ pc = "call" /\ call > Len(calls) /\ pc' = "end"
          /\ result' = IF flagged THEN "kept" ELSE "success"
          /\ UNCHANGED <<calls, paths, row>>
      BY <2>4 DEF Finish
    <3>2. MayMeasure' = MayMeasure /\ Phase' = "over"
          /\ Phase = IF paths = {} THEN "idle" ELSE "compiling"
      BY <2>1, <3>1 DEF Phase
    <3>3. Measured' \in SUBSET MayMeasure
      <4>1. UNION {{k} \X Shown(row[k]) : k \in Key} \subseteq MayMeasure
        BY <1>2, MeasuredMay DEF RunnerInv
      <4>2. Measured' = UNION {{k} \X Shown(row[k]) : k \in Key}
        BY <3>1 DEF Measured, Shown
      <4> QED BY <4>1, <4>2
    <3>4. <<Outcome', Measured'>> \in Run!Endings
      <4>1. CASE calls = <<>>
        <5>1. paths = {} /\ ~flagged /\ Call = {}
          BY <1>2, <4>1 DEF RunnerInv, Begun, Call
        <5>2. MayMeasure = {}
          BY <5>1 DEF MayMeasure
        <5>3. Outcome' = "none" /\ Measured' = {}
          BY <3>1, <3>3, <4>1, <5>1, <5>2 DEF Outcome, Raises
        <5> QED BY <3>2, <5>1, <5>3 DEF Run!Endings
      <4>2. CASE calls # <<>>
        <5>1. paths # {}
          <6>1. calls \in Seq(CallRecord) /\ call \in Nat
            BY <1>2, RunnerAssumption DEF SeriesInv, FileInv, Inputs, Series
          <6>2. call > 1
            BY <3>1, <4>2, <6>1
          <6> QED BY <1>2, <6>2 DEF RunnerInv, Begun
        <5>2. Outcome' \in Run!Verdicts
          BY <3>1, <4>2 DEF Outcome, Raises, Run!Verdicts
        <5> QED BY <3>2, <3>3, <5>1, <5>2 DEF Run!Endings
      <4> QED BY <4>1, <4>2
    <3> QED BY <3>2, <3>4 DEF Run!RunNext, Run!End
  <2>5. CASE BeginCall \/ Compile \/ Fail \/ Accept \/ RunArtifact \/ WriteRow
    <3>1. /\ pc # "end" /\ pc' # "end"
          /\ UNCHANGED <<calls, paths, result>>
      BY <2>5 DEF BeginCall, Compile, Fail, Accept, RunArtifact, WriteRow, NextCall
    <3>2. result = "running"
      BY <2>0, <3>1
    <3>3. UNCHANGED <<Phase, Outcome, Measured, MayMeasure>>
      BY <2>1, <3>1, <3>2 DEF Phase, Outcome, Measured
    <3> QED BY <3>3 DEF Run!runVars
  <2>6. CASE UNCHANGED vars
    BY <2>1, <2>6 DEF vars, Run!runVars, Phase, Outcome, Measured, Shown
  <2> QED
    BY <1>2, <2>2, <2>3, <2>4, <2>5, <2>6 DEF Next
<1> QED
  BY <1>1, <1>2, SuccessInvariant, RunnerInvariant, PTL DEF Spec, RunSpec, Run!RunSpec

-----------------------------------------------------------------------------
(***************************************************************************)
(* Types.  The durations that reach a row are those of the series, so the  *)
(* type of a row follows from what is known of the repetitions.            *)
(***************************************************************************)
RowRecord == [version : Nat, dur : Cell(Dur \cup {TimedOut}),
              run : Cell(Artifact), size : Cell(Artifact)]

LEMMA TypeStep ==
  ASSUME TypeOK, SeriesInv, SeriesInv', [Next]_vars
  PROVE  TypeOK'
<1> USE DEF inputs, InCall, Call
<1>0. /\ FileInv /\ Inputs /\ Series
      /\ Len(calls) \in Nat /\ runCount \in Nat /\ rep \in Nat
      /\ call \in 1 .. Len(calls) + 1 /\ Dur \subseteq Nat \ {0}
      /\ row \in [Key -> RowRecord]
  BY CallsTyped, OpAssumption DEF SeriesInv, FileInv, TypeOK, Series, RowRecord
<1>1. calls' = calls /\ runCount' = runCount /\ noFunctions' = noFunctions
  BY DEF Next, vars, BeginCall, PickSource, SourceRaises, NoRepetition, Compile,
     CompileRaises, Fail, FailRaises, Accept, RunArtifact, RunRaises, RowRaises,
     WriteRow, Finish, Raise, NextCall
<1>2. pc \in InCall => call \in Call /\ calls[call] \in CallRecord
  BY <1>0, CallsTyped DEF Series
<1>3. (durs \in Seq(Dur))' /\ (tried \in [Call -> Seq([verdict : Verdict, dur : Dur])])'
  BY DEF SeriesInv, Histories, Outcomes
<1>4. pc' \in {"call", "source", "compile", "judge", "run", "write", "end"}
      /\ result' \in {"running", "success", "kept"} \cup Raises
      /\ flagged' \in BOOLEAN /\ printed' \in BOOLEAN
  <2>1. UNCHANGED <<flagged, printed>> \/ Compile
    BY DEF Next, vars, BeginCall, PickSource, SourceRaises, NoRepetition, CompileRaises,
       Fail, FailRaises, Accept, RunArtifact, RunRaises, RowRaises, WriteRow, Finish,
       Raise, NextCall
  <2>2. flagged' \in BOOLEAN /\ printed' \in BOOLEAN
    BY <2>1, Zenon DEF Compile, TypeOK
  <2>3. pc' \in {"call", "source", "compile", "judge", "run", "write", "end"}
    BY DEF TypeOK, Next, vars, BeginCall, PickSource, SourceRaises, NoRepetition,
       Compile, CompileRaises, Fail, FailRaises, Accept, RunArtifact, RunRaises,
       RowRaises, WriteRow, Finish, NextCall, Raise
  <2>4. result' \in {"running", "success", "kept"} \cup Raises
    <3>1. result' = result \/ result' \in {"success", "kept"} \cup Raises
      BY DEF Next, vars, BeginCall, PickSource, SourceRaises, NoRepetition, Compile,
         CompileRaises, Fail, FailRaises, Accept, RunArtifact, RunRaises, RowRaises,
         WriteRow, Finish, Raise, Raises
    <3> QED BY <3>1 DEF TypeOK
  <2> QED BY <2>2, <2>3, <2>4
<1>5. call' \in 1 .. Len(calls) + 1
  <2>1. \/ call' = call
        \/ call' = call + 1 /\ pc \in InCall
    BY DEF Next, vars, BeginCall, PickSource, SourceRaises, NoRepetition, Compile,
       CompileRaises, Fail, FailRaises, Accept, RunArtifact, RunRaises, RowRaises,
       WriteRow, Finish, NextCall, Raise
  <2> QED BY <1>0, <1>2, <2>1
<1>6. rep' \in 0 .. runCount
  <2>1. \/ rep' = rep
        \/ rep' = 0
        \/ rep' = rep + 1 /\ pc = "judge"
    BY DEF Next, vars, BeginCall, PickSource, SourceRaises, NoRepetition, Compile,
       CompileRaises, Fail, FailRaises, Accept, RunArtifact, RunRaises, RowRaises,
       WriteRow, Finish, NextCall, Raise
  <2> QED BY <1>0, <2>1 DEF TypeOK, Series
<1>7. last' \in [verdict : Verdict \cup {"raised"}, dur : Dur \cup {0}]
  <2>1. \/ last' = last
        \/ last' \in [verdict : Verdict, dur : Dur]
        \/ last' = [verdict |-> "raised", dur |-> 0]
    BY DEF Next, vars, BeginCall, PickSource, SourceRaises, NoRepetition, Compile,
       CompileRaises, Fail, FailRaises, Accept, RunArtifact, RunRaises, RowRaises,
       WriteRow, Finish, Raise, NextCall
  <2> QED BY <2>1 DEF TypeOK
<1>8. paths' \subseteq 0 .. runCount
  <2>1. \/ paths' = paths
        \/ paths' = paths \cup {rep} /\ rep < runCount
    BY DEF Next, vars, BeginCall, PickSource, SourceRaises, NoRepetition, Compile,
       CompileRaises, Fail, FailRaises, Accept, RunArtifact, RunRaises, RowRaises,
       WriteRow, Finish, Raise, NextCall
  <2> QED BY <1>0, <2>1 DEF TypeOK
<1>9. artifact' \in Artifact /\ ran' \in Artifact \cup {NotRun}
  <2>1. \/ artifact' = artifact
        \/ artifact' = call /\ pc \in InCall
    BY DEF Next, vars, BeginCall, PickSource, SourceRaises, NoRepetition, Compile,
       CompileRaises, Fail, FailRaises, Accept, RunArtifact, RunRaises, RowRaises,
       WriteRow, Finish, Raise, NextCall
  <2>2. ran' \in {ran, artifact, NotRun}
    BY DEF Next, vars, BeginCall, PickSource, SourceRaises, NoRepetition, Compile,
       CompileRaises, Fail, FailRaises, Accept, RunArtifact, RunRaises, RowRaises,
       WriteRow, Finish, Raise, NextCall
  <2> QED BY <1>0, <1>2, <2>1, <2>2 DEF TypeOK, Artifact, Earlier
<1>10. row' \in [Key -> RowRecord]
  <2>1. CASE BeginCall
    <3>1. This \in CallRecord
      BY <1>0, <2>1, CallsTyped DEF BeginCall, This
    <3> QED BY <1>0, <2>1, <3>1 DEF BeginCall, CallRecord, RowRecord
  <2>2. CASE Fail \/ FailRaises
    <3>0. pc = "judge" /\ TagTimeout
      BY <2>2 DEF Fail, FailRaises
    <3>1. [by |-> call, val |-> TimedOut] \in Cell(Dur \cup {TimedOut})
      BY <1>0, <1>2, <3>0 DEF Cell
    <3>2. This.key \in Key
      BY <1>2, <3>0 DEF This, CallRecord
    <3> QED BY <1>0, <3>0, <3>1, <3>2 DEF TagTimeout, RowRecord
  <2>3. CASE WriteRow
    <3>1. This \in CallRecord /\ call \in 0 .. Len(calls)
      BY <1>0, <1>2, <2>3 DEF WriteRow, This
    <3>2. Min(Range(durs)) \in Dur
      <4>1. Range(durs) \subseteq Dur /\ Range(durs) # {}
        <5>1. durs \in Seq(Dur) /\ Len(durs) = Len(tried[call]) /\ tried[call] # <<>>
              /\ tried[call] \in Seq(Outcomes)
          BY <1>2, <2>3 DEF WriteRow, SeriesInv, Histories, Current, Over
        <5> QED BY <5>1 DEF Range
      <4> QED BY <1>0, <4>1, MinMember
    <3>3. [by |-> call, val |-> Min(Range(durs))] \in Cell(Dur \cup {TimedOut})
      BY <3>1, <3>2 DEF Cell
    <3>4. /\ ran # NotRun => [by |-> call, val |-> ran] \in Cell(Artifact)
          /\ [by |-> call, val |-> artifact] \in Cell(Artifact)
      BY <3>1 DEF Cell, TypeOK
    <3>5. This.key \in Key /\ This.version \in Nat /\ row[This.key] \in RowRecord
      BY <1>0, <3>1 DEF CallRecord
    <3> DEFINE newRun == IF ran = NotRun THEN row[This.key].run ELSE [by |-> call, val |-> ran]
               newSize == IF Op = "build" /\ artifact # NoFile
                          THEN [by |-> call, val |-> artifact] ELSE row[This.key].size
               newRow == [version |-> This.version,
                          dur |-> [by |-> call, val |-> Min(Range(durs))],
                          run |-> newRun, size |-> newSize]
    <3>6. newRun \in Cell(Artifact) /\ newSize \in Cell(Artifact)
      <4>1. row[This.key].run \in Cell(Artifact) /\ row[This.key].size \in Cell(Artifact)
        BY <3>5 DEF RowRecord
      <4> QED BY <3>4, <4>1
    <3>7. newRow \in RowRecord
      <4> HIDE DEF newRun, newSize
      <4> QED BY <3>3, <3>5, <3>6 DEF RowRecord
    <3>8. row' = [row EXCEPT ![This.key] = newRow]
      BY <2>3 DEF WriteRow
    <3> HIDE DEF newRow
    <3> QED BY <1>0, <3>5, <3>7, <3>8
  <2>4. \/ BeginCall \/ Fail \/ FailRaises \/ WriteRow \/ row' = row
    BY DEF Next, vars, PickSource, SourceRaises, NoRepetition, Compile, CompileRaises,
       Accept, RunArtifact, RunRaises, RowRaises, Finish, Raise, NextCall
  <2> QED BY <1>0, <2>1, <2>2, <2>3, <2>4
<1>11. (calls \in Runner /\ runCount \in RunCounts /\ noFunctions \in BOOLEAN)'
  BY <1>0, <1>1 DEF Inputs
<1>12. RowRecord' = RowRecord /\ Artifact' = Artifact /\ NotRun' = NotRun
  BY <1>1 DEF RowRecord, Cell, Artifact, NotRun, Earlier
<1> QED
  BY <1>1, <1>3, <1>4, <1>5, <1>6, <1>7, <1>8, <1>9, <1>10, <1>11, <1>12
     DEF TypeOK, RowRecord

\* Every variable of a task's compiler operations has its type.
THEOREM OpTypeCorrect == Spec => []TypeOK
<1>1. Init => TypeOK
  <2> SUFFICES ASSUME Init PROVE TypeOK
    OBVIOUS
  <2>1. Len(calls) \in Nat /\ runCount \in Nat
    BY CallsTyped DEF Init, Inputs
  <2>2. row \in [Key -> [version : Nat, dur : Cell(Dur \cup {TimedOut}),
                         run : Cell(Artifact), size : Cell(Artifact)]]
    BY <2>1 DEF Init, EmptyRow, NoCell, Cell, Artifact, Earlier, TimedOut
  <2>3. /\ call \in 1 .. Len(calls) + 1 /\ rep \in 0 .. runCount
        /\ artifact \in Artifact /\ ran = NotRun
    BY <2>1 DEF Init, Artifact, Earlier, NoFile
  <2>4. /\ durs \in Seq(Dur) /\ last \in [verdict : Verdict \cup {"raised"}, dur : Dur \cup {0}]
        /\ tried \in [Call -> Seq([verdict : Verdict, dur : Dur])]
    BY DEF Init, Verdict
  <2> QED
    BY <2>1, <2>2, <2>3, <2>4 DEF Init, TypeOK
<1>2. TypeOK /\ SeriesInv /\ [Next]_vars => (TypeOK /\ SeriesInv)'
  BY SeriesInductive, TypeStep
<1> QED
  BY <1>1, <1>2, SeriesInitially, PTL DEF Spec
=============================================================================
