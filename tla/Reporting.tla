------------------------------ MODULE Reporting ------------------------------
(***************************************************************************)
(* The tables that markdown_table (cbench_pkg/reporting.py) makes of the   *)
(* results: rows are dealt out to the tiers of their compilers; in each    *)
(* tier the best figure of every column is found, plain and templated rows *)
(* of a compiler are stacked into one, and the rows are sorted.            *)
(*                                                                         *)
(* Durations, sizes and memory are integers; how a figure is printed is    *)
(* left out.                                                               *)
(***************************************************************************)
EXTENDS LanguageRegistry, Integers, Sorting

CONSTANTS Table,    \* results: functions from some keys to rows
          MaxFigure,\* the largest duration, memory or size
          SortBy,   \* values of --sort
          Rank      \* <<language, compiler>> -> position of its title in the alphabet

NA == -1         \* no entry, or "N/A"
Missing == -2    \* the texts that stand for memory that was not sampled
Late == 2 * MaxFigure + 1    \* the timeout tag, above every figure and sum of two

RawCol == {"ast-check", "check", "compile", "build", "run", "check-rss", "build-rss",
           "output-size"}
Key == [lang : {Registry[i].name : i \in LangIx}, templated : BOOLEAN, exe : STRING]
Value == {NA, Missing, Late} \cup 0 .. MaxFigure

\* isinstance(val, (int, float))
Num(v) == v \notin {NA, Missing, Late}

ASSUME ReportingAssumption ==
  /\ MaxFigure \in Nat
  /\ SortBy \subseteq (RawCol \ {"ast-check"}) \cup {"total", "name", "lang", "size"}
  /\ \A i \in LangIx : Registry[i].tier \in 1 .. 3
  /\ \A T \in Table : IsFiniteSet(DOMAIN T) /\ \A k \in DOMAIN T :
       /\ k \in Key
       /\ \A c \in RawCol : T[k][c] \in Value
       /\ T[k]["build"] # Missing /\ T[k]["run"] # Missing
       /\ Rank[<<k.lang, k.exe>>] \in Nat
       /\ \A l \in DOMAIN T : Rank[<<k.lang, k.exe>>] = Rank[<<l.lang, l.exe>>] =>
            <<k.lang, k.exe>> = <<l.lang, l.exe>>

VARIABLES
  results,    \* what the benchmark driver collected
  sortBy,     \* --sort
  sortReverse,\* --sort-reverse
  tiers,      \* the rest of TIERS
  sections    \* the tables so far

vars == <<results, sortBy, sortReverse, tiers, sections>>

-----------------------------------------------------------------------------
TIERS == <<2, 1, 3>>

\* tiered_results[tier]
TierKeys(tier) == {k \in DOMAIN results : GetSemanticTier(k.lang, k.exe) = tier}
TierResults(tier) == [k \in TierKeys(tier) |-> results[k]]

Least(S) == IF S = {} THEN NA ELSE Min(S)

\* Mutant: plain and templated programs compete.
MinValOfBoth(res, col, templated) ==
  Least({res[k][col] : k \in {j \in DOMAIN res : Num(res[j][col])}})

\* min_vals of format_metric_columns
MinVal(res, col, templated) ==
  Least({res[k][col] : k \in {j \in DOMAIN res : j.templated = templated /\ Num(res[j][col])}})

Number(v) == IF Num(v) THEN v ELSE 0

\* The sum of build and run, what is no number counting as 0.
Tot(row) == Number(row["build"]) + Number(row["run"])

\* min_tots of merge_plain_and_templated_results
MinTot(res, templated) ==
  Least({Tot(res[k]) : k \in {j \in DOMAIN res :
           j.templated = templated /\ (res[j]["build"] # NA \/ res[j]["run"] # NA)}})

-----------------------------------------------------------------------------
\* A line of a cell: the figure, whether it is highlighted, and the figures
\* whose quotient is its relative value.  Dash stands for a variant without one.
Line(figure, best, rel) == [figure |-> figure, best |-> best, rel |-> rel]
One == <<1, 1>>
Text(v) == Line(v, FALSE, One)
Dash == Text(NA)

\* stringify_metrics
StringifyMetrics(v, min) ==
  IF ~Num(v) THEN Text(v)
  ELSE Line(v, v = min, IF v = min THEN One ELSE <<v, min>>)

\* format_tot
FormatTot(row, min) ==
  IF row["build"] = Late THEN Text(Late)
  ELSE IF row["build"] = NA /\ row["run"] = NA THEN Dash
  ELSE Line(Tot(row), Tot(row) = min, IF Tot(row) = min \/ min = 0 THEN One ELSE <<Tot(row), min>>)

\* Mutant: a missing plain variant leaves no line.
StackedWithoutDash(p, t, generic) ==
  IF ~generic \/ t = Dash THEN <<p>> ELSE IF p = Dash THEN <<t>> ELSE <<p, t>>

\* The lines of the plain and of the templated row, which exists if `generic`.
Stacked(p, t, generic) ==
  IF ~generic \/ (p = Dash /\ t = Dash) THEN <<p>> ELSE <<p, t>>

\* grouped, grouped_raw: the rows of one compiler.
KeyOf(title, templated) == [lang |-> title[1], templated |-> templated, exe |-> title[2]]
Grouped(res, title) ==
  [t \in {b \in BOOLEAN : KeyOf(title, b) \in DOMAIN res} |-> res[KeyOf(title, t)]]

\* format_col, and the choice of tot_cell.
MetricLine(res, variants, col, templated) ==
  IF templated \notin DOMAIN variants THEN Dash
  ELSE StringifyMetrics(variants[templated][col], MinVal(res, col, templated))

MetricCell(res, variants, col) ==
  Stacked(MetricLine(res, variants, col, FALSE), MetricLine(res, variants, col, TRUE),
          TRUE \in DOMAIN variants)

TotalLine(res, variants, templated) ==
  IF templated \notin DOMAIN variants THEN Dash
  ELSE FormatTot(variants[templated], MinTot(res, templated))

TotalCell(res, variants) ==
  Stacked(TotalLine(res, variants, FALSE), TotalLine(res, variants, TRUE),
          TRUE \in DOMAIN variants)

\* The AST check is appended to the Check cell.
CheckCell(res, variants, lang) ==
  LET ast == MetricCell(res, variants, "ast-check")
  IN MetricCell(res, variants, "check") \o
     IF "ast-check" \in LangSupport(lang).ops /\ ast # <<Dash>> THEN ast ELSE <<>>

MetricCols == {"check", "compile", "check-rss", "build-rss", "output-size"}

\* merge_plain_and_templated_results: the row of one compiler.
MergedRow(res, title) ==
  LET variants == Grouped(res, title)
  IN [title |-> title,
      total |-> TotalCell(res, variants),
      cell |-> [c \in MetricCols |-> IF c = "check" THEN CheckCell(res, variants, title[1])
                                     ELSE MetricCell(res, variants, c)]]

-----------------------------------------------------------------------------
\* The plain row decides unless it has nothing to sort by.
PlainFirst(plain, templated) == IF plain # NA THEN plain ELSE templated

\* _extract_metric
MetricValue(variants, col, templated) ==
  IF templated \notin DOMAIN variants \/ variants[templated][col] = Missing THEN NA
  ELSE variants[templated][col]

ExtractMetric(variants, col) ==
  PlainFirst(MetricValue(variants, col, FALSE), MetricValue(variants, col, TRUE))

\* Mutant: a timeout is nothing to sort by.
TotalValueOfNumbers(variants, templated) ==
  IF templated \notin DOMAIN variants THEN NA
  ELSE LET row == variants[templated]
       IN IF Num(row["build"]) \/ Num(row["run"]) THEN Tot(row) ELSE NA

\* _extract_total
TotalValue(variants, templated) ==
  IF templated \notin DOMAIN variants THEN NA
  ELSE LET row == variants[templated]
       IN IF Late \in {row["build"], row["run"]} THEN Late
          ELSE IF Num(row["build"]) \/ Num(row["run"]) THEN Tot(row) ELSE NA

ExtractTotal(variants) == PlainFirst(TotalValue(variants, FALSE), TotalValue(variants, TRUE))

SortVal(res, by, title) ==
  CASE by = "total" -> ExtractTotal(Grouped(res, title))
    [] by = "size" -> ExtractMetric(Grouped(res, title), "output-size")
    [] OTHER -> ExtractMetric(Grouped(res, title), by)

\* _skey: what has no value comes last in either order.
Before(res, by, reverse, a, b) ==
  LET v == SortVal(res, by, a) w == SortVal(res, by, b) IN
  IF by \in {"name", "lang"} THEN IF reverse THEN Rank[a] > Rank[b] ELSE Rank[a] < Rank[b]
  ELSE \/ v # NA /\ w = NA
       \/ v # NA /\ w # NA /\ IF reverse THEN v > w ELSE v < w
       \/ v = w /\ Rank[a] < Rank[b]

\* render_single_table
RenderSingleTable(res, by, reverse) ==
  LET merged == {<<k.lang, k.exe>> : k \in DOMAIN res}
      titles == InOrder(merged, [t \in merged |-> {u \in merged : Before(res, by, reverse, u, t)}])
  IN [i \in DOMAIN titles |-> MergedRow(res, titles[i])]

-----------------------------------------------------------------------------
Init ==
  /\ results \in Table /\ sortBy \in SortBy /\ sortReverse \in BOOLEAN
  /\ tiers = TIERS
  /\ sections = <<>>

\* A turn of the loop of markdown_table; a tier without rows has no section.
RenderTier ==
  /\ tiers # <<>>
  /\ tiers' = Tail(tiers)
  /\ LET res == TierResults(Head(tiers))
     IN sections' = IF DOMAIN res = {} THEN sections
                    ELSE Append(sections, [tier |-> Head(tiers),
                                           rows |-> RenderSingleTable(res, sortBy, sortReverse)])
  /\ UNCHANGED <<results, sortBy, sortReverse>>

Next == RenderTier
Spec == Init /\ [][Next]_vars

-----------------------------------------------------------------------------
Shown == tiers = <<>>

\* Where a reader looks for a variant's figure: on top for the plain program, at
\* the bottom for the templated one.
Entry(cell, templated) == cell[IF templated THEN 2 ELSE 1]

\* A section and a row of it.
RowPlaces == (1 .. Len(TIERS)) \X (1 .. Cardinality(DOMAIN results))

\* Each compiler has exactly one row, in the section of its tier, and in each
\* cell of it the figure, tag or text of a variant stands where a reader looks
\* for it (the grouping by keys, the stacking with dashes).
EveryFigureShown ==
  Shown => \A k \in DOMAIN results :
    /\ Cardinality({at \in RowPlaces : /\ at[1] \in DOMAIN sections
                                     /\ at[2] \in DOMAIN sections[at[1]].rows
                                     /\ sections[at[1]].rows[at[2]].title = <<k.lang, k.exe>>}) = 1
    /\ \E s \in DOMAIN sections :
         /\ sections[s].tier = GetSemanticTier(k.lang, k.exe)
         /\ \E row \in ToSet(sections[s].rows) :
              /\ row.title = <<k.lang, k.exe>>
              /\ \A c \in MetricCols : results[k][c] # NA =>
                   Entry(row.cell[c], k.templated).figure = results[k][c]
              /\ Num(results[k]["build"]) => Entry(row.total, k.templated).figure = Tot(results[k])

\* The lines with a figure in the cells of a column.
Figures(cells, templated) ==
  {Entry(cells[i], templated) :
     i \in {j \in DOMAIN cells : /\ Len(cells[j]) >= (IF templated THEN 2 ELSE 1)
                                /\ Num(Entry(cells[j], templated).figure)}}

BestIsLeast(lines) ==
  \A f \in lines : f.best <=> \A g \in lines : f.figure <= g.figure

Column(rows, c) == [i \in DOMAIN rows |-> rows[i].cell[c]]
Totals(rows) == [i \in DOMAIN rows |-> rows[i].total]

\* In each table and column the highlighted figures are the least ones among
\* those shown, plain and templated apart; in the totals too, unless something
\* that timed out counted as 0 there.  (The second line of a Check cell may be an
\* AST check.)
HighlightedIsLeast ==
  Shown => \A s \in DOMAIN sections, templated \in BOOLEAN :
    /\ \A c \in MetricCols : (templated /\ c = "check") \/
         BestIsLeast(Figures(Column(sections[s].rows, c), templated))
    /\ (\A k \in TierKeys(sections[s].tier) : results[k]["build"] # Late) =>
         BestIsLeast(Figures(Totals(sections[s].rows), templated))

\* The first line of a cell that says something one can sort by.
FirstShown(cell) ==
  LET said == {n \in DOMAIN cell : cell[n].figure \notin {NA, Missing}}
  IN IF said = {} THEN NA ELSE cell[Min(said)].figure

FigureSortedBy(row) ==
  FirstShown(CASE sortBy = "total" -> row.total
               [] sortBy = "size" -> row.cell["output-size"]
               [] OTHER -> row.cell[sortBy])

RunLate(title) == \E k \in DOMAIN results : <<k.lang, k.exe>> = title /\ results[k]["run"] = Late

\* The order of the rows is that of the figures a reader sees in the column they
\* are sorted by, although sort keys and cells are computed apart: timeouts above
\* all figures, rows without one last in either direction.  A row whose `run`
\* task timed out is sorted as a timeout while its cell shows the build alone.
OrderMatchesShown ==
  Shown /\ sortBy \in {"total", "size", "build-rss"} => \A s \in DOMAIN sections :
    LET rows == sections[s].rows
        Fig(i) == FigureSortedBy(rows[i])
    IN \A i, j \in DOMAIN rows : i < j /\ ~RunLate(rows[i].title) /\ ~RunLate(rows[j].title) =>
         \/ Fig(j) = NA
         \/ Fig(i) # NA /\ IF sortReverse THEN Fig(i) >= Fig(j) ELSE Fig(i) <= Fig(j)

=============================================================================
