--------------------------- MODULE ReportingProofs ---------------------------
(***************************************************************************)
(* Proofs about the tables, for every registry, all results and every way  *)
(* to sort: what RenderSingleTable makes of the rows of a tier, and what   *)
(* the sections show when they are done.                                   *)
(***************************************************************************)
EXTENDS Reporting, SortingProofs

\* What ReportingAssumption says of each table, which holds of a part of it too.
Sound(T) ==
  /\ IsFiniteSet(DOMAIN T)
  /\ \A k \in DOMAIN T :
       /\ k \in Key
       /\ \A c \in RawCol : T[k][c] \in Value
       /\ T[k]["build"] # Missing /\ T[k]["run"] # Missing
       /\ Rank[<<k.lang, k.exe>>] \in Nat
       /\ \A l \in DOMAIN T : Rank[<<k.lang, k.exe>>] = Rank[<<l.lang, l.exe>>] =>
            <<k.lang, k.exe>> = <<l.lang, l.exe>>

LEMMA TableSound == \A T \in Table : Sound(T)
BY ReportingAssumption DEF Sound

LEMMA TierSound ==
  ASSUME Sound(results), NEW tier
  PROVE  Sound(TierResults(tier))
<1>1. DOMAIN TierResults(tier) = TierKeys(tier) /\ TierKeys(tier) \subseteq DOMAIN results
  BY DEF TierResults, TierKeys
<1>2. \A k \in TierKeys(tier) : TierResults(tier)[k] = results[k]
  BY DEF TierResults
<1>3. IsFiniteSet(TierKeys(tier))
  BY <1>1, FS_Subset DEF Sound
<1> QED
  BY <1>1, <1>2, <1>3, Zenon DEF Sound

\* Kinds of figures: what is no number is one of three texts, the tag of a timeout
\* being above all figures.
LEMMA Figure ==
  /\ \A v \in Value : v \in Int /\ (Num(v) => v \in 0 .. MaxFigure)
  /\ \A v \in 0 .. 2 * MaxFigure : Num(v) /\ v # NA /\ v # Missing /\ v # Late
  /\ Late \in Nat /\ NA \in Int /\ Missing \in Int /\ NA # Missing /\ NA # Late /\ Missing # Late
  /\ ~Num(NA) /\ ~Num(Missing) /\ ~Num(Late)
BY ReportingAssumption DEF Value, Num, NA, Missing, Late

LEMMA TotInRange ==
  ASSUME NEW row, row["build"] \in Value, row["run"] \in Value
  PROVE  Tot(row) \in 0 .. 2 * MaxFigure /\ Tot(row) \in Nat
<1>1. MaxFigure \in Nat
  BY ReportingAssumption
<1>2. Number(row["build"]) \in 0 .. MaxFigure /\ Number(row["run"]) \in 0 .. MaxFigure
  BY <1>1, Figure DEF Number
<1> QED
  BY <1>1, <1>2 DEF Tot

\* Min picks a least number.
LEMMA MinIsLeast ==
  ASSUME NEW S, S \subseteq Nat, S # {}
  PROVE  Min(S) \in S /\ \A y \in S : Min(S) <= y
BY LeastMember DEF Min

-----------------------------------------------------------------------------
(***************************************************************************)
(* The rows of a table.                                                    *)
(***************************************************************************)
Titles(res) == {<<k.lang, k.exe>> : k \in DOMAIN res}

\* The key of a row is made of its title and whether it is templated.
LEMMA KeyOfTitle ==
  ASSUME NEW k \in Key
  PROVE  KeyOf(<<k.lang, k.exe>>, k.templated) = k
BY DEF KeyOf, Key

LEMMA GroupedTyped ==
  ASSUME NEW res, Sound(res), NEW title
  PROVE  /\ DOMAIN Grouped(res, title) = {b \in BOOLEAN : KeyOf(title, b) \in DOMAIN res}
         /\ \A b \in DOMAIN Grouped(res, title) :
              /\ Grouped(res, title)[b] = res[KeyOf(title, b)]
              /\ \A c \in RawCol : Grouped(res, title)[b][c] \in Value
<1>1. DOMAIN Grouped(res, title) = {b \in BOOLEAN : KeyOf(title, b) \in DOMAIN res}
  BY DEF Grouped
<1>2. \A b \in DOMAIN Grouped(res, title) : Grouped(res, title)[b] = res[KeyOf(title, b)]
  BY DEF Grouped
<1>3. \A b \in DOMAIN Grouped(res, title) : KeyOf(title, b) \in DOMAIN res
  BY <1>1
<1> QED
  BY <1>1, <1>2, <1>3, Zenon DEF Sound

LEMMA VariantNotMissing ==
  ASSUME NEW res, Sound(res), NEW title, NEW b \in DOMAIN Grouped(res, title)
  PROVE  Grouped(res, title)[b]["build"] # Missing /\ Grouped(res, title)[b]["run"] # Missing
<1>1. KeyOf(title, b) \in DOMAIN res /\ Grouped(res, title)[b] = res[KeyOf(title, b)]
  BY DEF Grouped
<1>2. res[KeyOf(title, b)]["build"] # Missing /\ res[KeyOf(title, b)]["run"] # Missing
  BY <1>1, Zenon DEF Sound
<1> QED
  BY <1>1, <1>2, Zenon

\* The variant of a row is that row.
LEMMA VariantOfRow ==
  ASSUME NEW res, Sound(res), NEW k \in DOMAIN res
  PROVE  /\ k.templated \in DOMAIN Grouped(res, <<k.lang, k.exe>>)
         /\ Grouped(res, <<k.lang, k.exe>>)[k.templated] = res[k]
<1>1. k \in Key /\ k.templated \in BOOLEAN
  BY DEF Sound, Key
<1>2. KeyOf(<<k.lang, k.exe>>, k.templated) = k
  BY <1>1, KeyOfTitle
<1>3. KeyOf(<<k.lang, k.exe>>, k.templated) \in DOMAIN res
  BY <1>2
<1>4. k.templated \in {b \in BOOLEAN : KeyOf(<<k.lang, k.exe>>, b) \in DOMAIN res}
  BY <1>1, <1>3, Zenon
<1> DEFINE variants == Grouped(res, <<k.lang, k.exe>>)
<1>5. k.templated \in DOMAIN variants
  BY <1>4, GroupedTyped
<1>6. variants[k.templated] = res[KeyOf(<<k.lang, k.exe>>, k.templated)]
  BY <1>4 DEF Grouped
<1> QED
  BY <1>2, <1>5, <1>6, Zenon

-----------------------------------------------------------------------------
(***************************************************************************)
(* The order of the rows.                                                  *)
(***************************************************************************)
\* What a row is sorted by is a number or nothing.
LEMMA MetricValueTyped ==
  ASSUME NEW res, Sound(res), NEW title, NEW col \in RawCol, NEW b
  PROVE  MetricValue(Grouped(res, title), col, b) \in Nat \cup {NA}
<1>1. CASE b \in DOMAIN Grouped(res, title)
  <2>1. Grouped(res, title)[b][col] \in Value
    BY <1>1, GroupedTyped
  <2> QED
    BY <1>1, <2>1, Figure DEF MetricValue, Value
<1>2. CASE b \notin DOMAIN Grouped(res, title)
  BY <1>2 DEF MetricValue
<1> QED
  BY <1>1, <1>2

LEMMA TotalValueTyped ==
  ASSUME NEW res, Sound(res), NEW title, NEW b
  PROVE  TotalValue(Grouped(res, title), b) \in Nat \cup {NA}
<1>1. CASE b \in DOMAIN Grouped(res, title)
  <2> DEFINE row == Grouped(res, title)[b]
  <2>1. row["build"] \in Value /\ row["run"] \in Value
    BY <1>1, GroupedTyped DEF RawCol
  <2>2. Tot(row) \in Nat
    BY <2>1, TotInRange
  <2>3. Late \in Nat
    BY Figure
  <2> HIDE DEF row
  <2>4. TotalValue(Grouped(res, title), b) =
          IF Late \in {row["build"], row["run"]} THEN Late
          ELSE IF Num(row["build"]) \/ Num(row["run"]) THEN Tot(row) ELSE NA
    BY <1>1 DEF TotalValue, row
  <2> QED
    BY <2>2, <2>3, <2>4
<1>2. CASE b \notin DOMAIN Grouped(res, title)
  BY <1>2 DEF TotalValue
<1> QED
  BY <1>1, <1>2

LEMMA SortValTyped ==
  ASSUME NEW res, Sound(res), NEW by \in SortBy \ {"name", "lang"}, NEW title
  PROVE  SortVal(res, by, title) \in Nat \cup {NA}
<1>1. by \in RawCol \cup {"total", "size"}
  BY ReportingAssumption
<1>2. ExtractTotal(Grouped(res, title)) \in Nat \cup {NA}
  BY TotalValueTyped DEF ExtractTotal, PlainFirst
<1>3. \A col \in RawCol : ExtractMetric(Grouped(res, title), col) \in Nat \cup {NA}
  BY MetricValueTyped DEF ExtractMetric, PlainFirst
<1>4. "output-size" \in RawCol
  BY DEF RawCol
<1> QED
  BY <1>1, <1>2, <1>3, <1>4 DEF SortVal

\* Before, of numbers.
Ahead(byTitle, reverse, v, w, p, q) ==
  IF byTitle THEN IF reverse THEN p > q ELSE p < q
  ELSE \/ v # NA /\ w = NA
       \/ v # NA /\ w # NA /\ IF reverse THEN v > w ELSE v < w
       \/ v = w /\ p < q

LEMMA BeforeIsAhead ==
  ASSUME NEW res, NEW by, NEW reverse, NEW a, NEW b
  PROVE  Before(res, by, reverse, a, b) <=>
           Ahead(by \in {"name", "lang"}, reverse, SortVal(res, by, a), SortVal(res, by, b),
                 Rank[a], Rank[b])
BY Zenon DEF Before, Ahead

\* Sorting by value or by title orders three rows whose titles have places of their own.
Orderly(byTitle, reverse, u, v, w, p, q, r) ==
  /\ ~Ahead(byTitle, reverse, u, u, p, p)
  /\ Ahead(byTitle, reverse, u, v, p, q) /\ Ahead(byTitle, reverse, v, w, q, r) =>
       Ahead(byTitle, reverse, u, w, p, r)
  /\ p # q => Ahead(byTitle, reverse, u, v, p, q) \/ Ahead(byTitle, reverse, v, u, q, p)

LEMMA AheadOrders ==
  ASSUME NEW byTitle \in BOOLEAN, NEW reverse \in BOOLEAN,
         NEW u, NEW v, NEW w,
         byTitle \/ (u \in Nat \cup {NA} /\ v \in Nat \cup {NA} /\ w \in Nat \cup {NA}),
         NEW p \in Nat, NEW q \in Nat, NEW r \in Nat
  PROVE  Orderly(byTitle, reverse, u, v, w, p, q, r)
<1>1. CASE byTitle = TRUE
  <2>1. CASE reverse = TRUE
    BY <1>1, <2>1 DEF Ahead, Orderly
  <2>2. CASE reverse = FALSE
    BY <1>1, <2>2 DEF Ahead, Orderly
  <2> QED BY <2>1, <2>2
<1>2. CASE byTitle = FALSE
  <2>0. u \in Nat \cup {NA} /\ v \in Nat \cup {NA} /\ w \in Nat \cup {NA} /\ NA = -1
    BY <1>2 DEF NA
  <2>1. CASE reverse = TRUE
    BY <1>2, <2>0, <2>1 DEF Ahead, Orderly
  <2>2. CASE reverse = FALSE
    BY <1>2, <2>0, <2>2 DEF Ahead, Orderly
  <2> QED BY <2>1, <2>2
<1> QED BY <1>1, <1>2

AheadOf(res, by, reverse) ==
  [t \in Titles(res) |-> {u \in Titles(res) : Before(res, by, reverse, u, t)}]

LEMMA TitlesFinite ==
  ASSUME NEW res, Sound(res)
  PROVE  /\ IsFiniteSet(Titles(res)) /\ Cardinality(Titles(res)) \in Nat
         /\ Cardinality(Titles(res)) <= Cardinality(DOMAIN res)
<1> DEFINE f == [k \in DOMAIN res |-> <<k.lang, k.exe>>]
<1>1. IsFiniteSet(DOMAIN res)
  BY DEF Sound
<1>2. f \in Surjection(DOMAIN res, Titles(res))
  BY DEF Titles, Surjection
<1>3. IsFiniteSet(Titles(res)) /\ Cardinality(Titles(res)) <= Cardinality(DOMAIN res)
  BY <1>1, <1>2, FS_Surjection
<1> QED
  BY <1>3, FS_CardinalityType

LEMMA RankOfTitle ==
  ASSUME NEW res, Sound(res)
  PROVE  /\ \A t \in Titles(res) : Rank[t] \in Nat
         /\ \A t, u \in Titles(res) : Rank[t] = Rank[u] => t = u
<1>1. ASSUME NEW t \in Titles(res) PROVE Rank[t] \in Nat
  <2>1. PICK k \in DOMAIN res : t = <<k.lang, k.exe>>
    BY DEF Titles
  <2> QED BY <2>1 DEF Sound
<1>2. ASSUME NEW t \in Titles(res), NEW u \in Titles(res), Rank[t] = Rank[u] PROVE t = u
  <2>1. PICK k \in DOMAIN res : t = <<k.lang, k.exe>>
    BY DEF Titles
  <2>2. PICK l \in DOMAIN res : u = <<l.lang, l.exe>>
    BY DEF Titles
  <2>3. Rank[<<k.lang, k.exe>>] = Rank[<<l.lang, l.exe>>]
    BY <1>2, <2>1, <2>2
  <2>4. <<k.lang, k.exe>> = <<l.lang, l.exe>>
    BY <2>3, Zenon DEF Sound
  <2> QED BY <2>1, <2>2, <2>4
<1> QED BY <1>1, <1>2

\* _skey orders the rows of a table strictly, none apart.
THEOREM SortKeyOrders ==
  ASSUME NEW res, Sound(res), NEW by \in SortBy, NEW reverse \in BOOLEAN
  PROVE  Orders(AheadOf(res, by, reverse), Titles(res))
<1> DEFINE S == Titles(res)
           B(a, b) == Before(res, by, reverse, a, b)
           named == by \in {"name", "lang"}
           V(a) == SortVal(res, by, a)
<1>1. named \in BOOLEAN
  OBVIOUS
<1>2. ASSUME named = FALSE, NEW a PROVE V(a) \in Nat \cup {NA}
  BY <1>2, SortValTyped
<1>3. \A a, b : B(a, b) <=> Ahead(named, reverse, V(a), V(b), Rank[a], Rank[b])
  BY BeforeIsAhead
<1>4. \A a \in S : Rank[a] \in Nat
  BY RankOfTitle
<1>5. \A a, b \in S : a # b => Rank[a] # Rank[b]
  BY RankOfTitle
<1> HIDE DEF S, B, named, V
<1>6. ASSUME NEW a \in S, NEW b \in S, NEW c \in S
      PROVE  ~B(a, a) /\ (B(a, b) /\ B(b, c) => B(a, c)) /\ (a # b => B(a, b) \/ B(b, a))
  <2>1. Rank[a] \in Nat /\ Rank[b] \in Nat /\ Rank[c] \in Nat
    BY <1>4
  <2>2. named \/ (V(a) \in Nat \cup {NA} /\ V(b) \in Nat \cup {NA} /\ V(c) \in Nat \cup {NA})
    BY <1>1, <1>2
  <2>3. Orderly(named, reverse, V(a), V(b), V(c), Rank[a], Rank[b], Rank[c])
    BY <1>1, <2>1, <2>2, AheadOrders, Zenon
  <2> QED
    BY <1>3, <1>5, <2>3, Zenon DEF Orderly
<1> DEFINE ahead == AheadOf(res, by, reverse)
<1>7. ahead = [t \in S |-> {u \in S : B(u, t)}]
  BY DEF AheadOf, S, B
<1> HIDE DEF ahead
<1>8. ahead \in [S -> SUBSET S] /\ \A t \in S : ahead[t] = {u \in S : B(u, t)}
  BY <1>7
<1>9. \A t \in S : t \notin ahead[t]
  BY <1>6, <1>8
<1>10. \A t \in S : \A u \in ahead[t] : ahead[u] \subseteq ahead[t]
  BY <1>6, <1>8
<1>11. \A t, u \in S : t # u => t \in ahead[u] \/ u \in ahead[t]
  BY <1>6, <1>8
<1>12. Orders(ahead, S)
  BY <1>8, <1>9, <1>10, <1>11 DEF Orders
<1> QED
  BY <1>12 DEF ahead, S

\* A table has one row for each compiler, in the order of the sort key.
Tabled(res, by, reverse, rows) ==
  /\ DOMAIN rows = 1 .. Cardinality(Titles(res))
  /\ \A i \in DOMAIN rows : rows[i].title \in Titles(res) /\ rows[i] = MergedRow(res, rows[i].title)
  /\ \A t \in Titles(res) : \E i \in DOMAIN rows : rows[i].title = t
  /\ \A i, j \in DOMAIN rows : rows[i].title = rows[j].title => i = j
  /\ \A i, j \in DOMAIN rows : i < j => Before(res, by, reverse, rows[i].title, rows[j].title)

THEOREM TableIsTabled ==
  ASSUME NEW res, Sound(res), NEW by \in SortBy, NEW reverse \in BOOLEAN
  PROVE  Tabled(res, by, reverse, RenderSingleTable(res, by, reverse))
<1> DEFINE S == Titles(res)
           ahead == AheadOf(res, by, reverse)
           N == Cardinality(S)
           titles == InOrder(S, ahead)
           rows == RenderSingleTable(res, by, reverse)
<1>1. IsFiniteSet(S) /\ N \in Nat
  BY TitlesFinite
<1>2. Orders(ahead, S)
  BY SortKeyOrders
<1>3. titles \in Bijection(1 .. N, S)
  BY <1>1, <1>2, InOrderLists
<1>4. \A m, n \in 1 .. N : m < n => titles[m] \in ahead[titles[n]]
  BY <1>1, <1>2, InOrderLists
<1>5. rows = [i \in DOMAIN titles |-> MergedRow(res, titles[i])]
  BY DEF RenderSingleTable, Titles, AheadOf
<1>6. ahead = [t \in S |-> {u \in S : Before(res, by, reverse, u, t)}]
  BY DEF AheadOf
<1>7. \A t : MergedRow(res, t).title = t
  BY DEF MergedRow
<1> HIDE DEF titles, rows, ahead, S, N
<1>8. DOMAIN titles = 1 .. N /\ (\A n \in 1 .. N : titles[n] \in S)
      /\ (\A m, n \in 1 .. N : titles[m] = titles[n] => m = n)
      /\ (\A t \in S : \E n \in 1 .. N : titles[n] = t)
  BY <1>3 DEF Bijection, Injection, Surjection, IsInjective
<1>9. DOMAIN rows = 1 .. N
  BY <1>5, <1>8
<1>10. \A i \in 1 .. N : rows[i] = MergedRow(res, titles[i]) /\ rows[i].title = titles[i]
  BY <1>5, <1>7, <1>8
<1>11. \A i, j \in 1 .. N : i < j => Before(res, by, reverse, titles[i], titles[j])
  BY <1>4, <1>6, <1>8
<1>12. \A i \in DOMAIN rows : rows[i].title \in S /\ rows[i] = MergedRow(res, rows[i].title)
  BY <1>8, <1>9, <1>10
<1>13. \A t \in S : \E i \in DOMAIN rows : rows[i].title = t
  BY <1>8, <1>9, <1>10
<1>14. \A i, j \in DOMAIN rows : rows[i].title = rows[j].title => i = j
  BY <1>8, <1>9, <1>10
<1>15. \A i, j \in DOMAIN rows : i < j => Before(res, by, reverse, rows[i].title, rows[j].title)
  BY <1>9, <1>10, <1>11
<1> QED
  BY <1>9, <1>12, <1>13, <1>14, <1>15 DEF Tabled, rows, S, N

-----------------------------------------------------------------------------
(***************************************************************************)
(* The cells of a row.                                                     *)
(***************************************************************************)
\* The plain variant stands on top, the templated one, if it says something, below.
Layered(cell, p, t, generic) ==
  /\ Len(cell) \in Nat \ {0} /\ cell[1] = p
  /\ generic /\ t # Dash => Len(cell) >= 2 /\ cell[2] = t

LEMMA StackedIs ==
  ASSUME NEW p, NEW t, NEW generic \in BOOLEAN
  PROVE  \/ Stacked(p, t, generic) = <<p>> /\ ~(generic /\ t # Dash) /\ (generic => p = Dash)
         \/ Stacked(p, t, generic) = <<p, t>> /\ generic /\ (t = Dash => p # Dash)
BY Zenon DEF Stacked

LEMMA StackedLayered ==
  ASSUME NEW p, NEW t, NEW generic \in BOOLEAN
  PROVE  Layered(Stacked(p, t, generic), p, t, generic)
<1>1. CASE Stacked(p, t, generic) = <<p>> /\ ~(generic /\ t # Dash)
  BY <1>1 DEF Layered
<1>2. CASE Stacked(p, t, generic) = <<p, t>>
  BY <1>2 DEF Layered
<1> QED
  BY <1>1, <1>2, StackedIs

LEMMA LayeredOver ==
  ASSUME NEW X, NEW cell \in Seq(X), NEW more \in Seq(X), NEW p, NEW t, NEW generic \in BOOLEAN,
         Layered(cell, p, t, generic)
  PROVE  Layered(cell \o more, p, t, generic)
<1>1. Len(cell \o more) = Len(cell) + Len(more) /\ Len(cell) \in Nat \ {0} /\ Len(more) \in Nat
  BY DEF Layered
<1>2. \A n \in 1 .. Len(cell) : (cell \o more)[n] = cell[n]
  OBVIOUS
<1>3. (cell \o more)[1] = p
  BY <1>1, <1>2 DEF Layered
<1>4. ASSUME generic /\ t # Dash PROVE Len(cell \o more) >= 2 /\ (cell \o more)[2] = t
  <2>1. Len(cell) >= 2 /\ cell[2] = t
    BY <1>4, Zenon DEF Layered
  <2> QED BY <1>1, <1>2, <2>1
<1>5. Len(cell \o more) \in Nat \ {0}
  BY <1>1
<1> QED
  BY <1>3, <1>4, <1>5, Zenon DEF Layered

\* The cells of a column, the check column included, to which the AST check is
\* appended.
LEMMA CellLayered ==
  ASSUME NEW res, NEW title, NEW c \in MetricCols
  PROVE  Layered(MergedRow(res, title).cell[c],
                 MetricLine(res, Grouped(res, title), c, FALSE),
                 MetricLine(res, Grouped(res, title), c, TRUE),
                 TRUE \in DOMAIN Grouped(res, title))
<1> DEFINE variants == Grouped(res, title)
           generic == TRUE \in DOMAIN variants
           P(col) == MetricLine(res, variants, col, FALSE)
           T(col) == MetricLine(res, variants, col, TRUE)
<1>0. generic \in BOOLEAN
  OBVIOUS
<1>1. \A col : MetricCell(res, variants, col) = Stacked(P(col), T(col), generic)
  BY DEF MetricCell
<1>2. MergedRow(res, title).cell[c] =
        IF c = "check" THEN CheckCell(res, variants, title[1]) ELSE MetricCell(res, variants, c)
  BY DEF MergedRow
<1>3. CheckCell(res, variants, title[1]) =
        MetricCell(res, variants, "check") \o
        IF "ast-check" \in LangSupport(title[1]).ops /\ MetricCell(res, variants, "ast-check") # <<Dash>>
        THEN MetricCell(res, variants, "ast-check") ELSE <<>>
  BY DEF CheckCell
<1> HIDE DEF variants, generic, P, T
<1>4. \A col : Layered(MetricCell(res, variants, col), P(col), T(col), generic)
  BY <1>0, <1>1, StackedLayered
<1> DEFINE X == {P("check"), T("check"), P("ast-check"), T("ast-check")}
<1>5. MetricCell(res, variants, "check") \in Seq(X) /\ MetricCell(res, variants, "ast-check") \in Seq(X)
  <2>1. \A p, t \in X : <<p>> \in Seq(X) /\ <<p, t>> \in Seq(X)
    OBVIOUS
  <2>2. P("check") \in X /\ T("check") \in X /\ P("ast-check") \in X /\ T("ast-check") \in X
    OBVIOUS
  <2> HIDE DEF X
  <2>3. \A p, t \in X : Stacked(p, t, generic) \in Seq(X)
    BY <2>1, Zenon DEF Stacked
  <2> QED BY <1>1, <2>2, <2>3
<1>6. <<>> \in Seq(X)
  OBVIOUS
<1> HIDE DEF X
<1>7. Layered(CheckCell(res, variants, title[1]), P("check"), T("check"), generic)
  <2>1. CASE "ast-check" \in LangSupport(title[1]).ops /\ MetricCell(res, variants, "ast-check") # <<Dash>>
    <3>1. CheckCell(res, variants, title[1]) =
            MetricCell(res, variants, "check") \o MetricCell(res, variants, "ast-check")
      BY <1>3, <2>1, Zenon
    <3> QED BY <1>0, <1>4, <1>5, <3>1, LayeredOver
  <2>2. CASE ~("ast-check" \in LangSupport(title[1]).ops /\ MetricCell(res, variants, "ast-check") # <<Dash>>)
    <3>1. CheckCell(res, variants, title[1]) = MetricCell(res, variants, "check") \o <<>>
      BY <1>3, <2>2, Zenon
    <3> QED BY <1>0, <1>4, <1>5, <1>6, <3>1, LayeredOver
  <2> QED BY <2>1, <2>2
<1>8. Layered(MergedRow(res, title).cell[c], P(c), T(c), generic)
  BY <1>2, <1>4, <1>7, Zenon
<1> QED
  BY <1>8 DEF variants, generic, P, T

LEMMA TotalLayered ==
  ASSUME NEW res, NEW title
  PROVE  Layered(MergedRow(res, title).total,
                 TotalLine(res, Grouped(res, title), FALSE),
                 TotalLine(res, Grouped(res, title), TRUE),
                 TRUE \in DOMAIN Grouped(res, title))
<1>1. MergedRow(res, title).total =
        Stacked(TotalLine(res, Grouped(res, title), FALSE), TotalLine(res, Grouped(res, title), TRUE),
                TRUE \in DOMAIN Grouped(res, title))
  BY DEF MergedRow, TotalCell
<1>2. (TRUE \in DOMAIN Grouped(res, title)) \in BOOLEAN
  OBVIOUS
<1> QED
  BY <1>1, <1>2, StackedLayered, Zenon

\* What the line of a variant shows.
LEMMA LineShows ==
  ASSUME NEW v, NEW best, NEW rel
  PROVE  Line(v, best, rel).figure = v
BY DEF Line

LEMMA DashShows == Dash.figure = NA
BY DEF Dash, Text, Line

LEMMA BestOfLine ==
  ASSUME NEW v, NEW best \in BOOLEAN, NEW rel
  PROVE  Line(v, best, rel).best <=> best
BY DEF Line

TotalFigure(row) ==
  IF row["build"] = Late THEN Late
  ELSE IF row["build"] = NA /\ row["run"] = NA THEN NA ELSE Tot(row)

LEMMA StringifyShows ==
  ASSUME NEW v, NEW m
  PROVE  StringifyMetrics(v, m).figure = v
<1>1. CASE Num(v)
  BY <1>1, LineShows DEF StringifyMetrics
<1>2. CASE ~Num(v)
  BY <1>2, LineShows DEF StringifyMetrics, Text
<1> QED BY <1>1, <1>2

LEMMA FormatTotShows ==
  ASSUME NEW row, NEW m
  PROVE  FormatTot(row, m).figure = TotalFigure(row)
<1>1. CASE row["build"] = Late
  BY <1>1, LineShows DEF FormatTot, TotalFigure, Text
<1>2. CASE row["build"] # Late /\ row["build"] = NA /\ row["run"] = NA
  BY <1>2, DashShows DEF FormatTot, TotalFigure
<1>3. CASE row["build"] # Late /\ ~(row["build"] = NA /\ row["run"] = NA)
  BY <1>3, LineShows DEF FormatTot, TotalFigure
<1> QED BY <1>1, <1>2, <1>3

LEMMA MetricLineShows ==
  ASSUME NEW res, NEW variants, NEW col, NEW b
  PROVE  /\ b \in DOMAIN variants => MetricLine(res, variants, col, b).figure = variants[b][col]
         /\ b \notin DOMAIN variants => MetricLine(res, variants, col, b) = Dash
<1>1. \A v, m : StringifyMetrics(v, m).figure = v
  BY StringifyShows
<1> QED
  BY <1>1 DEF MetricLine

LEMMA TotalLineShows ==
  ASSUME NEW res, NEW variants, NEW b
  PROVE  /\ b \in DOMAIN variants => TotalLine(res, variants, b).figure = TotalFigure(variants[b])
         /\ b \notin DOMAIN variants => TotalLine(res, variants, b) = Dash
<1>1. \A row, m : FormatTot(row, m).figure = TotalFigure(row)
  BY FormatTotShows
<1> QED
  BY <1>1 DEF TotalLine

-----------------------------------------------------------------------------
(***************************************************************************)
(* The sections, whose tiers are those already taken from TIERS.           *)
(***************************************************************************)
Rest == {<<2, 1, 3>>, <<1, 3>>, <<3>>, <<>>}
Rendered(rest) == {t \in 1 .. 3 : \A i \in DOMAIN rest : rest[i] # t}
SectionOf(t) == [tier |-> t, rows |-> RenderSingleTable(TierResults(t), sortBy, sortReverse)]

Typed == results \in Table /\ sortBy \in SortBy /\ sortReverse \in BOOLEAN /\ tiers \in Rest

SectionsOK ==
  /\ sections \in Seq({SectionOf(t) : t \in Rendered(tiers)})
  /\ Len(sections) + Len(tiers) <= 3
  /\ \A t \in Rendered(tiers) : TierKeys(t) # {} => \E s \in DOMAIN sections : sections[s].tier = t
  /\ \A s \in DOMAIN sections : TierKeys(sections[s].tier) # {}
  /\ \A s, u \in DOMAIN sections : sections[s].tier = sections[u].tier => s = u

LEMMA RestShrinks ==
  ASSUME NEW rest \in Rest, rest # <<>>
  PROVE  /\ Tail(rest) \in Rest /\ Len(Tail(rest)) + 1 = Len(rest) /\ Len(rest) \in 1 .. 3
         /\ Head(rest) \in 1 .. 3 /\ Head(rest) \notin Rendered(rest)
         /\ Rendered(Tail(rest)) = Rendered(rest) \cup {Head(rest)}
<1>1. CASE rest = <<2, 1, 3>>
  <2>1. Tail(rest) = <<1, 3>> /\ Head(rest) = 2 /\ Len(rest) = 3 /\ Len(Tail(rest)) = 2
    BY <1>1
  <2>2. Rendered(rest) = {} /\ Rendered(Tail(rest)) = {2}
    BY <1>1, <2>1 DEF Rendered
  <2> QED BY <2>1, <2>2 DEF Rest
<1>2. CASE rest = <<1, 3>>
  <2>1. Tail(rest) = <<3>> /\ Head(rest) = 1 /\ Len(rest) = 2 /\ Len(Tail(rest)) = 1
    BY <1>2
  <2>2. Rendered(rest) = {2} /\ Rendered(Tail(rest)) = {1, 2}
    BY <1>2, <2>1 DEF Rendered
  <2> QED BY <2>1, <2>2 DEF Rest
<1>3. CASE rest = <<3>>
  <2>1. Tail(rest) = <<>> /\ Head(rest) = 3 /\ Len(rest) = 1 /\ Len(Tail(rest)) = 0
    BY <1>3
  <2>2. Rendered(rest) = {1, 2} /\ Rendered(Tail(rest)) = {1, 2, 3}
    BY <1>3, <2>1 DEF Rendered
  <2> QED BY <2>1, <2>2 DEF Rest
<1> QED
  BY <1>1, <1>2, <1>3 DEF Rest

LEMMA TypedInductive ==
  /\ Init => Typed
  /\ Typed /\ [Next]_vars => Typed'
<1>1. Init => Typed
  BY DEF Init, Typed, TIERS, Rest
<1>2. ASSUME Typed, [Next]_vars PROVE Typed'
  <2>1. CASE RenderTier
    BY <1>2, <2>1, RestShrinks DEF Typed, RenderTier
  <2>2. CASE UNCHANGED vars
    BY <1>2, <2>2 DEF Typed, vars
  <2> QED BY <1>2, <2>1, <2>2 DEF Next
<1> QED BY <1>1, <1>2

LEMMA SectionsInductive ==
  /\ Init => SectionsOK
  /\ Typed /\ SectionsOK /\ [Next]_vars => SectionsOK'
<1>1. ASSUME Init PROVE SectionsOK
  <2>1. Rendered(tiers) = {} /\ Len(tiers) = 3
    BY <1>1 DEF Init, TIERS, Rendered
  <2>2. sections = <<>>
    BY <1>1 DEF Init
  <2> QED BY <2>1, <2>2 DEF SectionsOK
<1>2. ASSUME Typed, SectionsOK, [Next]_vars PROVE SectionsOK'
  <2>1. results' = results /\ sortBy' = sortBy /\ sortReverse' = sortReverse
    BY <1>2 DEF Next, RenderTier, vars
  <2>2. \A t : TierKeys(t)' = TierKeys(t) /\ SectionOf(t)' = SectionOf(t)
    BY <2>1 DEF TierKeys, TierResults, SectionOf
  <2>3. CASE UNCHANGED vars
    <3>1. tiers' = tiers /\ sections' = sections
      BY <2>3 DEF vars
    <3> QED BY <1>2, <2>2, <3>1 DEF SectionsOK
  <2>4. CASE RenderTier
    <3> DEFINE h == Head(tiers)
               D == Rendered(tiers)
    <3>1. tiers' = Tail(tiers) /\ tiers # <<>> /\ tiers \in Rest
      BY <1>2, <2>4 DEF RenderTier, Typed
    <3>2. /\ Rendered(tiers') = D \cup {h} /\ h \notin D
          /\ Len(tiers') + 1 = Len(tiers) /\ Len(tiers) \in Nat /\ Len(tiers') \in Nat
      BY <3>1, RestShrinks
    <3>3. sections' = IF TierKeys(h) = {} THEN sections ELSE Append(sections, SectionOf(h))
      <4>1. DOMAIN TierResults(h) = TierKeys(h)
        BY DEF TierResults
      <4> QED BY <2>4, <4>1 DEF RenderTier, SectionOf
    <3>4. \A t : SectionOf(t).tier = t
      BY DEF SectionOf
    <3> DEFINE S == {SectionOf(t) : t \in D}
               T == {SectionOf(t) : t \in D \cup {h}}
    <3>5. sections \in Seq(S) /\ sections \in Seq(T) /\ SectionOf(h) \in T
      BY <1>2 DEF SectionsOK
    <3>6. {SectionOf(t)' : t \in Rendered(tiers')} = T
      BY <2>2, <3>2
    <3>7. \A s \in DOMAIN sections : sections[s].tier \in D
      BY <3>4, <3>5
    <3>8. /\ Len(sections) + Len(tiers) <= 3
          /\ \A t \in D : TierKeys(t) # {} => \E s \in DOMAIN sections : sections[s].tier = t
          /\ \A s \in DOMAIN sections : TierKeys(sections[s].tier) # {}
          /\ \A s, u \in DOMAIN sections : sections[s].tier = sections[u].tier => s = u
      BY <1>2 DEF SectionsOK
    <3>9. Len(sections) \in Nat /\ DOMAIN sections = 1 .. Len(sections)
      BY <3>5
    <3> HIDE DEF h, D, S, T
    <3>10. CASE TierKeys(h) = {}
      <4>1. sections' = sections
        BY <3>3, <3>10
      <4>2. sections' \in Seq(T)
        BY <3>5, <4>1
      <4>3. Len(sections') + Len(tiers') <= 3
        BY <3>2, <3>8, <3>9, <4>1
      <4>4. \A t \in D \cup {h} : TierKeys(t) # {} => \E s \in DOMAIN sections' : sections'[s].tier = t
        BY <3>8, <3>10, <4>1
      <4>5. \A s, u \in DOMAIN sections' : sections'[s].tier = sections'[u].tier => s = u
        BY <3>8, <4>1
      <4>6. \A s \in DOMAIN sections' : TierKeys(sections'[s].tier) # {}
        BY <3>8, <4>1
      <4> QED BY <2>2, <3>2, <3>6, <4>2, <4>3, <4>4, <4>5, <4>6 DEF SectionsOK
    <3>11. CASE TierKeys(h) # {}
      <4> DEFINE n == Len(sections) + 1
      <4>1. sections' = Append(sections, SectionOf(h))
        BY <3>3, <3>11
      <4>2. sections' \in Seq(T) /\ Len(sections') = n
        BY <3>5, <4>1
      <4>3. /\ DOMAIN sections' = 1 .. n /\ n \in Nat
            /\ \A s \in DOMAIN sections : s \in DOMAIN sections' /\ sections'[s] = sections[s]
            /\ sections'[n] = SectionOf(h) /\ n \in DOMAIN sections'
            /\ \A s \in DOMAIN sections' : s \in DOMAIN sections \/ s = n
        BY <3>5, <3>9, <4>1
      <4> HIDE DEF n
      <4>4. Len(sections') + Len(tiers') <= 3
        BY <3>2, <3>8, <3>9, <4>2 DEF n
      <4>5. \A t \in D \cup {h} : TierKeys(t) # {} => \E s \in DOMAIN sections' : sections'[s].tier = t
        BY <3>4, <3>8, <4>3
      <4>6. \A s, u \in DOMAIN sections' : sections'[s].tier = sections'[u].tier => s = u
        BY <3>2, <3>4, <3>7, <3>8, <4>3
      <4>7. \A s \in DOMAIN sections' : TierKeys(sections'[s].tier) # {}
        BY <3>4, <3>8, <3>11, <4>3
      <4> QED BY <2>2, <3>2, <3>6, <4>2, <4>4, <4>5, <4>6, <4>7 DEF SectionsOK
    <3> QED BY <3>10, <3>11
  <2> QED BY <1>2, <2>3, <2>4 DEF Next
<1> QED BY <1>1, <1>2

\* In every state there is one section for each tier done that has rows, and it is
\* the table of these rows (markdown_table).
THEOREM SectionsInvariant == Spec => [](Typed /\ SectionsOK)
BY TypedInductive, SectionsInductive, PTL DEF Spec

-----------------------------------------------------------------------------
(***************************************************************************)
(* Every figure is shown.                                                  *)
(***************************************************************************)
LEMMA TierOfKey ==
  ASSUME Sound(results), NEW k \in DOMAIN results
  PROVE  GetSemanticTier(k.lang, k.exe) \in 1 .. 3
<1>1. PICK i \in LangIx : Registry[i].name = k.lang
  BY DEF Sound, Key
<1>2. PICK j \in LangIx : LangSupport(k.lang) = Registry[j]
  BY <1>1 DEF LangSupport
<1> QED
  BY <1>2, ReportingAssumption DEF GetSemanticTier

\* The row of a key shows its figures where a reader looks for them.
LEMMA RowShowsFigures ==
  ASSUME NEW res, Sound(res), NEW k \in DOMAIN res, NEW row,
         row = MergedRow(res, <<k.lang, k.exe>>)
  PROVE  /\ \A c \in MetricCols : res[k][c] # NA => Entry(row.cell[c], k.templated).figure = res[k][c]
         /\ Num(res[k]["build"]) => Entry(row.total, k.templated).figure = Tot(res[k])
<1> DEFINE variants == Grouped(res, <<k.lang, k.exe>>)
           generic == TRUE \in DOMAIN variants
<1>1. k.templated \in BOOLEAN
  BY DEF Sound, Key
<1>2. k.templated \in DOMAIN variants /\ variants[k.templated] = res[k]
  BY VariantOfRow
<1> HIDE DEF variants
<1>3. ASSUME NEW cell, NEW p, NEW t, NEW v, v # NA, Layered(cell, p, t, generic),
             k.templated = FALSE => p.figure = v,
             k.templated = TRUE => t.figure = v
      PROVE  Entry(cell, k.templated).figure = v
  <2>1. CASE k.templated = FALSE
    BY <1>3, <2>1 DEF Entry, Layered
  <2>2. CASE k.templated = TRUE
    <3>1. t # Dash
      BY <1>3, <2>2, DashShows
    <3>2. generic
      BY <1>2, <2>2
    <3>3. cell[2] = t
      BY <1>3, <3>1, <3>2, Zenon DEF Layered
    <3> QED BY <1>3, <2>2, <3>3 DEF Entry
  <2> QED BY <1>1, <2>1, <2>2
<1>4. ASSUME NEW c \in MetricCols, res[k][c] # NA
      PROVE  Entry(row.cell[c], k.templated).figure = res[k][c]
  <2> DEFINE p == MetricLine(res, variants, c, FALSE)
             t == MetricLine(res, variants, c, TRUE)
  <2>1. Layered(row.cell[c], p, t, generic)
    BY CellLayered DEF variants
  <2>2. MetricLine(res, variants, c, k.templated).figure = res[k][c]
    BY <1>2, MetricLineShows
  <2>3. (k.templated = FALSE => p.figure = res[k][c]) /\ (k.templated = TRUE => t.figure = res[k][c])
    BY <2>2
  <2> QED BY <1>3, <1>4, <2>1, <2>3
<1>5. ASSUME Num(res[k]["build"]) PROVE Entry(row.total, k.templated).figure = Tot(res[k])
  <2> DEFINE p == TotalLine(res, variants, FALSE)
             t == TotalLine(res, variants, TRUE)
  <2>1. Layered(row.total, p, t, generic)
    BY TotalLayered DEF variants
  <2>2. res[k]["build"] \in Value /\ res[k]["run"] \in Value
    BY DEF Sound, RawCol
  <2>3. Tot(res[k]) # NA
    BY <2>2, TotInRange, Figure
  <2>4. res[k]["build"] # Late /\ res[k]["build"] # NA
    BY <1>5 DEF Num
  <2>5. TotalLine(res, variants, k.templated).figure = Tot(res[k])
    BY <1>2, <2>4, TotalLineShows DEF TotalFigure
  <2>6. (k.templated = FALSE => p.figure = Tot(res[k])) /\ (k.templated = TRUE => t.figure = Tot(res[k]))
    BY <2>5
  <2> QED BY <1>3, <2>1, <2>3, <2>6
<1> QED
  BY <1>4, <1>5

\* The table of a tier has the title of each of its keys, in one row.
LEMMA TierTabled ==
  ASSUME Typed, NEW t
  PROVE  /\ Sound(results) /\ Sound(TierResults(t))
         /\ DOMAIN TierResults(t) = TierKeys(t) /\ \A k \in TierKeys(t) : TierResults(t)[k] = results[k]
         /\ Tabled(TierResults(t), sortBy, sortReverse, SectionOf(t).rows)
<1>1. Sound(results)
  BY TableSound DEF Typed
<1>2. Sound(TierResults(t))
  BY <1>1, TierSound
<1>3. SectionOf(t).rows = RenderSingleTable(TierResults(t), sortBy, sortReverse)
  BY DEF SectionOf
<1>4. Tabled(TierResults(t), sortBy, sortReverse, SectionOf(t).rows)
  BY <1>2, <1>3, TableIsTabled DEF Typed
<1>5. DOMAIN TierResults(t) = TierKeys(t) /\ \A k \in TierKeys(t) : TierResults(t)[k] = results[k]
  BY DEF TierResults
<1> QED
  BY <1>1, <1>2, <1>4, <1>5, Zenon

LEMMA SectionsDone ==
  ASSUME Typed, SectionsOK, Shown
  PROVE  /\ \A s \in DOMAIN sections : s \in 1 .. 3 /\ sections[s].tier \in 1 .. 3
                                       /\ sections[s] = SectionOf(sections[s].tier)
         /\ \A t \in 1 .. 3 : TierKeys(t) # {} => \E s \in DOMAIN sections : sections[s].tier = t
<1>1. Rendered(tiers) = 1 .. 3 /\ Len(tiers) = 0
  BY DEF Shown, Rendered
<1>2. sections \in Seq({SectionOf(t) : t \in 1 .. 3})
  BY <1>1 DEF SectionsOK
<1>3. Len(sections) <= 3 /\ Len(sections) \in Nat /\ DOMAIN sections = 1 .. Len(sections)
  BY <1>1, <1>2 DEF SectionsOK
<1>4. \A s \in DOMAIN sections : \E t \in 1 .. 3 : sections[s] = SectionOf(t)
  BY <1>2
<1>5. \A t : SectionOf(t).tier = t
  BY DEF SectionOf
<1>6. \A s \in DOMAIN sections : s \in 1 .. 3
  BY <1>3
<1>7. \A t \in 1 .. 3 : TierKeys(t) # {} => \E s \in DOMAIN sections : sections[s].tier = t
  BY <1>1 DEF SectionsOK
<1>8. \A s \in DOMAIN sections : sections[s].tier \in 1 .. 3 /\ sections[s] = SectionOf(sections[s].tier)
  BY <1>4, <1>5
<1> QED
  BY <1>6, <1>7, <1>8

LEMMA TierOfTitle ==
  ASSUME NEW t, NEW title \in Titles(TierResults(t))
  PROVE  GetSemanticTier(title[1], title[2]) = t
<1>1. PICK k \in DOMAIN TierResults(t) : title = <<k.lang, k.exe>>
  BY DEF Titles
<1>2. GetSemanticTier(k.lang, k.exe) = t
  BY DEF TierResults, TierKeys
<1> QED
  BY <1>1, <1>2

\* The compilers' rows are in the section of their tier, once, with all figures in
\* their places.
THEOREM EveryFigureShownTheorem == Spec => []EveryFigureShown
<1>1. ASSUME Typed, SectionsOK PROVE EveryFigureShown
  <2> SUFFICES ASSUME Shown, NEW k \in DOMAIN results
               PROVE  /\ Cardinality({at \in RowPlaces : /\ at[1] \in DOMAIN sections
                                        /\ at[2] \in DOMAIN sections[at[1]].rows
                                        /\ sections[at[1]].rows[at[2]].title = <<k.lang, k.exe>>}) = 1
                      /\ \E s \in DOMAIN sections :
                           /\ sections[s].tier = GetSemanticTier(k.lang, k.exe)
                           /\ \E row \in ToSet(sections[s].rows) :
                                /\ row.title = <<k.lang, k.exe>>
                                /\ \A c \in MetricCols : results[k][c] # NA =>
                                     Entry(row.cell[c], k.templated).figure = results[k][c]
                                /\ Num(results[k]["build"]) =>
                                     Entry(row.total, k.templated).figure = Tot(results[k])
    BY DEF EveryFigureShown
  <2> DEFINE title == <<k.lang, k.exe>>
             t == GetSemanticTier(k.lang, k.exe)
             res == TierResults(t)
  <2>1. Sound(results) /\ Sound(res) /\ DOMAIN res = TierKeys(t) /\ res[k] = results[k] /\ k \in DOMAIN res
    <3>1. k \in TierKeys(t)
      BY DEF TierKeys
    <3> QED BY <1>1, <3>1, TierTabled
  <2>2. t \in 1 .. 3 /\ TierKeys(t) # {}
    BY <2>1, TierOfKey
  <2>3. PICK s \in DOMAIN sections : sections[s].tier = t
    BY <1>1, <2>2, SectionsDone
  <2>4. s \in 1 .. 3 /\ sections[s] = SectionOf(t)
    BY <1>1, <2>3, SectionsDone
  <2>5. Tabled(res, sortBy, sortReverse, sections[s].rows)
    BY <1>1, <2>4, TierTabled
  <2>6. title \in Titles(res)
    BY <2>1 DEF Titles
  <2>7. PICK i \in DOMAIN sections[s].rows : sections[s].rows[i].title = title
    BY <2>5, <2>6 DEF Tabled
  <2>8. sections[s].rows[i] = MergedRow(res, title)
    BY <2>5, <2>7 DEF Tabled
  <2>9. /\ \A c \in MetricCols : results[k][c] # NA =>
             Entry(sections[s].rows[i].cell[c], k.templated).figure = results[k][c]
        /\ Num(results[k]["build"]) => Entry(sections[s].rows[i].total, k.templated).figure = Tot(results[k])
    BY <2>1, <2>8, RowShowsFigures
  <2>10. sections[s].rows[i] \in ToSet(sections[s].rows)
    BY <2>7 DEF ToSet
  <2>11. i \in 1 .. Cardinality(DOMAIN results)
    <3>1. /\ Cardinality(Titles(res)) <= Cardinality(DOMAIN res)
          /\ Cardinality(Titles(res)) \in Nat
      BY <2>1, TitlesFinite
    <3>2. TierKeys(t) \in SUBSET DOMAIN results /\ IsFiniteSet(DOMAIN results)
      BY <2>1 DEF TierKeys, Sound
    <3>3. Cardinality(TierKeys(t)) <= Cardinality(DOMAIN results)
      BY <3>2, FS_Subset
    <3>4. Cardinality(TierKeys(t)) \in Nat /\ Cardinality(DOMAIN results) \in Nat
      BY <3>2, FS_Subset, FS_CardinalityType
    <3>5. i \in 1 .. Cardinality(Titles(res))
      BY <2>5, <2>7 DEF Tabled
    <3> HIDE DEF res
    <3> QED BY <2>1, <3>1, <3>3, <3>4, <3>5
  <2> DEFINE At(at) == /\ at[1] \in DOMAIN sections
                       /\ at[2] \in DOMAIN sections[at[1]].rows
                       /\ sections[at[1]].rows[at[2]].title = <<k.lang, k.exe>>
  <2>12. <<s, i>> \in RowPlaces /\ At(<<s, i>>)
    BY <2>4, <2>7, <2>11 DEF RowPlaces, TIERS
  <2>13. ASSUME NEW at \in RowPlaces, At(at) PROVE at = <<s, i>>
    <3>1. sections[at[1]] = SectionOf(sections[at[1]].tier)
      BY <1>1, <2>13, SectionsDone
    <3>2. Tabled(TierResults(sections[at[1]].tier), sortBy, sortReverse, sections[at[1]].rows)
      BY <1>1, <3>1, TierTabled
    <3>3. title \in Titles(TierResults(sections[at[1]].tier))
      BY <2>13, <3>2 DEF Tabled
    <3>4. sections[at[1]].tier = GetSemanticTier(title[1], title[2])
      BY <3>3, TierOfTitle
    <3>5. at[1] = s
      BY <1>1, <2>3, <2>13, <3>4 DEF SectionsOK
    <3>6. at[2] \in DOMAIN sections[s].rows /\ sections[s].rows[at[2]].title = title
      BY <2>13, <3>5
    <3>7. \A m, n \in DOMAIN sections[s].rows :
            sections[s].rows[m].title = sections[s].rows[n].title => m = n
      BY <2>5, Zenon DEF Tabled
    <3>8. at[2] = i
      BY <2>7, <3>6, <3>7
    <3> QED BY <3>5, <3>8 DEF RowPlaces
  <2>14. {at \in RowPlaces : At(at)} = {<<s, i>>}
    <3> HIDE DEF At
    <3> QED BY <2>12, <2>13
  <2>15. Cardinality({at \in RowPlaces : At(at)}) = 1
    BY <2>14, FS_Singleton
  <2> QED BY <2>3, <2>7, <2>9, <2>10, <2>15
<1> QED
  BY <1>1, SectionsInvariant, PTL

-----------------------------------------------------------------------------
(***************************************************************************)
(* The order of the rows is that of the figures shown.                     *)
(***************************************************************************)
\* What one can sort by: the figure, unless it is none.
Sortable(v) == IF v = Missing THEN NA ELSE v

LEMMA FirstLineOfOne ==
  ASSUME NEW p
  PROVE  FirstShown(<<p>>) = Sortable(p.figure)
<1> DEFINE said == {n \in DOMAIN <<p>> : <<p>>[n].figure \notin {NA, Missing}}
<1>1. FirstShown(<<p>>) = IF said = {} THEN NA ELSE <<p>>[Min(said)].figure
  BY DEF FirstShown
<1>2. DOMAIN <<p>> = {1} /\ <<p>>[1] = p
  OBVIOUS
<1>3. CASE p.figure \in {NA, Missing}
  <2>1. said = {}
    BY <1>2, <1>3
  <2> QED BY <1>1, <1>3, <2>1 DEF Sortable
<1>4. CASE p.figure \notin {NA, Missing}
  <2>1. said = {1}
    BY <1>2, <1>4
  <2>2. Min({1}) = 1
    BY MinIsLeast
  <2> QED BY <1>1, <1>2, <1>4, <2>1, <2>2 DEF Sortable
<1> QED BY <1>3, <1>4

LEMMA FirstLineOfTwo ==
  ASSUME NEW p, NEW t
  PROVE  FirstShown(<<p, t>>) = PlainFirst(Sortable(p.figure), Sortable(t.figure))
<1> DEFINE cell == <<p, t>>
           said == {n \in DOMAIN cell : cell[n].figure \notin {NA, Missing}}
<1>1. FirstShown(cell) = IF said = {} THEN NA ELSE cell[Min(said)].figure
  BY DEF FirstShown
<1>2. DOMAIN cell = {1, 2} /\ cell[1] = p /\ cell[2] = t
  OBVIOUS
<1> HIDE DEF cell
<1>3. CASE p.figure \notin {NA, Missing}
  <2>1. 1 \in said /\ said \subseteq {1, 2}
    BY <1>2, <1>3
  <2> HIDE DEF said
  <2>2. said # {} /\ said \subseteq Nat
    BY <2>1
  <2>3. Min(said) \in said /\ Min(said) <= 1
    BY <2>1, <2>2, MinIsLeast
  <2>4. Min(said) = 1
    <3>1. Min(said) \in {1, 2}
      BY <2>1, <2>3
    <3> HIDE DEF Min
    <3> QED BY <2>3, <3>1
  <2> QED BY <1>1, <1>2, <1>3, <2>2, <2>4 DEF PlainFirst, Sortable, cell
<1>4. CASE p.figure \in {NA, Missing} /\ t.figure \notin {NA, Missing}
  <2>1. said = {2}
    BY <1>2, <1>4
  <2>2. Min({2}) = 2
    BY MinIsLeast
  <2>3. FirstShown(cell) = t.figure
    BY <1>1, <1>2, <2>1, <2>2
  <2> QED BY <1>4, <2>3 DEF PlainFirst, Sortable, cell
<1>5. CASE p.figure \in {NA, Missing} /\ t.figure \in {NA, Missing}
  <2>1. said = {}
    BY <1>2, <1>5
  <2>2. FirstShown(cell) = NA
    BY <1>1, <2>1
  <2> QED BY <1>5, <2>2 DEF PlainFirst, Sortable, cell
<1> QED BY <1>3, <1>4, <1>5

\* Whether stacked or alone, the plain line decides unless it says nothing.
LEMMA FirstLineOfStacked ==
  ASSUME NEW p, NEW t, NEW generic \in BOOLEAN, ~generic => t = Dash
  PROVE  FirstShown(Stacked(p, t, generic)) = PlainFirst(Sortable(p.figure), Sortable(t.figure))
<1>1. CASE Stacked(p, t, generic) = <<p>> /\ ~(generic /\ t # Dash)
  <2>1. t = Dash
    BY <1>1
  <2>2. Sortable(t.figure) = NA
    BY <2>1, DashShows, Figure DEF Sortable
  <2>3. FirstShown(Stacked(p, t, generic)) = Sortable(p.figure)
    BY <1>1, FirstLineOfOne
  <2> QED BY <2>2, <2>3 DEF PlainFirst
<1>2. CASE Stacked(p, t, generic) = <<p, t>>
  BY <1>2, FirstLineOfTwo
<1> QED BY <1>1, <1>2, StackedIs

\* The figure of a column is the key a row is sorted by.
LEMMA MetricCellMatches ==
  ASSUME NEW res, Sound(res), NEW title, NEW c \in MetricCols \ {"check"}
  PROVE  FirstShown(MergedRow(res, title).cell[c]) = ExtractMetric(Grouped(res, title), c)
<1> DEFINE variants == Grouped(res, title)
           generic == TRUE \in DOMAIN variants
           p == MetricLine(res, variants, c, FALSE)
           t == MetricLine(res, variants, c, TRUE)
<1>1. MergedRow(res, title).cell[c] = Stacked(p, t, generic)
  BY DEF MergedRow, MetricCell
<1>2. generic \in BOOLEAN
  OBVIOUS
<1>3. \A b : Sortable(MetricLine(res, variants, c, b).figure) = MetricValue(variants, c, b)
  <2> SUFFICES ASSUME NEW b
               PROVE  Sortable(MetricLine(res, variants, c, b).figure) = MetricValue(variants, c, b)
    OBVIOUS
  <2> HIDE DEF variants
  <2>1. CASE b \in DOMAIN variants
    <3>1. MetricLine(res, variants, c, b).figure = variants[b][c]
      BY <2>1, MetricLineShows
    <3> QED BY <2>1, <3>1 DEF Sortable, MetricValue
  <2>2. CASE b \notin DOMAIN variants
    <3>1. MetricLine(res, variants, c, b).figure = NA
      BY <2>2, MetricLineShows, DashShows
    <3> QED BY <2>2, <3>1, Figure DEF Sortable, MetricValue
  <2> QED BY <2>1, <2>2
<1>4. ~generic => t = Dash
  BY MetricLineShows
<1> HIDE DEF variants, generic, p, t
<1>5. FirstShown(MergedRow(res, title).cell[c]) = PlainFirst(Sortable(p.figure), Sortable(t.figure))
  BY <1>1, <1>2, <1>4, FirstLineOfStacked
<1>6. Sortable(p.figure) = MetricValue(variants, c, FALSE) /\ Sortable(t.figure) = MetricValue(variants, c, TRUE)
  BY <1>3 DEF p, t
<1> QED
  BY <1>5, <1>6 DEF ExtractMetric, variants

\* So is the total, but for a compiler whose `run` timed out.
LEMMA TotalCellMatches ==
  ASSUME NEW res, Sound(res), NEW title,
         \A b \in DOMAIN Grouped(res, title) : Grouped(res, title)[b]["run"] # Late
  PROVE  FirstShown(MergedRow(res, title).total) = ExtractTotal(Grouped(res, title))
<1> DEFINE variants == Grouped(res, title)
           generic == TRUE \in DOMAIN variants
           p == TotalLine(res, variants, FALSE)
           t == TotalLine(res, variants, TRUE)
<1>1. MergedRow(res, title).total = Stacked(p, t, generic)
  BY DEF MergedRow, TotalCell
<1>2. generic \in BOOLEAN
  OBVIOUS
<1>3. \A b : Sortable(TotalLine(res, variants, b).figure) = TotalValue(variants, b)
  <2> SUFFICES ASSUME NEW b
               PROVE  Sortable(TotalLine(res, variants, b).figure) = TotalValue(variants, b)
    OBVIOUS
  <2>0. b \in DOMAIN variants =>
          /\ variants[b]["build"] \in Value /\ variants[b]["run"] \in Value
          /\ variants[b]["build"] # Missing /\ variants[b]["run"] # Missing
          /\ variants[b]["run"] # Late
    <3> SUFFICES ASSUME b \in DOMAIN variants
                 PROVE  /\ variants[b]["build"] \in Value /\ variants[b]["run"] \in Value
                        /\ variants[b]["build"] # Missing /\ variants[b]["run"] # Missing
                        /\ variants[b]["run"] # Late
      OBVIOUS
    <3>1. \A c \in RawCol : variants[b][c] \in Value
      BY GroupedTyped
    <3>2. variants[b]["build"] # Missing /\ variants[b]["run"] # Missing
      BY VariantNotMissing
    <3> HIDE DEF variants
    <3>3. "build" \in RawCol /\ "run" \in RawCol
      BY DEF RawCol
    <3>4. variants[b]["run"] # Late
      BY DEF variants
    <3> QED BY <3>1, <3>2, <3>3, <3>4
  <2> HIDE DEF variants
  <2>1. CASE b \in DOMAIN variants
    <3> DEFINE row == variants[b]
    <3>1. TotalLine(res, variants, b).figure = TotalFigure(row)
      BY <2>1, TotalLineShows
    <3>2. TotalValue(variants, b) =
            IF Late \in {row["build"], row["run"]} THEN Late
            ELSE IF Num(row["build"]) \/ Num(row["run"]) THEN Tot(row) ELSE NA
      BY <2>1 DEF TotalValue
    <3>3. /\ row["build"] \in Value /\ row["run"] \in Value
          /\ row["build"] # Missing /\ row["run"] # Missing /\ row["run"] # Late
      BY <2>0, <2>1
    <3> HIDE DEF row
    <3>4. Tot(row) # Missing
      BY <3>3, TotInRange, Figure
    <3>5. CASE row["build"] = Late
      BY <3>1, <3>2, <3>5, Figure DEF Sortable, TotalFigure
    <3>6. CASE row["build"] # Late /\ row["build"] = NA /\ row["run"] = NA
      BY <3>1, <3>2, <3>3, <3>6, Figure DEF Sortable, TotalFigure
    <3>7. CASE row["build"] # Late /\ ~(row["build"] = NA /\ row["run"] = NA)
      <4>1. Num(row["build"]) \/ Num(row["run"])
        BY <3>3, <3>7 DEF Num
      <4> QED BY <3>1, <3>2, <3>3, <3>4, <3>7, <4>1 DEF Sortable, TotalFigure
    <3> QED BY <3>5, <3>6, <3>7
  <2>2. CASE b \notin DOMAIN variants
    <3>1. TotalLine(res, variants, b).figure = NA
      BY <2>2, TotalLineShows, DashShows
    <3> QED BY <2>2, <3>1, Figure DEF Sortable, TotalValue
  <2> QED BY <2>1, <2>2
<1>4. ~generic => t = Dash
  BY TotalLineShows
<1> HIDE DEF variants, generic, p, t
<1>5. FirstShown(MergedRow(res, title).total) = PlainFirst(Sortable(p.figure), Sortable(t.figure))
  BY <1>1, <1>2, <1>4, FirstLineOfStacked
<1>6. Sortable(p.figure) = TotalValue(variants, FALSE) /\ Sortable(t.figure) = TotalValue(variants, TRUE)
  BY <1>3 DEF p, t
<1> QED
  BY <1>5, <1>6 DEF ExtractTotal, variants

LEMMA FigureMatches ==
  ASSUME Typed, NEW t, NEW title \in Titles(TierResults(t)),
         sortBy \in {"total", "size", "build-rss"}, ~RunLate(title)
  PROVE  FigureSortedBy(MergedRow(TierResults(t), title)) = SortVal(TierResults(t), sortBy, title)
<1> DEFINE res == TierResults(t)
<1>1. Sound(res) /\ DOMAIN res = TierKeys(t) /\ \A k \in TierKeys(t) : res[k] = results[k]
  BY TierTabled
<1>2. CASE sortBy = "total"
  <2>1. ASSUME NEW b \in DOMAIN Grouped(res, title)
        PROVE  Grouped(res, title)[b]["run"] # Late
    <3> DEFINE k == KeyOf(title, b)
    <3>1. k \in DOMAIN res /\ Grouped(res, title)[b] = res[k]
      BY DEF Grouped
    <3>2. k \in DOMAIN results /\ res[k] = results[k]
      BY <1>1, <3>1 DEF TierKeys
    <3>3. <<k.lang, k.exe>> = title
      <4>1. PICK l : title = <<l.lang, l.exe>>
        BY DEF Titles
      <4> QED BY <4>1 DEF KeyOf
    <3> HIDE DEF k
    <3> QED BY <3>1, <3>2, <3>3 DEF RunLate
  <2>2. FirstShown(MergedRow(res, title).total) = ExtractTotal(Grouped(res, title))
    BY <1>1, <2>1, TotalCellMatches
  <2> QED BY <1>2, <2>2 DEF FigureSortedBy, SortVal
<1>3. CASE sortBy = "size"
  <2>1. "output-size" \in MetricCols \ {"check"}
    BY DEF MetricCols
  <2>2. FirstShown(MergedRow(res, title).cell["output-size"]) = ExtractMetric(Grouped(res, title), "output-size")
    BY <1>1, <2>1, MetricCellMatches
  <2> QED BY <1>3, <2>2 DEF FigureSortedBy, SortVal
<1>4. CASE sortBy = "build-rss"
  <2>1. "build-rss" \in MetricCols \ {"check"}
    BY DEF MetricCols
  <2>2. FirstShown(MergedRow(res, title).cell["build-rss"]) = ExtractMetric(Grouped(res, title), "build-rss")
    BY <1>1, <2>1, MetricCellMatches
  <2> QED BY <1>4, <2>2 DEF FigureSortedBy, SortVal
<1> QED
  BY <1>2, <1>3, <1>4

\* The rows stand in the order of the figures they show, though the sort key is
\* computed from the results and the cells are not (_extract_total and format_tot,
\* _extract_metric and format_col), for all results and in both directions.
THEOREM OrderMatchesShownTheorem == Spec => []OrderMatchesShown
<1>1. ASSUME Typed, SectionsOK PROVE OrderMatchesShown
  <2> SUFFICES ASSUME Shown, sortBy \in {"total", "size", "build-rss"},
                      NEW s \in DOMAIN sections,
                      NEW i \in DOMAIN sections[s].rows, NEW j \in DOMAIN sections[s].rows, i < j,
                      ~RunLate(sections[s].rows[i].title), ~RunLate(sections[s].rows[j].title)
               PROVE  \/ FigureSortedBy(sections[s].rows[j]) = NA
                      \/ /\ FigureSortedBy(sections[s].rows[i]) # NA
                         /\ IF sortReverse
                            THEN FigureSortedBy(sections[s].rows[i]) >= FigureSortedBy(sections[s].rows[j])
                            ELSE FigureSortedBy(sections[s].rows[i]) <= FigureSortedBy(sections[s].rows[j])
    BY DEF OrderMatchesShown
  <2> DEFINE t == sections[s].tier
             res == TierResults(t)
             rows == sections[s].rows
             a == rows[i].title
             b == rows[j].title
             v == SortVal(res, sortBy, a)
             w == SortVal(res, sortBy, b)
  <2>1. sections[s] = SectionOf(t)
    BY <1>1, SectionsDone
  <2>2. Sound(res) /\ Tabled(res, sortBy, sortReverse, rows)
    BY <1>1, <2>1, TierTabled
  <2> HIDE DEF rows, res
  <2>3. /\ a \in Titles(res) /\ b \in Titles(res)
        /\ rows[i] = MergedRow(res, a) /\ rows[j] = MergedRow(res, b)
        /\ Before(res, sortBy, sortReverse, a, b)
    BY <2>2 DEF Tabled, rows
  <2>4. FigureSortedBy(rows[i]) = v /\ FigureSortedBy(rows[j]) = w
    <3>1. ~RunLate(a) /\ ~RunLate(b)
      BY DEF rows
    <3> HIDE DEF a, b
    <3>2. FigureSortedBy(MergedRow(res, a)) = v
      BY <1>1, <2>3, <3>1, FigureMatches DEF res
    <3>3. FigureSortedBy(MergedRow(res, b)) = w
      BY <1>1, <2>3, <3>1, FigureMatches DEF res
    <3> QED BY <2>3, <3>2, <3>3
  <2>5. v \in Nat \cup {NA} /\ w \in Nat \cup {NA}
    BY <1>1, <2>2, SortValTyped DEF Typed
  <2>6. Rank[a] \in Nat /\ Rank[b] \in Nat
    BY <2>2, <2>3, RankOfTitle
  <2>7. Ahead(FALSE, sortReverse, v, w, Rank[a], Rank[b])
    <3>1. (sortBy \in {"name", "lang"}) = FALSE
      OBVIOUS
    <3> QED BY <2>3, <3>1, BeforeIsAhead
  <2>8. sortReverse \in BOOLEAN
    BY <1>1 DEF Typed
  <2> HIDE DEF v, w, a, b
  <2>9. \/ w = NA
        \/ v # NA /\ IF sortReverse THEN v >= w ELSE v <= w
    <3>1. CASE sortReverse = TRUE
      BY <2>5, <2>6, <2>7, <3>1 DEF Ahead, NA
    <3>2. CASE sortReverse = FALSE
      BY <2>5, <2>6, <2>7, <3>2 DEF Ahead, NA
    <3> QED BY <2>8, <3>1, <3>2
  <2> QED
    BY <2>4, <2>9, Zenon DEF rows
<1> QED
  BY <1>1, SectionsInvariant, PTL

-----------------------------------------------------------------------------
(***************************************************************************)
(* The highlighted figures are the least.                                  *)
(***************************************************************************)
\* If what is highlighted is what equals the least figure, no other is less.
LEMMA LeastIsBest ==
  ASSUME NEW K, NEW line, NEW m,
         \A k \in K : line[k].figure \in Nat,
         \A k \in K : line[k].best <=> line[k].figure = m,
         m = Least({line[k].figure : k \in K})
  PROVE  BestIsLeast({line[k] : k \in K})
<1> DEFINE S == {line[k].figure : k \in K}
<1>1. CASE K = {}
  BY <1>1 DEF BestIsLeast
<1>2. CASE K # {}
  <2>1. S # {} /\ S \subseteq Nat
    BY <1>2
  <2>2. m \in S /\ \A v \in S : m <= v
    BY <2>1, MinIsLeast DEF Least
  <2>3. PICK l \in K : line[l].figure = m
    BY <2>2
  <2>4. \A k \in K : line[k].figure \in Nat /\ m <= line[k].figure /\ m \in Nat
    BY <2>1, <2>2
  <2> HIDE DEF S
  <2>5. ASSUME NEW k \in K
        PROVE  line[k].figure = m <=> \A j \in K : line[k].figure <= line[j].figure
    BY <2>3, <2>4
  <2>6. \A k \in K : line[k].best <=> \A j \in K : line[k].figure <= line[j].figure
    BY <2>5, Zenon
  <2>7. ASSUME NEW f \in {line[k] : k \in K}
        PROVE  f.best <=> \A g \in {line[k] : k \in K} : f.figure <= g.figure
    <3>1. PICK k \in K : f = line[k]
      OBVIOUS
    <3>2. (\A g \in {line[j] : j \in K} : f.figure <= g.figure) <=> \A j \in K : line[k].figure <= line[j].figure
      BY <3>1
    <3>3. f.best <=> line[k].best
      BY <3>1
    <3> QED BY <2>6, <3>2, <3>3, Zenon
  <2> QED
    BY <2>7, Zenon DEF BestIsLeast
<1> QED BY <1>1, <1>2

\* Where the line of a variant stands, if it is there at all.
LineAt(b) == IF b THEN 2 ELSE 1
StandsAt(cell, b, there, line) ==
  /\ Len(cell) >= LineAt(b) => cell[LineAt(b)] = IF there THEN line ELSE Dash
  /\ there /\ line # Dash => Len(cell) >= LineAt(b)

LEMMA StandsInStacked ==
  ASSUME NEW p, NEW t, NEW plain \in BOOLEAN, NEW generic \in BOOLEAN,
         ~plain => p = Dash, ~generic => t = Dash
  PROVE  /\ StandsAt(Stacked(p, t, generic), FALSE, plain, p)
         /\ StandsAt(Stacked(p, t, generic), TRUE, generic, t)
<1>0. LineAt(FALSE) = 1 /\ LineAt(TRUE) = 2
  BY DEF LineAt
<1>1. CASE Stacked(p, t, generic) = <<p>> /\ ~(generic /\ t # Dash)
  <2>1. Len(<<p>>) = 1 /\ <<p>>[1] = p
    OBVIOUS
  <2>2. ~(Len(<<p>>) >= 2) /\ Len(<<p>>) >= 1
    BY <2>1
  <2> QED BY <1>0, <1>1, <2>1, <2>2, Zenon DEF StandsAt
<1>2. CASE Stacked(p, t, generic) = <<p, t>> /\ generic
  <2>1. Len(<<p, t>>) = 2 /\ <<p, t>>[1] = p /\ <<p, t>>[2] = t
    OBVIOUS
  <2>2. Len(<<p, t>>) >= 2 /\ Len(<<p, t>>) >= 1
    BY <2>1
  <2> QED BY <1>0, <1>2, <2>1, <2>2, Zenon DEF StandsAt
<1> QED BY <1>1, <1>2, StackedIs

\* The lines with figures in a column are those of the rows of that variant.
LEMMA FiguresOfColumn ==
  ASSUME NEW res, Sound(res), NEW by, NEW reverse, NEW rows, Tabled(res, by, reverse, rows),
         NEW cells, DOMAIN cells = DOMAIN rows, NEW b \in BOOLEAN, NEW line,
         \A i \in DOMAIN rows :
           StandsAt(cells[i], b, KeyOf(rows[i].title, b) \in DOMAIN res, line[KeyOf(rows[i].title, b)])
  PROVE  Figures(cells, b) = {line[k] : k \in {j \in DOMAIN res : j.templated = b /\ Num(line[j].figure)}}
<1> DEFINE K == {j \in DOMAIN res : j.templated = b /\ Num(line[j].figure)}
           Key2(i) == KeyOf(rows[i].title, b)
<1>1. \A i \in DOMAIN rows : StandsAt(cells[i], b, Key2(i) \in DOMAIN res, line[Key2(i)])
  OBVIOUS
<1>2. \A cell : Entry(cell, b) = cell[LineAt(b)]
  BY DEF Entry, LineAt
<1>3. \A f : f \in Figures(cells, b) <=>
        \E i \in DOMAIN rows : /\ Len(cells[i]) >= LineAt(b)
                               /\ Num(cells[i][LineAt(b)].figure) /\ f = cells[i][LineAt(b)]
  BY <1>2 DEF Figures, LineAt
<1>4. \A i : Key2(i).templated = b
  BY DEF KeyOf
<1> HIDE DEF Key2
<1>5. ASSUME NEW i \in DOMAIN rows, Len(cells[i]) >= LineAt(b), Num(cells[i][LineAt(b)].figure)
      PROVE  Key2(i) \in K /\ cells[i][LineAt(b)] = line[Key2(i)]
  <2>1. cells[i][LineAt(b)] # Dash
    BY <1>5, DashShows, Figure
  <2>2. cells[i][LineAt(b)] = IF Key2(i) \in DOMAIN res THEN line[Key2(i)] ELSE Dash
    BY <1>1, <1>5, Zenon DEF StandsAt
  <2>3. Key2(i) \in DOMAIN res /\ cells[i][LineAt(b)] = line[Key2(i)]
    BY <2>1, <2>2, Zenon
  <2> QED BY <1>4, <1>5, <2>3
<1>6. ASSUME NEW k \in K
      PROVE  \E i \in DOMAIN rows : Len(cells[i]) >= LineAt(b) /\ cells[i][LineAt(b)] = line[k]
  <2>1. k \in DOMAIN res /\ k.templated = b /\ Num(line[k].figure)
    BY <1>6
  <2>2. <<k.lang, k.exe>> \in Titles(res)
    BY <2>1 DEF Titles
  <2>3. PICK i \in DOMAIN rows : rows[i].title = <<k.lang, k.exe>>
    BY <2>2 DEF Tabled
  <2>4. k \in Key
    BY <2>1 DEF Sound
  <2>5. Key2(i) = k
    BY <2>1, <2>3, <2>4, KeyOfTitle DEF Key2
  <2>6. line[k] # Dash
    BY <2>1, DashShows, Figure
  <2>7. StandsAt(cells[i], b, k \in DOMAIN res, line[k])
    BY <1>1, <2>5
  <2> QED
    BY <2>1, <2>6, <2>7, Zenon DEF StandsAt
<1> HIDE DEF K
<1>7. \A f \in Figures(cells, b) : \E k \in K : f = line[k]
  BY <1>3, <1>5
<1>8. \A k \in K : line[k] \in Figures(cells, b)
  <2> SUFFICES ASSUME NEW k \in K PROVE line[k] \in Figures(cells, b)
    OBVIOUS
  <2>1. Num(line[k].figure)
    BY DEF K
  <2> QED BY <1>3, <1>6, <2>1
<1>9. Figures(cells, b) = {line[k] : k \in K}
  BY <1>7, <1>8
<1> QED
  BY <1>9 DEF K

\* In a metric's column, the lines are those of StringifyMetrics.
LEMMA MetricColumnBest ==
  ASSUME NEW res, Sound(res), NEW by, NEW reverse, NEW rows, Tabled(res, by, reverse, rows),
         NEW c \in MetricCols, NEW b \in BOOLEAN, ~(b /\ c = "check")
  PROVE  BestIsLeast(Figures(Column(rows, c), b))
<1> DEFINE m == MinVal(res, c, b)
           line == [k \in DOMAIN res |-> StringifyMetrics(res[k][c], m)]
           cells == Column(rows, c)
           K == {j \in DOMAIN res : j.templated = b /\ Num(line[j].figure)}
<1>1. DOMAIN cells = DOMAIN rows /\ \A i \in DOMAIN rows : cells[i] = rows[i].cell[c]
  BY DEF Column
<1>2. ASSUME NEW i \in DOMAIN rows
      PROVE  StandsAt(cells[i], b, KeyOf(rows[i].title, b) \in DOMAIN res, line[KeyOf(rows[i].title, b)])
  <2> DEFINE title == rows[i].title
             variants == Grouped(res, title)
             p == MetricLine(res, variants, c, FALSE)
             t == MetricLine(res, variants, c, TRUE)
             there(x) == KeyOf(title, x) \in DOMAIN res
  <2>1. cells[i] = MergedRow(res, title).cell[c]
    BY <1>1 DEF Tabled
  <2>2. DOMAIN variants = {x \in BOOLEAN : there(x)}
    BY DEF Grouped
  <2>3. \A x \in BOOLEAN : there(x) => variants[x] = res[KeyOf(title, x)]
    BY DEF Grouped
  <2> HIDE DEF variants, there, title
  <2>4. /\ there(FALSE) => p = StringifyMetrics(res[KeyOf(title, FALSE)][c], MinVal(res, c, FALSE))
        /\ there(TRUE) => t = StringifyMetrics(res[KeyOf(title, TRUE)][c], MinVal(res, c, TRUE))
        /\ ~there(FALSE) => p = Dash
        /\ ~there(TRUE) => t = Dash
    BY <2>2, <2>3 DEF MetricLine
  <2>5. Layered(cells[i], p, t, TRUE \in DOMAIN variants)
    BY <2>1, CellLayered DEF variants
  <2>6. CASE b = FALSE
    <3>1. Len(cells[i]) >= 1 /\ cells[i][1] = p /\ LineAt(b) = 1
      BY <2>5, <2>6 DEF Layered, LineAt
    <3>2. there(b) => p = line[KeyOf(title, b)]
      BY <2>4, <2>6 DEF there
    <3>3. ~there(b) => p = Dash
      BY <2>4, <2>6
    <3> HIDE DEF line, cells, p, t
    <3>4. StandsAt(cells[i], b, there(b), line[KeyOf(title, b)])
      BY <3>1, <3>2, <3>3, Zenon DEF StandsAt
    <3> QED BY <3>4 DEF there, title
  <2>7. CASE b = TRUE
    <3>1. c # "check"
      BY <2>7
    <3>2. cells[i] = Stacked(p, t, TRUE \in DOMAIN variants)
      BY <2>1, <3>1 DEF MergedRow, MetricCell, variants
    <3>3. there(TRUE) => t = line[KeyOf(title, b)]
      BY <2>4, <2>7 DEF there
    <3>4. TRUE \in DOMAIN variants <=> there(TRUE)
      BY <2>2
    <3>5. there(FALSE) \in BOOLEAN /\ there(TRUE) \in BOOLEAN
      BY DEF there
    <3> HIDE DEF line, cells, p, t
    <3>6. (TRUE \in DOMAIN variants) \in BOOLEAN
      OBVIOUS
    <3>7. ~(TRUE \in DOMAIN variants) => t = Dash
      BY <2>4, <3>4, Zenon
    <3>8. StandsAt(cells[i], TRUE, TRUE \in DOMAIN variants, t)
      BY <2>4, <3>2, <3>5, <3>6, <3>7, StandsInStacked
    <3>9. StandsAt(cells[i], b, there(b), line[KeyOf(title, b)])
      BY <2>4, <2>7, <3>3, <3>4, <3>8, Zenon DEF StandsAt
    <3> QED BY <3>9 DEF there, title
  <2> QED BY <2>6, <2>7
<1> HIDE DEF line, cells
<1>3. Figures(cells, b) = {line[k] : k \in K}
  BY <1>1, <1>2, FiguresOfColumn
<1>4. c \in RawCol
  BY DEF MetricCols, RawCol
<1>5. ASSUME NEW k \in DOMAIN res PROVE line[k].figure = res[k][c] /\ res[k][c] \in Value
  BY <1>4, StringifyShows DEF line, Sound
<1>6. K = {j \in DOMAIN res : j.templated = b /\ Num(res[j][c])}
  BY <1>5
<1>7. \A k \in K : line[k].figure \in Nat
  BY <1>5, <1>6, Figure
<1>8. {line[k].figure : k \in K} = {res[k][c] : k \in K}
  BY <1>5
<1>9. m = Least({line[k].figure : k \in K})
  BY <1>6, <1>8 DEF MinVal
<1>10. ASSUME NEW k \in K PROVE line[k].best <=> line[k].figure = m
  <2>1. Num(res[k][c]) /\ k \in DOMAIN res /\ line[k].figure = res[k][c]
    BY <1>5, <1>6
  <2>2. line[k] = Line(res[k][c], res[k][c] = m, IF res[k][c] = m THEN One ELSE <<res[k][c], m>>)
    BY <2>1 DEF line, StringifyMetrics
  <2>3. line[k].best <=> res[k][c] = m
    BY <2>2, BestOfLine
  <2> QED BY <2>1, <2>3
<1> HIDE DEF K, m
<1>11. BestIsLeast({line[k] : k \in K})
  BY <1>7, <1>9, <1>10, LeastIsBest
<1> QED BY <1>3, <1>11 DEF cells

\* In the totals' column, those of FormatTot; where nothing timed out, each shows a
\* sum, and MinTot is the least of them.
LEMMA TotalColumnBest ==
  ASSUME NEW res, Sound(res), NEW by, NEW reverse, NEW rows, Tabled(res, by, reverse, rows),
         NEW b \in BOOLEAN, \A k \in DOMAIN res : res[k]["build"] # Late
  PROVE  BestIsLeast(Figures(Totals(rows), b))
<1> DEFINE m == MinTot(res, b)
           line == [k \in DOMAIN res |-> FormatTot(res[k], m)]
           cells == Totals(rows)
           K == {j \in DOMAIN res : j.templated = b /\ Num(line[j].figure)}
<1>1. DOMAIN cells = DOMAIN rows /\ \A i \in DOMAIN rows : cells[i] = rows[i].total
  BY DEF Totals
<1>2. ASSUME NEW i \in DOMAIN rows
      PROVE  StandsAt(cells[i], b, KeyOf(rows[i].title, b) \in DOMAIN res, line[KeyOf(rows[i].title, b)])
  <2> DEFINE title == rows[i].title
             variants == Grouped(res, title)
             p == TotalLine(res, variants, FALSE)
             t == TotalLine(res, variants, TRUE)
             there(x) == KeyOf(title, x) \in DOMAIN res
  <2>1. cells[i] = MergedRow(res, title).total
    BY <1>1 DEF Tabled
  <2>2. DOMAIN variants = {x \in BOOLEAN : there(x)}
    BY DEF Grouped
  <2>3. \A x \in BOOLEAN : there(x) => variants[x] = res[KeyOf(title, x)]
    BY DEF Grouped
  <2>4. cells[i] = Stacked(p, t, TRUE \in DOMAIN variants)
    BY <2>1 DEF MergedRow, TotalCell
  <2> HIDE DEF variants, there, title
  <2>5. /\ there(FALSE) => p = FormatTot(res[KeyOf(title, FALSE)], MinTot(res, FALSE))
        /\ there(TRUE) => t = FormatTot(res[KeyOf(title, TRUE)], MinTot(res, TRUE))
        /\ ~there(FALSE) => p = Dash
        /\ ~there(TRUE) => t = Dash
    BY <2>2, <2>3 DEF TotalLine
  <2>6. TRUE \in DOMAIN variants <=> there(TRUE)
    BY <2>2
  <2>7. there(FALSE) \in BOOLEAN /\ (TRUE \in DOMAIN variants) \in BOOLEAN
    BY DEF there
  <2>8. /\ there(b) /\ b = FALSE => p = line[KeyOf(title, b)]
        /\ there(b) /\ b = TRUE => t = line[KeyOf(title, b)]
    BY <2>5 DEF there
  <2> HIDE DEF line, cells, p, t
  <2>9. ~(TRUE \in DOMAIN variants) => t = Dash
    BY <2>5, <2>6, Zenon
  <2>10. /\ StandsAt(cells[i], FALSE, there(FALSE), p)
         /\ StandsAt(cells[i], TRUE, TRUE \in DOMAIN variants, t)
    BY <2>4, <2>5, <2>7, <2>9, StandsInStacked
  <2>11. StandsAt(cells[i], b, there(b), line[KeyOf(title, b)])
    <3>1. CASE b = FALSE
      BY <2>8, <2>10, <3>1, Zenon DEF StandsAt
    <3>2. CASE b = TRUE
      BY <2>6, <2>8, <2>10, <3>2, Zenon DEF StandsAt
    <3> QED BY <3>1, <3>2
  <2> QED BY <2>11 DEF there, title
<1> HIDE DEF line, cells
<1>3. Figures(cells, b) = {line[k] : k \in K}
  BY <1>1, <1>2, FiguresOfColumn
<1>4. ASSUME NEW k \in DOMAIN res
      PROVE  /\ line[k].figure = TotalFigure(res[k]) /\ res[k]["build"] # Late
             /\ Tot(res[k]) \in 0 .. 2 * MaxFigure /\ Tot(res[k]) \in Nat
  <2>1. res[k]["build"] \in Value /\ res[k]["run"] \in Value
    BY DEF Sound, RawCol
  <2>2. Tot(res[k]) \in 0 .. 2 * MaxFigure /\ Tot(res[k]) \in Nat
    BY <2>1, TotInRange
  <2>3. line[k].figure = TotalFigure(res[k])
    BY FormatTotShows DEF line
  <2> QED BY <2>2, <2>3
<1>5. ASSUME NEW k \in DOMAIN res
      PROVE  Num(line[k].figure) <=> res[k]["build"] # NA \/ res[k]["run"] # NA
  BY <1>4, Figure DEF TotalFigure
<1>6. K = {j \in DOMAIN res : j.templated = b /\ (res[j]["build"] # NA \/ res[j]["run"] # NA)}
  BY <1>5
<1>7. \A k \in K : k \in DOMAIN res /\ line[k].figure = Tot(res[k])
  BY <1>4, <1>6 DEF TotalFigure
<1>8. \A k \in K : line[k].figure \in Nat
  BY <1>4, <1>7
<1>9. {line[k].figure : k \in K} = {Tot(res[k]) : k \in K}
  BY <1>7
<1>10. m = Least({line[k].figure : k \in K})
  BY <1>6, <1>9 DEF MinTot
<1>11. ASSUME NEW k \in K PROVE line[k].best <=> line[k].figure = m
  <2>1. k \in DOMAIN res /\ line[k].figure = Tot(res[k]) /\ res[k]["build"] # Late
    BY <1>4, <1>7
  <2>2. ~(res[k]["build"] = NA /\ res[k]["run"] = NA)
    BY <1>6
  <2>3. line[k] = Line(Tot(res[k]), Tot(res[k]) = m,
                       IF Tot(res[k]) = m \/ m = 0 THEN One ELSE <<Tot(res[k]), m>>)
    BY <2>1, <2>2 DEF line, FormatTot
  <2>4. line[k].best <=> Tot(res[k]) = m
    BY <2>3, BestOfLine
  <2> QED BY <2>1, <2>4
<1> HIDE DEF K, m
<1>12. BestIsLeast({line[k] : k \in K})
  BY <1>8, <1>10, <1>11, LeastIsBest
<1> QED BY <1>3, <1>12 DEF cells

\* What a table highlights is the least figure of its column, however the plain and
\* templated programs are stacked (format_metric_columns, min_tots).
THEOREM HighlightedIsLeastTheorem == Spec => []HighlightedIsLeast
<1>1. ASSUME Typed, SectionsOK PROVE HighlightedIsLeast
  <2> SUFFICES ASSUME Shown, NEW s \in DOMAIN sections, NEW templated \in BOOLEAN
               PROVE  /\ \A c \in MetricCols : (templated /\ c = "check") \/
                           BestIsLeast(Figures(Column(sections[s].rows, c), templated))
                      /\ (\A k \in TierKeys(sections[s].tier) : results[k]["build"] # Late) =>
                           BestIsLeast(Figures(Totals(sections[s].rows), templated))
    BY DEF HighlightedIsLeast
  <2> DEFINE t == sections[s].tier
             res == TierResults(t)
             rows == sections[s].rows
  <2>1. sections[s] = SectionOf(t)
    BY <1>1, SectionsDone
  <2>2. /\ Sound(res) /\ Tabled(res, sortBy, sortReverse, rows)
        /\ DOMAIN res = TierKeys(t) /\ \A k \in TierKeys(t) : res[k] = results[k]
    BY <1>1, <2>1, TierTabled
  <2> HIDE DEF res, rows, t
  <2>3. ASSUME NEW c \in MetricCols, ~(templated /\ c = "check")
        PROVE  BestIsLeast(Figures(Column(rows, c), templated))
    BY <2>2, <2>3, MetricColumnBest
  <2>4. ASSUME \A k \in TierKeys(t) : results[k]["build"] # Late
        PROVE  BestIsLeast(Figures(Totals(rows), templated))
    BY <2>2, <2>4, TotalColumnBest
  <2> QED
    BY <2>3, <2>4, Zenon DEF rows, t
<1> QED
  BY <1>1, SectionsInvariant, PTL

=============================================================================
