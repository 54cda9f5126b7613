------------------------------- MODULE Sorting -------------------------------
(***************************************************************************)
(* What the program relies on of Python's lists: sorting, which is stable, *)
(* and a comprehension with a condition.  Both are stated by position, and *)
(* not by recursion, so that SortingProofs can say what they do.           *)
(***************************************************************************)
EXTENDS Naturals, FiniteSets, Sequences

\* The elements of S, ahead[t] being those that come before t.
InOrder(S, ahead) ==
  LET place == {<<Cardinality(ahead[t]) + 1, t>> : t \in S}
  IN [n \in 1 .. Cardinality(S) |-> (CHOOSE p \in place : p[1] = n)[2]]

\* `[x for x in s if x in T]`
KeepOnly(s, T) ==
  LET at == {i \in DOMAIN s : s[i] \in T}
      kept == InOrder(at, [i \in at |-> {j \in at : j < i}])
  IN [n \in 1 .. Cardinality(at) |-> s[kept[n]]]
=============================================================================
