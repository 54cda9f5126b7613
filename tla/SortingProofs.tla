---------------------------- MODULE SortingProofs ----------------------------
(***************************************************************************)
(* What InOrder and KeepOnly return, for every finite set, order and list. *)
(***************************************************************************)
EXTENDS Sorting, FiniteSetTheorems, WellFoundedInduction, TLAPS

\* A strict order of all elements of S.
Orders(ahead, S) ==
  /\ ahead \in [S -> SUBSET S]
  /\ \A t \in S : t \notin ahead[t]
  /\ \A t \in S : \A u \in ahead[t] : ahead[u] \subseteq ahead[t]
  /\ \A t, u \in S : t # u => t \in ahead[u] \/ u \in ahead[t]

Place(ahead, t) == Cardinality(ahead[t]) + 1

\* Elements have places from 1 to the size of the set, in their order.
LEMMA Places ==
  ASSUME NEW S, NEW ahead, IsFiniteSet(S), Orders(ahead, S)
  PROVE  /\ \A t \in S : Place(ahead, t) \in 1 .. Cardinality(S)
         /\ \A t \in S : \A u \in ahead[t] : Place(ahead, u) < Place(ahead, t)
         /\ \A t, u \in S : Place(ahead, t) = Place(ahead, u) => t = u
<1>1. \A t \in S : IsFiniteSet(ahead[t]) /\ Cardinality(ahead[t]) \in Nat
  BY FS_Subset, FS_CardinalityType DEF Orders
<1>2. ASSUME NEW t \in S PROVE Place(ahead, t) \in 1 .. Cardinality(S)
  <2>1. ahead[t] \in SUBSET S /\ ahead[t] # S
    BY DEF Orders
  <2>2. Cardinality(ahead[t]) <= Cardinality(S) /\ Cardinality(ahead[t]) # Cardinality(S)
    BY <2>1, FS_Subset
  <2> QED
    BY <1>1, <2>2, FS_CardinalityType DEF Place
<1>3. ASSUME NEW t \in S, NEW u \in ahead[t] PROVE Place(ahead, u) < Place(ahead, t)
  <2>1. u \in S /\ ahead[u] \in SUBSET ahead[t] /\ ahead[u] # ahead[t]
    BY DEF Orders
  <2>2. Cardinality(ahead[u]) <= Cardinality(ahead[t]) /\ Cardinality(ahead[u]) # Cardinality(ahead[t])
    BY <1>1, <2>1, FS_Subset
  <2> QED
    BY <1>1, <2>1, <2>2 DEF Place
<1>4. ASSUME NEW t \in S, NEW u \in S, t # u PROVE Place(ahead, t) # Place(ahead, u)
  <2>1. Place(ahead, t) \in Nat /\ Place(ahead, u) \in Nat
    BY <1>1 DEF Place
  <2>2. t \in ahead[u] \/ u \in ahead[t]
    BY <1>4 DEF Orders
  <2> QED
    BY <1>3, <2>1, <2>2
<1> QED
  BY <1>2, <1>3, <1>4

\* Every place is taken: as many different places as elements.
LEMMA PlacesTaken ==
  ASSUME NEW S, NEW ahead, IsFiniteSet(S), Orders(ahead, S), NEW n \in 1 .. Cardinality(S)
  PROVE  \E t \in S : Place(ahead, t) = n
<1> DEFINE f == [t \in S |-> Place(ahead, t)]
           N == Cardinality(S)
<1>1. N \in Nat
  BY FS_CardinalityType
<1>2. f \in Injection(S, 1 .. N)
  BY Places DEF Injection, IsInjective
<1>3. IsFiniteSet(1 .. N) /\ Cardinality(1 .. N) = N
  BY <1>1, FS_Interval
<1>4. f \in Surjection(S, 1 .. N)
  BY <1>2, <1>3, FS_Injection
<1> QED
  BY <1>4 DEF Surjection

\* InOrder lists the elements of the set, each once, in their order.
THEOREM InOrderLists ==
  ASSUME NEW S, NEW ahead, IsFiniteSet(S), Orders(ahead, S)
  PROVE  /\ InOrder(S, ahead) \in Bijection(1 .. Cardinality(S), S)
         /\ \A m, n \in 1 .. Cardinality(S) :
              m < n => InOrder(S, ahead)[m] \in ahead[InOrder(S, ahead)[n]]
<1> DEFINE place == {<<Place(ahead, t), t>> : t \in S}
           s == InOrder(S, ahead)
           N == Cardinality(S)
<1>1. s = [n \in 1 .. N |-> (CHOOSE p \in place : p[1] = n)[2]]
  BY DEF InOrder, Place
<1>2. ASSUME NEW n \in 1 .. N PROVE s[n] \in S /\ Place(ahead, s[n]) = n
  <2>1. PICK t \in S : Place(ahead, t) = n
    BY PlacesTaken
  <2>2. <<Place(ahead, t), t>> \in place /\ <<Place(ahead, t), t>>[1] = n
    BY <2>1
  <2>3. \E p \in place : p[1] = n
    BY <2>2
  <2> DEFINE c == CHOOSE p \in place : p[1] = n
  <2>4. c \in place /\ c[1] = n
    BY <2>3
  <2>5. s[n] = c[2]
    BY <1>1
  <2> HIDE DEF c
  <2> QED
    BY <2>4, <2>5
<1>3. s \in [1 .. N -> S]
  BY <1>1, <1>2
<1> HIDE DEF s
<1>4. \A t \in S : Place(ahead, t) \in 1 .. N /\ s[Place(ahead, t)] = t
  BY <1>2, Places
<1>5. s \in Bijection(1 .. N, S)
  <2>1. \A m, n \in 1 .. N : s[m] = s[n] => m = n
    BY <1>2
  <2> QED
    BY <1>3, <1>4, <2>1 DEF Bijection, Injection, IsInjective, Surjection
<1>6. ASSUME NEW m \in 1 .. N, NEW n \in 1 .. N, m < n
      PROVE  s[m] \in ahead[s[n]]
  <2>1. s[m] # s[n] /\ s[m] \in S /\ s[n] \in S
    BY <1>2, <1>6
  <2>2. s[m] \in ahead[s[n]] \/ s[n] \in ahead[s[m]]
    BY <2>1 DEF Orders
  <2>3. s[n] \notin ahead[s[m]]
    BY <1>2, <1>6, <2>1, Places
  <2> QED BY <2>2, <2>3
<1> QED
  BY <1>5, <1>6 DEF s

-----------------------------------------------------------------------------
\* Numbers in the order of their values.
LEMMA AscendingOrders ==
  ASSUME NEW S, S \subseteq Nat
  PROVE  Orders([i \in S |-> {j \in S : j < i}], S)
<1> DEFINE ahead == [i \in S |-> {j \in S : j < i}]
<1>1. ahead \in [S -> SUBSET S]
  OBVIOUS
<1>2. \A t \in S : ahead[t] = {j \in S : j < t}
  OBVIOUS
<1> HIDE DEF ahead
<1>3. \A t \in S : \A u \in ahead[t] : ahead[u] \subseteq ahead[t]
  <2> SUFFICES ASSUME NEW t \in S, NEW u \in S, u < t, NEW j \in S, j < u PROVE j < t
    BY <1>2
  <2> QED OBVIOUS
<1>4. \A t \in S : t \notin ahead[t]
  BY <1>2
<1>5. ASSUME NEW t \in S, NEW u \in S, t # u
      PROVE  t \in ahead[u] \/ u \in ahead[t]
  <2>1. t < u \/ u < t
    BY <1>5
  <2> QED BY <1>2, <2>1
<1> QED
  BY <1>1, <1>3, <1>4, <1>5 DEF Orders, ahead

\* A comprehension picks the elements in T, each from a position of its own and
\* in the order of the list.
THEOREM KeepOnlyPicks ==
  ASSUME NEW X, NEW T, NEW s \in Seq(X)
  PROVE  /\ KeepOnly(s, T) \in Seq(X \cap T)
         /\ \E at \in Bijection(1 .. Len(KeepOnly(s, T)), {i \in DOMAIN s : s[i] \in T}) :
              /\ \A n \in 1 .. Len(KeepOnly(s, T)) : KeepOnly(s, T)[n] = s[at[n]]
              /\ \A m, n \in 1 .. Len(KeepOnly(s, T)) : m < n => at[m] < at[n]
<1> DEFINE S == {i \in DOMAIN s : s[i] \in T}
           ahead == [i \in S |-> {j \in S : j < i}]
           at == InOrder(S, ahead)
           k == [n \in 1 .. Cardinality(S) |-> s[at[n]]]
<1>1. KeepOnly(s, T) = k
  BY DEF KeepOnly
<1>2. S \subseteq Nat /\ S \in SUBSET (1 .. Len(s)) /\ Len(s) \in Nat
  OBVIOUS
<1>3. IsFiniteSet(S) /\ Cardinality(S) \in Nat
  <2>1. IsFiniteSet(1 .. Len(s))
    BY <1>2, FS_Interval
  <2> QED
    BY <1>2, <2>1, FS_Subset, FS_CardinalityType
<1>4. Orders(ahead, S)
  BY <1>2, AscendingOrders
<1>5. /\ at \in Bijection(1 .. Cardinality(S), S)
      /\ \A m, n \in 1 .. Cardinality(S) : m < n => at[m] \in ahead[at[n]]
  BY <1>3, <1>4, InOrderLists
<1> HIDE DEF at
<1>6. \A n \in 1 .. Cardinality(S) : at[n] \in S
  BY <1>5 DEF Bijection, Injection
<1>7. k \in Seq(X \cap T) /\ Len(k) = Cardinality(S)
  BY <1>3, <1>6
<1>8. \A m, n \in 1 .. Cardinality(S) : m < n => at[m] < at[n]
  BY <1>5, <1>6
<1> QED
  BY <1>1, <1>5, <1>7, <1>8

-----------------------------------------------------------------------------
\* The library states that < is well-founded on the naturals; a set of naturals
\* therefore has a least member.
Smaller == {ss \in Nat \X Nat : ss[1] < ss[2]}

LEMMA LeastMember ==
  ASSUME NEW S, S \subseteq Nat, S # {}
  PROVE  \E x \in S : \A y \in S : x <= y
<1>1. IsWellFoundedOn(Smaller, Nat)
  BY NatLessThanWellFounded DEF OpToRel, Smaller
<1>2. PICK x \in S : \A y \in S : <<y, x>> \notin Smaller
  BY <1>1, WFMin
<1>3. \A y \in S : x <= y
  <2> SUFFICES ASSUME NEW y \in S, y < x PROVE FALSE
    BY SMT
  <2>1. <<y, x>> \in Smaller
    BY DEF Smaller
  <2> QED BY <2>1, <1>2
<1> QED
  BY <1>3

\* So has a bounded one a greatest member.
LEMMA GreatestMember ==
  ASSUME NEW S, S \subseteq Nat, S # {}, NEW b \in Nat, \A x \in S : x <= b
  PROVE  \E x \in S : \A y \in S : y <= x
<1> DEFINE T == {b - x : x \in S}
<1>1. T \subseteq Nat /\ T # {}
  <2>1. \A x \in S : b - x \in Nat
    OBVIOUS
  <2> QED BY <2>1
<1>2. PICK z \in T : \A y \in T : z <= y
  BY <1>1, LeastMember
<1>3. PICK x \in S : z = b - x
  OBVIOUS
<1>4. \A y \in S : b - x <= b - y
  BY <1>2, <1>3
<1> QED
  BY <1>4
=============================================================================
