--------------------------- MODULE DiscoveryProofs ---------------------------
(***************************************************************************)
(* Proofs about the choice of compilers, for every registry, every set of  *)
(* specifications and every machine.                                       *)
(***************************************************************************)
EXTENDS Discovery, TLAPS

\* A name stands for itself or, without a suffix, for all its versions.
Names(n) == {m \in Name : m[1] = n[1] /\ (n[2] # 0 => m[2] = n[2])}

\* What a specification finds while its language has no list of compilers.
Fresh(s) == {n \in Candidates(s) : Names(n) \cap installed # {}}

-----------------------------------------------------------------------------
\* Every variable has its type; only registered languages are asked for.
TypeInv ==
  /\ TypeOK
  /\ ~user => asked \subseteq {Bare(l) : l \in Lang}

LEMMA NameParts ==
  /\ \A b \in Base, v \in Version : <<b, v>> \in Name /\ <<b, v>>[1] = b /\ <<b, v>>[2] = v
  /\ \A n \in Name : n[1] \in Base /\ n[2] \in Version /\ n = <<n[1], n[2]>>
  BY DEF Name

LEMMA CandidatesAreNames ==
  ASSUME NEW s \in [lang : Lang, exes : SUBSET Name]
  PROVE  Candidates(s) \subseteq Name
<1>1. ExesOf[s.lang] \X {0} \subseteq Name
  BY DiscoveryAssumption DEF Name
<1> QED
  BY <1>1 DEF Candidates

LEMMA PendingTyped ==
  ASSUME TypeInv, NEW s \in Pending
  PROVE  /\ s \in [lang : Lang, exes : SUBSET Name]
         /\ s \notin asked
         /\ ~user => s \in {Bare(l) : l \in Lang}
  BY DiscoveryAssumption DEF Pending, Bare

LEMMA TypesInductive == TypeInv /\ [Next]_vars => TypeInv'
<1> SUFFICES ASSUME TypeInv, [Next]_vars PROVE TypeInv'
  OBVIOUS
<1> USE DEF TypeInv, TypeOK
<1>1. ASSUME NEW s \in Pending, AcceptSpec(s) PROVE TypeInv'
  <2>1. /\ s \in [lang : Lang, exes : SUBSET Name] /\ s.lang \in Lang
        /\ ~user => s \in {Bare(l) : l \in Lang}
    BY PendingTyped
  <2>2. FoundOf(s) \subseteq Name
    BY <2>1, CandidatesAreNames DEF FoundOf
  <2>3. exes' \in [Lang -> SUBSET Name]
    BY <1>1, <2>1, <2>2 DEF AcceptSpec
  <2>4. warned' \subseteq Lang \X (Name \cup {NoName})
    <3>1. {s.lang} \X (s.exes \ FoundOf(s)) \subseteq Lang \X (Name \cup {NoName})
      BY <2>1
    <3> QED BY <1>1, <3>1 DEF AcceptSpec
  <2>5. asked' = asked \cup {s} /\ listed' \subseteq Lang /\ UNCHANGED <<user, installed, done>>
    BY <1>1, <2>1 DEF AcceptSpec
  <2> QED
    BY <2>1, <2>3, <2>4, <2>5
<1>2. ASSUME NEW s \in Pending, SkipSpec(s) PROVE TypeInv'
  <2>1. /\ s \in [lang : Lang, exes : SUBSET Name] /\ s.lang \in Lang
        /\ ~user => s \in {Bare(l) : l \in Lang}
    BY PendingTyped
  <2>2. warned' \subseteq Lang \X (Name \cup {NoName})
    BY <1>2, <2>1 DEF SkipSpec
  <2>3. asked' = asked \cup {s} /\ UNCHANGED <<user, installed, listed, exes, done>>
    BY <1>2 DEF SkipSpec
  <2> QED
    BY <2>1, <2>2, <2>3
<1>3. CASE EndOfSpecs
  <2>1. exes' \in [Lang -> SUBSET Name] /\ listed' \subseteq Lang /\ done' \in BOOLEAN
    <3>1. \A l \in Lang : ExesOf[l] \X {0} \subseteq Name
      BY DiscoveryAssumption DEF Name
    <3> QED BY <1>3, <3>1 DEF EndOfSpecs
  <2>2. UNCHANGED <<user, installed, asked, warned>>
    BY <1>3 DEF EndOfSpecs
  <2> QED
    BY <2>1, <2>2
<1>4. CASE UNCHANGED vars
  BY <1>4 DEF vars
<1> QED
  BY <1>1, <1>2, <1>3, <1>4 DEF Next

LEMMA TypesInitially == Init => TypeInv
  BY DEF Init, TypeInv, TypeOK

\* Every variable of the discovery has its type.
THEOREM DiscoveryTypes == Spec => []TypeOK
<1>1. TypeInv => TypeOK
  BY DEF TypeInv
<1> QED
  BY <1>1, TypesInitially, TypesInductive, PTL DEF Spec

-----------------------------------------------------------------------------
(***************************************************************************)
(* One specification of a language.  The table hides nothing from the      *)
(* first specification of a language, and a second one is what             *)
(* OneSpecIsExact excludes.                                                *)
(***************************************************************************)
\* A language nobody asked for yet has no list; one that was asked for once has
\* the list that its specification finds in the absence of a list.
Lone(l) ==
  /\ SpecsOf(l) = {} => l \notin listed /\ exes[l] = {}
  /\ \A s \in asked : SpecsOf(l) = {s} =>
       /\ l \in listed <=> Fresh(s) # {}
       /\ exes[l] = IF s.exes = {} THEN {} ELSE Fresh(s)

\* Nothing is installed that a benchmark of everything could measure.
NothingFound == ~user /\ \A l \in Lang : Fresh(Bare(l)) = {}

LoneInv ==
  IF done /\ NothingFound
  THEN listed = Lang /\ exes = [l \in Lang |-> ExesOf[l] \X {0}]
  ELSE \A l \in Lang : Lone(l)

\* Without a list, `which` alone decides.
LEMMA FreshIsFound ==
  ASSUME TypeInv, NEW s \in [lang : Lang, exes : SUBSET Name], exes[s.lang] = {}
  PROVE  FoundOf(s) = Fresh(s)
<1>1. ASSUME NEW n \in Name
      PROVE  Found(s.lang, n) <=> Names(n) \cap installed # {}
  <2>1. CASE n[2] = 0
    <3>1. Found(s.lang, n) <=> \E v \in Version : <<n[1], v>> \in installed
      BY <2>1 DEF Found, Resolves
    <3>2. Names(n) = {<<n[1], v>> : v \in Version}
      BY <2>1, NameParts DEF Names
    <3> QED BY <3>1, <3>2
  <2>2. CASE n[2] # 0
    <3>1. Found(s.lang, n) <=> n \in installed
      BY <2>2, NameParts, DiscoveryAssumption DEF Found, Resolves
    <3>2. Names(n) = {n}
      BY <2>2, NameParts DEF Names
    <3> QED BY <3>1, <3>2
  <2> QED BY <2>1, <2>2
<1> QED
  BY <1>1, CandidatesAreNames DEF FoundOf, Fresh

\* A turn of the loop, what it makes of the list of the specification's language
\* if there was none, and what it leaves alone.
LEMMA TurnEffect ==
  ASSUME TypeInv, NEW s \in Pending, AcceptSpec(s) \/ SkipSpec(s)
  PROVE  /\ s \in [lang : Lang, exes : SUBSET Name] /\ s.lang \in Lang
         /\ s \notin asked /\ asked' = asked \cup {s}
         /\ ~done /\ UNCHANGED <<user, installed, done>>
         /\ \A l \in Lang : l # s.lang => /\ exes'[l] = exes[l]
                                          /\ l \in listed' <=> l \in listed
         /\ exes[s.lang] = {} /\ s.lang \notin listed =>
              /\ s.lang \in listed' <=> Fresh(s) # {}
              /\ exes'[s.lang] = IF s.exes = {} THEN {} ELSE Fresh(s)
<1> USE DEF TypeInv, TypeOK
<1>1. s \in [lang : Lang, exes : SUBSET Name] /\ s.lang \in Lang /\ s \notin asked
  BY PendingTyped
<1>2. exes[s.lang] = {} => FoundOf(s) = Fresh(s)
  BY <1>1, FreshIsFound
<1>3. CASE AcceptSpec(s)
  BY <1>1, <1>2, <1>3 DEF AcceptSpec
<1>4. CASE SkipSpec(s)
  BY <1>1, <1>2, <1>4 DEF SkipSpec
<1> QED
  BY <1>3, <1>4

LEMMA LoneAfterTurn ==
  ASSUME TypeInv, NEW s \in Pending, AcceptSpec(s) \/ SkipSpec(s), \A l \in Lang : Lone(l),
         NEW l \in Lang
  PROVE  Lone(l)'
<1>1. \A t : Fresh(t)' = Fresh(t)
  BY TurnEffect DEF Fresh, Candidates
<1>2. CASE l = s.lang
  <2>1. SpecsOf(l)' # {} /\ s \in SpecsOf(l)'
    BY <1>2, TurnEffect DEF SpecsOf
  <2>2. ASSUME NEW t \in asked', SpecsOf(l)' = {t}
        PROVE  /\ l \in listed' <=> Fresh(t) # {}
               /\ exes'[l] = IF t.exes = {} THEN {} ELSE Fresh(t)
    <3>1. t = s /\ SpecsOf(l) = {}
      BY <2>1, <2>2, TurnEffect DEF SpecsOf
    <3>2. l \notin listed /\ exes[l] = {}
      BY <3>1 DEF Lone
    <3> QED
      BY <1>2, <3>1, <3>2, TurnEffect
  <2> QED
    BY <1>1, <2>1, <2>2 DEF Lone
<1>3. CASE l # s.lang
  <2>1. SpecsOf(l)' = SpecsOf(l)
    BY <1>3, TurnEffect DEF SpecsOf
  <2>2. exes'[l] = exes[l] /\ (l \in listed' <=> l \in listed)
    BY <1>3, TurnEffect
  <2>3. \A t \in asked' : SpecsOf(l)' = {t} => t \in asked
    BY <2>1 DEF SpecsOf
  <2> QED
    BY <1>1, <2>1, <2>2, <2>3 DEF Lone
<1> QED
  BY <1>2, <1>3

\* At the end of a run without specifications every language was asked for once.
LEMMA EverythingAsked ==
  ASSUME TypeInv, ~user, Pending = {}, NEW l \in Lang
  PROVE  Bare(l) \in asked /\ SpecsOf(l) = {Bare(l)}
<1>1. Bare(l) \in asked
  BY DEF Pending
<1>2. \A s \in asked : s.lang = l => s = Bare(l)
  BY DEF TypeInv, Bare
<1> QED
  BY <1>1, <1>2 DEF SpecsOf, Bare

LEMMA LoneInductive == TypeInv /\ LoneInv /\ [Next]_vars => LoneInv'
<1> SUFFICES ASSUME TypeInv, LoneInv, [Next]_vars PROVE LoneInv'
  OBVIOUS
<1>1. ASSUME NEW s \in Pending, AcceptSpec(s) \/ SkipSpec(s) PROVE LoneInv'
  <2>1. ~done /\ ~done'
    BY <1>1, TurnEffect
  <2>2. \A l \in Lang : Lone(l)
    BY <2>1 DEF LoneInv
  <2>3. \A l \in Lang : Lone(l)'
    BY <1>1, <2>2, LoneAfterTurn
  <2> QED
    BY <2>1, <2>3 DEF LoneInv
<1>2. CASE EndOfSpecs
  <2>1. /\ ~done /\ done' /\ UNCHANGED <<user, installed, asked>>
        /\ ~user => Pending = {}
    BY <1>2 DEF EndOfSpecs
  <2>2. \A l \in Lang : Lone(l)
    BY <2>1 DEF LoneInv
  <2>3. \A t : Fresh(t)' = Fresh(t)
    BY <2>1 DEF Fresh, Candidates
  <2>4. NothingFound' <=> NothingFound
    BY <2>1, <2>3 DEF NothingFound
  <2>5. ~user => \A l \in Lang : l \in listed <=> Fresh(Bare(l)) # {}
    BY <2>1, <2>2, EverythingAsked DEF Lone
  <2>6. CASE listed = {} /\ ~user
    <3>1. NothingFound
      BY <2>5, <2>6 DEF NothingFound
    <3> QED
      BY <1>2, <2>4, <2>6, <3>1 DEF LoneInv, EndOfSpecs
  <2>7. CASE ~(listed = {} /\ ~user)
    <3>1. ~NothingFound
      BY <2>5, <2>7 DEF NothingFound, TypeInv, TypeOK
    <3>2. UNCHANGED <<listed, exes>>
      BY <1>2, <2>7 DEF EndOfSpecs
    <3>3. \A l \in Lang : Lone(l)'
      BY <2>1, <2>2, <2>3, <3>2 DEF Lone, SpecsOf
    <3> QED
      BY <2>4, <3>1, <3>3 DEF LoneInv
  <2> QED
    BY <2>6, <2>7
<1>3. CASE UNCHANGED vars
  <2>1. UNCHANGED <<user, installed, asked, listed, exes, done>>
    BY <1>3 DEF vars
  <2>2. \A t : Fresh(t)' = Fresh(t)
    BY <2>1 DEF Fresh, Candidates
  <2>3. NothingFound' <=> NothingFound
    BY <2>1, <2>2 DEF NothingFound
  <2>4. \A l \in Lang : SpecsOf(l)' = SpecsOf(l)
    BY <2>1 DEF SpecsOf
  <2>5. \A l \in Lang : Lone(l) => Lone(l)'
    BY <2>1, <2>2, <2>4 DEF Lone
  <2> QED
    BY <2>1, <2>3, <2>5 DEF LoneInv
<1> QED
  BY <1>1, <1>2, <1>3 DEF Next

\* A binary that can be measured for a language is one its bare name finds.
LEMMA MeasurableIsFresh ==
  ASSUME TypeInv, NEW l \in Lang, NEW n \in ExesOf[l] \X Version, n \in installed
  PROVE  Fresh(Bare(l)) # {}
<1>1. <<n[1], 0>> \in Candidates(Bare(l)) /\ n[1] \in Base /\ n[2] \in Version
  BY DiscoveryAssumption DEF Candidates, Bare
<1>2. n \in Names(<<n[1], 0>>)
  BY <1>1 DEF Names, Name
<1> QED
  BY <1>1, <1>2 DEF Fresh

\* A language named in one specification is measured with exactly the compilers
\* asked for, or with all of them if it names none: the loop of main() and the
\* second lookup of the runners agree.
THEOREM OneSpecIsExactTheorem == Spec => []OneSpecIsExact
<1>1. Init => LoneInv
  BY DEF Init, LoneInv, Lone, SpecsOf
<1>2. TypeInv /\ LoneInv => OneSpecIsExact
  <2> SUFFICES ASSUME TypeInv, LoneInv, done, NEW l \in Lang, NEW s \in asked,
                      SpecsOf(l) = {s}, NEW n \in ExesOf[l] \X Version,
                      n[2] # 0 => n[1] \in Versioned
               PROVE  (l \in listed /\ Resolves(l, n))
                        <=> (n \in installed /\ (s.exes # {} => n \in s.exes))
    BY DEF OneSpecIsExact, Measured
  <2>1. /\ s.lang = l /\ s \in [lang : Lang, exes : SUBSET Name]
        /\ n \in Name
        /\ ~user => s = Bare(l)
    BY DiscoveryAssumption DEF SpecsOf, TypeInv, TypeOK, Name, Bare
  <2>2. n \in installed => Fresh(Bare(l)) # {}
    BY MeasurableIsFresh
  <2>3. CASE NothingFound
    BY <2>1, <2>2, <2>3 DEF NothingFound, Resolves
  <2>4. CASE ~NothingFound
    <3>1. Lone(l)
      BY <2>4 DEF LoneInv
    <3>2. /\ l \in listed <=> Fresh(s) # {}
          /\ exes[l] = IF s.exes = {} THEN {} ELSE Fresh(s)
      BY <3>1 DEF Lone
    <3>3. CASE s.exes = {}
      <4>1. Fresh(s) = Fresh(Bare(l))
        BY <2>1, <3>3 DEF Fresh, Candidates, Bare
      <4> QED
        BY <2>2, <3>2, <3>3, <4>1 DEF Resolves
    <3>4. CASE s.exes # {}
      <4>1. n \in Fresh(s) => n \in s.exes
        BY <3>4 DEF Fresh, Candidates
      <4>2. n \in s.exes /\ n \in installed => n \in Fresh(s)
        BY <2>1, <3>4 DEF Fresh, Candidates, Names
      <4> QED
        BY <3>2, <3>4, <4>1, <4>2 DEF Resolves
    <3> QED BY <3>3, <3>4
  <2> QED BY <2>3, <2>4
<1> QED
  BY <1>1, <1>2, TypesInitially, TypesInductive, LoneInductive, PTL DEF Spec

-----------------------------------------------------------------------------
(***************************************************************************)
(* Nothing is dropped in silence.                                          *)
(***************************************************************************)
\* What is in a list was found under some name; what the user asked for is in
\* the list of its language or in a warning.
Accounted ==
  user =>
    /\ \A l \in Lang : exes[l] # {} => l \in listed
    /\ \A l \in Lang : \A n \in exes[l] : Names(n) \cap installed # {}
    /\ \A s \in asked : \A n \in s.exes :
         n \in exes[s.lang] \/ {<<s.lang, n>>, <<s.lang, NoName>>} \cap warned # {}

LEMMA FoundHasName ==
  ASSUME TypeInv, NEW s \in [lang : Lang, exes : SUBSET Name], NEW n \in FoundOf(s)
  PROVE  Names(n) \cap installed # {}
<1>1. n \in Name
  BY CandidatesAreNames DEF FoundOf
<1>2. PICK v \in Version : /\ n[2] # 0 => v = 0
                           /\ <<n[1], IF n[2] = 0 THEN v ELSE n[2]>> \in installed
  BY DEF FoundOf, Found, Resolves
<1> QED
  BY <1>1, <1>2, NameParts DEF Names

LEMMA AccountedInductive == TypeInv /\ Accounted /\ [Next]_vars => Accounted'
<1> SUFFICES ASSUME TypeInv, Accounted, [Next]_vars, user PROVE Accounted'
  BY DEF Accounted, Next, vars, AcceptSpec, SkipSpec, EndOfSpecs
<1> USE DEF TypeInv, TypeOK
<1>1. ASSUME NEW s \in Pending, AcceptSpec(s) PROVE Accounted'
  <2>1. s \in [lang : Lang, exes : SUBSET Name] /\ s.lang \in Lang
    BY PendingTyped
  <2>2. /\ asked' = asked \cup {s} /\ listed' = listed \cup {s.lang}
        /\ warned' = warned \cup ({s.lang} \X (s.exes \ FoundOf(s)))
        /\ UNCHANGED <<user, installed>>
        /\ \A l \in Lang : exes'[l] = exes[l] \/ l = s.lang
        /\ exes'[s.lang] = IF s.exes = {} THEN exes[s.lang] ELSE exes[s.lang] \cup FoundOf(s)
    BY <1>1, <2>1 DEF AcceptSpec
  <2>3. \A l \in Lang : exes'[l] # {} => l \in listed'
    BY <2>2 DEF Accounted
  <2>4. \A l \in Lang : \A n \in exes'[l] : Names(n) \cap installed # {}
    BY <2>1, <2>2, FoundHasName DEF Accounted
  <2>5. \A l \in Lang : exes[l] \subseteq exes'[l]
    BY <2>2
  <2>6. \A t \in asked : \A n \in t.exes :
          n \in exes'[t.lang] \/ {<<t.lang, n>>, <<t.lang, NoName>>} \cap warned' # {}
    BY <2>2, <2>5 DEF Accounted
  <2>7. \A n \in s.exes : n \in exes'[s.lang] \/ <<s.lang, n>> \in warned'
    BY <2>2
  <2> QED
    BY <2>2, <2>3, <2>4, <2>6, <2>7 DEF Accounted, Names
<1>2. ASSUME NEW s \in Pending, SkipSpec(s) PROVE Accounted'
  <2>1. /\ asked' = asked \cup {s} /\ warned' = warned \cup {<<s.lang, NoName>>}
        /\ UNCHANGED <<user, installed, listed, exes>>
    BY <1>2 DEF SkipSpec
  <2>2. \A t \in asked' : \A n \in t.exes :
          n \in exes'[t.lang] \/ {<<t.lang, n>>, <<t.lang, NoName>>} \cap warned' # {}
    <3> SUFFICES ASSUME NEW t \in asked', NEW n \in t.exes
                 PROVE  \/ n \in exes[t.lang]
                        \/ <<t.lang, n>> \in warned' \/ <<t.lang, NoName>> \in warned'
      BY <2>1
    <3>1. CASE t = s
      BY <2>1, <3>1
    <3>2. CASE t \in asked
      BY <2>1, <3>2 DEF Accounted
    <3> QED BY <2>1, <3>1, <3>2
  <2> QED
    BY <2>1, <2>2 DEF Accounted, Names
<1>3. CASE EndOfSpecs
  BY <1>3 DEF EndOfSpecs, Accounted, Names
<1>4. CASE UNCHANGED vars
  BY <1>4 DEF vars, Accounted, Names
<1> QED
  BY <1>1, <1>2, <1>3, <1>4 DEF Next

\* A compiler the user asked for and will not get is never dropped in silence,
\* whatever else was asked for, unless its language has no runner for it or only
\* binaries with a version suffix are installed.
THEOREM NoSilentOmissionTheorem == Spec => []NoSilentOmission
<1>1. Init => Accounted
  BY DEF Init, Accounted
<1>2. TypeInv /\ Accounted => NoSilentOmission
  <2> SUFFICES ASSUME TypeInv, Accounted, user, NEW s \in asked, NEW n \in s.exes,
                      {<<s.lang, n>>, <<s.lang, NoName>>} \cap warned = {},
                      n[1] \in ExesOf[s.lang], n[2] # 0 => n[1] \in Versioned
               PROVE  \/ n \in Measured(s.lang)
                      \/ n \notin installed /\ \E v \in Version \ {0} : <<n[1], v>> \in installed
    BY DEF NoSilentOmission
  <2>1. /\ s.lang \in Lang /\ n \in Name
        /\ n \in exes[s.lang] /\ s.lang \in listed /\ Names(n) \cap installed # {}
    BY DEF Accounted, TypeInv, TypeOK
  <2>2. CASE n \in installed
    <3>1. n \in ExesOf[s.lang] \X Version
      BY <2>1, NameParts
    <3> QED
      BY <2>1, <2>2, <3>1 DEF Measured, Resolves
  <2>3. CASE n \notin installed
    <3>1. PICK m \in Name : m \in installed /\ m[1] = n[1] /\ (n[2] # 0 => m[2] = n[2])
      BY <2>1 DEF Names
    <3>2. m[2] # 0
      BY <2>1, <2>3, <3>1, NameParts
    <3> QED
      BY <2>3, <3>1, <3>2, NameParts
  <2> QED BY <2>2, <2>3
<1> QED
  BY <1>1, <1>2, TypesInitially, TypesInductive, AccountedInductive, PTL DEF Spec
=============================================================================
