----------------------------- MODULE Discovery ------------------------------
(***************************************************************************)
(* Which compilers a benchmark covers: the loop of main() (cbench_pkg/     *)
(* cli.py) over the --languages specifications, and the lookups that the   *)
(* runners repeat later (resolve_compiler_path and find_compiler_versions  *)
(* of cbench_pkg/version.py).                                              *)
(*                                                                         *)
(* The lookup consults language_exes, the very table the loop is filling:  *)
(* once a language has a list of compilers, every other one is hidden.     *)
(* An executable's name is a pair of a base name and a version suffix, 0   *)
(* for the empty suffix.                                                   *)
(***************************************************************************)
EXTENDS Naturals, FiniteSets

CONSTANTS Lang,       \* registered languages
          Base,       \* base names of compilers
          Version,    \* VERSIONS, the empty suffix being 0
          ExesOf,     \* ExesOf[l]: the compilers that language l registers
          Versioned,  \* compilers looked up with find_compiler_versions
          Request,    \* specifications a user may write: [lang, exes]
          MaxSpecs    \* bound: specifications on the command line

Name == Base \X Version

ASSUME DiscoveryAssumption ==
  /\ ExesOf \in [Lang -> (SUBSET Base) \ {{}}]
  /\ 0 \in Version
  /\ Versioned \subseteq Base
  /\ Request \subseteq [lang : Lang, exes : SUBSET Name]
  /\ MaxSpecs \in Nat

VARIABLES
  user,       \* user_specified_languages
  installed,  \* the names `which` finds
  asked,      \* the specifications handled so far
  listed,     \* languages with an entry in language_exes
  exes,       \* exes[l]: language_exes[l], {} when empty or absent
  warned,     \* <<language, name>> or <<language, NoName>>: warnings printed
  done        \* the loop is over

vars == <<user, installed, asked, listed, exes, warned, done>>

NoName == <<>>

TypeOK ==
  /\ user \in BOOLEAN /\ done \in BOOLEAN
  /\ installed \subseteq Name
  /\ asked \subseteq [lang : Lang, exes : SUBSET Name]
  /\ listed \subseteq Lang
  /\ exes \in [Lang -> SUBSET Name]
  /\ warned \subseteq Lang \X (Name \cup {NoName})

Init ==
  /\ user \in BOOLEAN
  /\ installed \in SUBSET Name
  /\ asked = {} /\ listed = {} /\ warned = {}
  /\ exes = [l \in Lang |-> {}]
  /\ done = FALSE

-----------------------------------------------------------------------------
\* resolve_compiler_path: None when language_exes[l] is not empty and does not
\* contain this very name, else what `which` finds.
Resolves(l, n) ==
  /\ exes[l] # {} => n \in exes[l]
  /\ n \in installed

\* `any(resolve_compiler_path(args, language, f"{exe}{v}") for v in VERSIONS)`:
\* a name that carries a suffix already exists with the empty one only.
Found(l, n) ==
  \E v \in Version : /\ n[2] # 0 => v = 0
                     /\ Resolves(l, <<n[1], IF n[2] = 0 THEN v ELSE n[2]>>)

Bare(l) == [lang |-> l, exes |-> {}]
Candidates(s) == IF s.exes = {} THEN ExesOf[s.lang] \X {0} ELSE s.exes
FoundOf(s) == {n \in Candidates(s) : Found(s.lang, n)}

\* What the loop may meet: the user's specifications, or every language.
Pending ==
  IF ~user THEN {Bare(l) : l \in Lang} \ asked
  ELSE IF Cardinality(asked) < MaxSpecs THEN Request \ asked ELSE {}

\* Mutant: a specification without compilers lists those that were found.
AcceptListsFound(s) ==
  /\ ~done
  /\ FoundOf(s) # {}
  /\ asked' = asked \cup {s}
  /\ listed' = listed \cup {s.lang}
  /\ exes' = [exes EXCEPT ![s.lang] = @ \cup FoundOf(s)]
  /\ warned' = warned \cup ({s.lang} \X (s.exes \ FoundOf(s)))
  /\ UNCHANGED <<user, installed, done>>

\* Mutant: no warning for a compiler that is missing next to a found one.
AcceptSilently(s) ==
  /\ ~done
  /\ FoundOf(s) # {}
  /\ asked' = asked \cup {s}
  /\ listed' = listed \cup {s.lang}
  /\ exes' = [exes EXCEPT ![s.lang] = IF s.exes = {} THEN @ ELSE @ \cup FoundOf(s)]
  /\ warned' = warned
  /\ UNCHANGED <<user, installed, done>>

\* One turn of the loop that finds a compiler.  A specification without
\* compilers adds nothing to the language's list.
AcceptSpec(s) ==
  /\ ~done
  /\ FoundOf(s) # {}
  /\ asked' = asked \cup {s}
  /\ listed' = listed \cup {s.lang}
  /\ exes' = [exes EXCEPT ![s.lang] = IF s.exes = {} THEN @ ELSE @ \cup FoundOf(s)]
  /\ warned' = warned \cup ({s.lang} \X (s.exes \ FoundOf(s)))
  /\ UNCHANGED <<user, installed, done>>

\* One turn that finds none: only a user's specification earns a warning.
SkipSpec(s) ==
  /\ ~done
  /\ FoundOf(s) = {}
  /\ asked' = asked \cup {s}
  /\ warned' = IF user THEN warned \cup {<<s.lang, NoName>>} ELSE warned
  /\ UNCHANGED <<user, installed, listed, exes, done>>

\* `if not args.language_exes and not user_specified_languages:` everything.
EndOfSpecs ==
  /\ ~done
  /\ IF user THEN asked # {} ELSE Pending = {}
  /\ done' = TRUE
  /\ IF listed = {} /\ ~user
     THEN /\ listed' = Lang
          /\ exes' = [l \in Lang |-> ExesOf[l] \X {0}]
     ELSE UNCHANGED <<listed, exes>>
  /\ UNCHANGED <<user, installed, asked, warned>>

Next ==
  \/ \E s \in Pending : AcceptSpec(s) \/ SkipSpec(s)
  \/ EndOfSpecs

Spec == Init /\ [][Next]_vars

-----------------------------------------------------------------------------
\* The binaries that language l's runners will measure: each looks its own
\* compilers up again, some of them under every version suffix.
Measured(l) ==
  {n \in ExesOf[l] \X Version : /\ l \in listed
                                /\ n[2] # 0 => n[1] \in Versioned
                                /\ Resolves(l, n)}

SpecsOf(l) == {s \in asked : s.lang = l}

\* A language named once is measured with exactly the compilers asked for, or
\* with all of them if none was named (the loop and the second lookup agree).
OneSpecIsExact ==
  done => \A l \in Lang : \A s \in asked : SpecsOf(l) = {s} =>
    Measured(l) = {n \in ExesOf[l] \X Version :
                     /\ n \in installed
                     /\ n[2] # 0 => n[1] \in Versioned
                     /\ s.exes # {} => n \in s.exes}

\* A compiler the user asked for and will not get is never dropped in silence,
\* whatever else was asked for, unless it is one its language has no runner for
\* or only binaries with a version suffix are installed.
NoSilentOmission ==
  done /\ user => \A s \in asked : \A n \in s.exes :
    \/ n \in Measured(s.lang)
    \/ {<<s.lang, n>>, <<s.lang, NoName>>} \cap warned # {}
    \/ n[1] \notin ExesOf[s.lang] \/ (n[2] # 0 /\ n[1] \notin Versioned)
    \/ n \notin installed /\ \E v \in Version \ {0} : <<n[1], v>> \in installed

-----------------------------------------------------------------------------
(***************************************************************************)
(* What the README says.                                                   *)
(***************************************************************************)

\* README's example names two compilers of one language in two specifications:
\* every installed compiler asked for is measured.
EveryRequestMeasured ==
  done /\ user => \A s \in asked : \A n \in s.exes :
    n \in installed /\ n[1] \in ExesOf[s.lang] => n \in Measured(s.lang)
=============================================================================
