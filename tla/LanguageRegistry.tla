--------------------------- MODULE LanguageRegistry ---------------------------
(***************************************************************************)
(* The lookups in the registry LANGUAGES: names and aliases (cbench_pkg/   *)
(* types.py), the version probe of a compiler (cbench_pkg/version.py) and  *)
(* the tier of a compiler (cbench_pkg/reporting.py).                       *)
(***************************************************************************)
EXTENDS Naturals, Sequences, FiniteSetsExt, SequencesExt

CONSTANT Registry   \* LANGUAGES in the order of registration, as in Languages

LangIx == 1 .. Len(Registry)

\* register_language refuses a name that is taken.
ASSUME RegistryAssumption ==
  /\ Len(Registry) \in Nat \ {0} /\ DOMAIN Registry = LangIx
  /\ \A i, j \in LangIx : Registry[i].name = Registry[j].name => i = j

\* lang_support, for a name the registry has.
LangSupport(name) == Registry[CHOOSE i \in LangIx : Registry[i].name = name]

\* `base.startswith(prefix)`
StartsWith(exe, prefix) ==
  Len(prefix) <= Len(exe) /\ SubSeq(exe, 1, Len(prefix)) = prefix

-----------------------------------------------------------------------------
\* build_lang_aliases and normalize_lang_spec: a later entry of the table
\* replaces an earlier one; what is in no entry names no language.
Normalize(s) ==
  LET matching == {i \in LangIx : s \in {Registry[i].key} \cup Registry[i].aliases}
  IN IF matching = {} THEN "" ELSE Registry[Max(matching)].name

-----------------------------------------------------------------------------
\* Mutant: the executable's name need only begin the prefix.
ProbesReversed(i, exe) ==
  \E v \in ToSet(Registry[i].versions) : \E p \in v.prefixes : StartsWith(p, exe)

\* A VersionSpec of the i-th language matches.
Probes(i, exe) ==
  \E v \in ToSet(Registry[i].versions) : \E p \in v.prefixes : StartsWith(exe, p)

\* get_compiler_version: the language of the first match in VERSION_SPECS, ""
\* for the generic `--version`.
ProbeOf(exe) ==
  LET matching == {i \in LangIx : Probes(i, exe)}
  IN IF matching = {} THEN "" ELSE Registry[Min(matching)].name

-----------------------------------------------------------------------------
\* get_semantic_tier: the overrides all say tier 1.
GetSemanticTier(lang, exe) ==
  IF \E p \in LangSupport(lang).exeTiers : StartsWith(exe, p) THEN 1
  ELSE LangSupport(lang).tier
=============================================================================
