---------------------------- MODULE MCDiscovery -----------------------------
(***************************************************************************)
(* Two languages: one with a versioned and a plain compiler, one with a    *)
(* single compiler; up to three specifications in any order.               *)
(***************************************************************************)
EXTENDS Discovery

MCLang == {"C", "D"}
MCBase == {"gcc", "tcc", "dmd"}
MCVersion == {0, 15}
MCExesOf == [C |-> {"gcc", "tcc"}, D |-> {"dmd"}]
MCVersioned == {"gcc"}
MCRequest ==
  {[lang |-> "C", exes |-> x] :
     x \in {{}, {<<"gcc", 0>>}, {<<"tcc", 0>>}, {<<"gcc", 15>>}, {<<"gcc", 0>>, <<"tcc", 0>>}}}
  \cup {[lang |-> "D", exes |-> x] : x \in {{}, {<<"dmd", 0>>}, {<<"gcc", 0>>}}}
=============================================================================
