----------------------------- MODULE MCExplorer -----------------------------
(***************************************************************************)
(* Explorer over three files, one of them under a directory "build", with  *)
(* words of two letters, two scan limits that bite, and an alphabet in     *)
(* which every candidate for a code also occurs in some file.              *)
(***************************************************************************)
EXTENDS Explorer

\* Space and newline first, then ASCII, then two-byte symbols.
MCAlphabet == <<"n", "_", "1", "2", "a", "b", "~", "p", "q", "r", "t">>
MCLetters == {"a", "b"}
MCDigits == {"1", "2"}
MCWide == {"p", "q", "r", "t"}
MCCodeAlphabet == <<"1", "2">>

\* By token id; by cost, then byte order.
MCOneToken == <<"q", "r", "p">>
MCFewTokens == <<"p", "q", "r", "t">>

\* Every symbol is a token, and the pair "ab" is three.
MCTokens(s) ==
  Len(s) + Cardinality({k \in 1..(Len(s) - 1) : s[k] = "a" /\ s[k + 1] = "b"})
         + Cardinality({k \in 1..Len(s) : s[k] = "t"})

MCWalk == <<"a.go", "build/b.go", "c.go">>
MCAbove == [p \in ToSet(MCWalk) |-> IF p = "build/b.go" THEN {"build"} ELSE {}]

Rule(negate, paths) == [negate |-> negate, paths |-> paths]
KeepC == Rule(TRUE, {"c.go"})
SkipGo == Rule(FALSE, {"a.go", "build/b.go", "c.go"})
SkipBuild == Rule(FALSE, {"build"})
MCRuleOrder == <<KeepC, SkipGo, SkipBuild>>

MCPlainRules == {<< >>, <<SkipBuild>>, <<KeepC, SkipBuild>>}
MCRules == {<< >>, <<SkipGo>>, <<SkipGo, KeepC>>, <<KeepC, SkipGo>>}

MCCandidates == {<<"b", "~">>, <<"a", "b">>, <<"t">>}

MCTexts ==
  {<< >>, NotText, <<"a", "b", "_", "a", "b">>, <<"b", "~", "b", "~", "1">>,
   <<"a", "1", "n", "a", "1", "_">>, <<"q", "t", "a", "t">>, <<"r", "p">>}
MCTrees == [ToSet(MCWalk) -> MCTexts]
NoEdits == {}
MCEdits == {<<"c.go", <<"p", "a", "b">>>>, <<"a.go", << >>>>}
=============================================================================
