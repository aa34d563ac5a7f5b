---------------------------- MODULE MCCodecLoop ----------------------------
(***************************************************************************)
(* Small dictionaries and texts for CodecLoop.  The text may hold letters, *)
(* the escape "E" and the code symbols 1 and 2.                            *)
(***************************************************************************)
EXTENDS CodecLoop, SequencesExt

CONSTANT MaxText

MCSymbols == {"a", "b", "E", "1", "2"}

MCTexts == BoundedSeq({"a", "b", "E", "1"}, MaxText)

MCTails == BoundedSeq({"a", "E", "1"}, 2)

Values == {<<"a">>, <<"b">>, <<"a", "b">>, <<"b", "1">>}
OneCodes == {<<"1">>, <<"2">>}

Dictionaries(codes) == BoundedSeq([code : codes, value : Values], 2)

AllConfigs(codes, escapes) ==
  [version : Versions, escape : escapes, entries : Dictionaries(codes)]

\* Dictionaries as explore generates them.
MCReversible == {c \in AllConfigs(OneCodes, {<<"E">>}) : Reversible(c)}

\* Reversible dictionaries with codes of several symbols, as a user may write them.
MCLongCodes ==
  {c \in AllConfigs({<<"1", "a">>, <<"1", "b">>, <<"2">>}, {<<"E">>}) : Reversible(c)}

MCPass == MCReversible \cup MCLongCodes
=============================================================================
