------------------------------- MODULE Codec -------------------------------
(***************************************************************************)
(* The codec engine, internal/codec/codec.go.  A text is a sequence of     *)
(* symbols: the bytes of the code where they are ASCII, its runes          *)
(* otherwise.  A configuration is a record [version, escape, entries] with *)
(* escape a text and entries a sequence of records [code, value] of texts. *)
(*                                                                         *)
(* The loops over the input are given one turn at a time (EncodeStep,      *)
(* DecodeStep) and as a whole (Encode, Decode).                            *)
(***************************************************************************)
EXTENDS Integers, Sequences, FiniteSets

Versions == {"tce1", "tce2"}

\* hasPrefixAt, with i counting from 1.
hasPrefixAt(s, i, p) ==
  /\ i + Len(p) - 1 <= Len(s)
  /\ \A j \in 1..Len(p) : s[i + j - 1] = p[j]

EntrySet(cfg) == {cfg.entries[k] : k \in 1..Len(cfg.entries)}

(***************************************************************************)
(* The checks of NewFromConfig and New.  Nothing is asked of how codes     *)
(* relate to each other or to the escape, beyond being distinct.           *)
(***************************************************************************)
Accepted(cfg) ==
  /\ cfg.version \in Versions
  /\ Len(cfg.escape) > 0
  /\ \A k \in 1..Len(cfg.entries) :
       LET e == cfg.entries[k]
       IN /\ Len(e.code) > 0
          /\ \A i \in 1..Len(e.value) : ~hasPrefixAt(e.value, i, cfg.escape)
          /\ \A l \in 1..(k - 1) : /\ cfg.entries[l].value # e.value
                                   /\ cfg.entries[l].code # e.code

\* The walks down the two tries: the longest non-empty value (code) that the
\* text continues with at i, as the set of its entry, or no entry.
ValueMatch(cfg, s, i) ==
  LET found == {e \in EntrySet(cfg) : Len(e.value) > 0 /\ hasPrefixAt(s, i, e.value)}
  IN {e \in found : \A d \in found : Len(d.value) <= Len(e.value)}

CodeMatch(cfg, s, i) ==
  LET found == {e \in EntrySet(cfg) : hasPrefixAt(s, i, e.code)}
  IN {e \in found : \A d \in found : Len(d.code) <= Len(e.code)}

\* One turn of a loop takes width symbols at i and puts out.
Take(width, out) == [err |-> "ok", width |-> width, out |-> out]
Bad == [err |-> "failed", width |-> 0, out |-> << >>]

\* Faulty: an escape in the text is written once.
EncodeStepNoDouble(cfg, s, i) ==
  IF hasPrefixAt(s, i, cfg.escape) THEN Take(Len(cfg.escape), cfg.escape)
  ELSE IF ValueMatch(cfg, s, i) # {}
  THEN LET e == CHOOSE e \in ValueMatch(cfg, s, i) : TRUE
       IN Take(Len(e.value), IF cfg.version = "tce1" THEN cfg.escape \o e.code ELSE e.code)
  ELSE Take(1, <<s[i]>>)

\* Faulty: tce2 leaves a code that occurs in the text as it is.
EncodeStepBareCodes(cfg, s, i) ==
  IF hasPrefixAt(s, i, cfg.escape)
  THEN Take(Len(cfg.escape), cfg.escape \o cfg.escape)
  ELSE IF ValueMatch(cfg, s, i) # {}
  THEN LET e == CHOOSE e \in ValueMatch(cfg, s, i) : TRUE
       IN Take(Len(e.value), IF cfg.version = "tce1" THEN cfg.escape \o e.code ELSE e.code)
  ELSE Take(1, <<s[i]>>)

\* Faulty: an escape that ends the text is written once.
EncodeStepOpenEnd(cfg, s, i) ==
  IF hasPrefixAt(s, i, cfg.escape)
  THEN Take(Len(cfg.escape),
            IF i + Len(cfg.escape) > Len(s) THEN cfg.escape ELSE cfg.escape \o cfg.escape)
  ELSE IF cfg.version = "tce2" /\ CodeMatch(cfg, s, i) # {}
  THEN LET e == CHOOSE e \in CodeMatch(cfg, s, i) : TRUE
       IN Take(Len(e.code), cfg.escape \o e.code)
  ELSE IF ValueMatch(cfg, s, i) # {}
  THEN LET e == CHOOSE e \in ValueMatch(cfg, s, i) : TRUE
       IN Take(Len(e.value), IF cfg.version = "tce1" THEN cfg.escape \o e.code ELSE e.code)
  ELSE Take(1, <<s[i]>>)

(***************************************************************************)
(* A turn of encodeTCE1 and encodeTCE2.  tce1 writes the escape before a   *)
(* code; tce2 writes codes bare, so it must escape a code that occurs in   *)
(* the text, and does that before it looks for values.                     *)
(***************************************************************************)
EncodeStep(cfg, s, i) ==
  IF hasPrefixAt(s, i, cfg.escape)
  THEN Take(Len(cfg.escape), cfg.escape \o cfg.escape)
  ELSE IF cfg.version = "tce2" /\ CodeMatch(cfg, s, i) # {}
  THEN LET e == CHOOSE e \in CodeMatch(cfg, s, i) : TRUE
       IN Take(Len(e.code), cfg.escape \o e.code)
  ELSE IF ValueMatch(cfg, s, i) # {}
  THEN LET e == CHOOSE e \in ValueMatch(cfg, s, i) : TRUE
       IN Take(Len(e.value), IF cfg.version = "tce1" THEN cfg.escape \o e.code ELSE e.code)
  ELSE Take(1, <<s[i]>>)

\* Faulty: an escaped escape is not known.
DecodeStep1NoEscape(cfg, s, i) ==
  LET j == i + Len(cfg.escape)
  IN IF ~hasPrefixAt(s, i, cfg.escape) THEN Take(1, <<s[i]>>)
     ELSE IF CodeMatch(cfg, s, j) = {} THEN Bad
     ELSE LET e == CHOOSE e \in CodeMatch(cfg, s, j) : TRUE
          IN Take(Len(cfg.escape) + Len(e.code), e.value)

\* Faulty: an escape that nothing known follows is taken as text.
DecodeStep1Lenient(cfg, s, i) ==
  LET j == i + Len(cfg.escape)
  IN IF ~hasPrefixAt(s, i, cfg.escape) THEN Take(1, <<s[i]>>)
     ELSE IF j > Len(s) THEN Take(Len(cfg.escape), cfg.escape)
     ELSE IF hasPrefixAt(s, j, cfg.escape) THEN Take(2 * Len(cfg.escape), cfg.escape)
     ELSE IF CodeMatch(cfg, s, j) = {} THEN Take(Len(cfg.escape), cfg.escape)
     ELSE LET e == CHOOSE e \in CodeMatch(cfg, s, j) : TRUE
          IN Take(Len(cfg.escape) + Len(e.code), e.value)

(***************************************************************************)
(* A turn of decodeTCE1: an escape is followed by the escape or by a code, *)
(* anything else fails.                                                    *)
(***************************************************************************)
DecodeStep1(cfg, s, i) ==
  LET j == i + Len(cfg.escape)
  IN IF ~hasPrefixAt(s, i, cfg.escape) THEN Take(1, <<s[i]>>)
     ELSE IF j > Len(s) THEN Bad
     ELSE IF hasPrefixAt(s, j, cfg.escape) THEN Take(2 * Len(cfg.escape), cfg.escape)
     ELSE IF CodeMatch(cfg, s, j) = {} THEN Bad
     ELSE LET e == CHOOSE e \in CodeMatch(cfg, s, j) : TRUE
          IN Take(Len(cfg.escape) + Len(e.code), e.value)

\* A turn of decodeTCE2: an escape makes the one rune after it literal.
DecodeStep2(cfg, s, i) ==
  LET j == i + Len(cfg.escape)
  IN IF hasPrefixAt(s, i, cfg.escape)
     THEN IF j > Len(s) THEN Bad ELSE Take(Len(cfg.escape) + 1, <<s[j]>>)
     ELSE IF CodeMatch(cfg, s, i) # {}
     THEN LET e == CHOOSE e \in CodeMatch(cfg, s, i) : TRUE
          IN Take(Len(e.code), e.value)
     ELSE Take(1, <<s[i]>>)

DecodeStep(cfg, s, i) ==
  IF cfg.version = "tce2" THEN DecodeStep2(cfg, s, i) ELSE DecodeStep1(cfg, s, i)

Encode(cfg, s) ==
  LET from[i \in 1..(Len(s) + 1)] ==
        IF i > Len(s) THEN << >>
        ELSE LET t == EncodeStep(cfg, s, i) IN t.out \o from[i + t.width]
  IN from[1]

\* Decode: the content, or an error and no content.
Decode(cfg, s) ==
  LET from[i \in 1..(Len(s) + 1)] ==
        IF i > Len(s) THEN [err |-> "ok", content |-> << >>]
        ELSE LET t == DecodeStep(cfg, s, i)
             IN IF t.err # "ok" THEN [err |-> "failed", content |-> << >>]
                ELSE LET rest == from[i + t.width]
                     IN IF rest.err # "ok" THEN rest
                        ELSE [err |-> "ok", content |-> t.out \o rest.content]
  IN from[1]

\* A text put before what Decode gives, if it gives a text.
Onward(b, rest) == IF rest.err # "ok" THEN rest ELSE [err |-> "ok", content |-> b \o rest.content]

(***************************************************************************)
(* What a dictionary must have for its encoding to be reversible: one      *)
(* symbol of escape, no code that starts with it, no code that another     *)
(* continues, and in tce2 codes of one symbol.  The dictionaries explore   *)
(* generates have it; New does not ask for it.                             *)
(***************************************************************************)
Reversible(cfg) ==
  /\ Accepted(cfg)
  /\ Len(cfg.escape) = 1
  /\ \A e \in EntrySet(cfg) : e.code[1] # cfg.escape[1]
  /\ \A d, e \in EntrySet(cfg) : hasPrefixAt(e.code, 1, d.code) => d = e
  /\ cfg.version = "tce2" => \A e \in EntrySet(cfg) : Len(e.code) = 1
=============================================================================
