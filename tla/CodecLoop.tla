----------------------------- MODULE CodecLoop -----------------------------
(***************************************************************************)
(* The loops of the codec, turn by turn: a text is encoded, then what came *)
(* out is decoded.  This is the round trip a file makes when it is served  *)
(* and saved unchanged.                                                    *)
(***************************************************************************)
EXTENDS Codec

CONSTANTS
  Symbols,   \* bytes or runes
  Configs,   \* the codec configurations
  Texts,     \* the files
  Tails      \* what an editor may leave of a view, or write, after a part of it

ASSUME CodecAssumption ==
  /\ Texts \subseteq Seq(Symbols)
  /\ Tails \subseteq Seq(Symbols)
  /\ \A c \in Configs :
       /\ c.version \in Versions
       /\ c.escape \in Seq(Symbols)
       /\ c.entries \in Seq([code : Seq(Symbols), value : Seq(Symbols)])

VARIABLES
  cfg,     \* the codec in use
  text,    \* the file
  phase,   \* "encode", "decode", "done" or "failed"
  i, out,  \* the loop of Encode: the next position in text, the output so far
  j, back, \* the loop of Decode over out
  marks    \* where the turns of Encode began: <<position in text, position in out>>

vars == <<cfg, text, phase, i, out, j, back, marks>>

Init ==
  /\ cfg \in Configs /\ Accepted(cfg)
  /\ text \in Texts
  /\ phase = "encode"
  /\ i = 1 /\ out = << >>
  /\ j = 1 /\ back = << >>
  /\ marks = {<<1, 1>>}

EncodeTurn ==
  /\ phase = "encode" /\ i <= Len(text)
  /\ LET t == EncodeStep(cfg, text, i)
     IN /\ out' = out \o t.out
        /\ i' = i + t.width
        /\ marks' = marks \cup {<<i + t.width, Len(out \o t.out) + 1>>}
  /\ UNCHANGED <<cfg, text, phase, j, back>>

EncodeEnd ==
  /\ phase = "encode" /\ i > Len(text)
  /\ phase' = "decode"
  /\ UNCHANGED <<cfg, text, i, out, j, back, marks>>

\* Faulty: the position advances by one whatever the turn took.
DecodeTurnByOne ==
  /\ phase = "decode" /\ j <= Len(out)
  /\ LET t == DecodeStep(cfg, out, j)
     IN IF t.err # "ok"
        THEN phase' = "failed" /\ UNCHANGED <<j, back>>
        ELSE /\ back' = back \o t.out
             /\ j' = j + 1
             /\ UNCHANGED phase
  /\ UNCHANGED <<cfg, text, i, out, marks>>

DecodeTurn ==
  /\ phase = "decode" /\ j <= Len(out)
  /\ LET t == DecodeStep(cfg, out, j)
     IN IF t.err # "ok"
        THEN phase' = "failed" /\ UNCHANGED <<j, back>>
        ELSE /\ back' = back \o t.out
             /\ j' = j + t.width
             /\ UNCHANGED phase
  /\ UNCHANGED <<cfg, text, i, out, marks>>

\* Faulty: the end of the input is missed by one.
DecodeEndLate ==
  /\ phase = "decode" /\ j > Len(out) + 1
  /\ phase' = "done"
  /\ UNCHANGED <<cfg, text, i, out, j, back, marks>>

DecodeEnd ==
  /\ phase = "decode" /\ j > Len(out)
  /\ phase' = "done"
  /\ UNCHANGED <<cfg, text, i, out, j, back, marks>>

Next == EncodeTurn \/ EncodeEnd \/ DecodeTurn \/ DecodeEnd

Spec == Init /\ [][Next]_vars

FairSpec == Spec /\ WF_vars(Next)

-----------------------------------------------------------------------------
(***************************************************************************)
(* "Reversible transport codecs" (docs/DEEP_DIVE.md:12): what Encode makes *)
(* of a file, Decode accepts and turns back into that file.                *)
(***************************************************************************)
RoundTrip == phase # "failed" /\ (phase = "done" => back = text)

(***************************************************************************)
(* Decoding follows the turns of encoding: whenever it is about to read a  *)
(* symbol, some turn of Encode began to write there, and what it has so    *)
(* far is the text up to where that turn began to read.                    *)
(***************************************************************************)
InStep ==
  phase \in {"decode", "done"} =>
    \E m \in marks : m[2] = j /\ back = SubSeq(text, 1, m[1] - 1)

(***************************************************************************)
(* The two formulations of the codec agree: the loops end with what the    *)
(* functions Encode and Decode, which the pipeline uses, give.             *)
(***************************************************************************)
LoopsAreFunctions ==
  /\ phase # "encode" => out = Encode(cfg, text)
  /\ phase = "done" => Decode(cfg, out) = [err |-> "ok", content |-> back]
  /\ phase = "failed" => Decode(cfg, out).err = "failed"

(***************************************************************************)
(* Views a client has edited.  What follows the view of a text, be it a    *)
(* lone escape or half a code, does not change how the view before it      *)
(* decodes: the whole is refused, if the rest is, or it is the text and    *)
(* what the rest decodes to.                                               *)
(***************************************************************************)
EditKeepsTextBefore ==
  phase \in {"done", "failed"} =>
    \A tail \in Tails : Decode(cfg, out \o tail) = Onward(text, Decode(cfg, tail))

(***************************************************************************)
(* A view cut after any of its symbols, also inside an escape pair,        *)
(* between an escape and its code or in the middle of a code, is refused   *)
(* or decodes to a beginning of the text: to nothing the file did not have.*)
(***************************************************************************)
CutViewIsPrefix ==
  phase \in {"done", "failed"} =>
    \A k \in 0..Len(out) :
      LET r == Decode(cfg, SubSeq(out, 1, k))
      IN r.err = "ok" => hasPrefixAt(text, 1, r.content)

\* Both loops end: every turn takes at least one symbol.
Ends == <>(phase \in {"done", "failed"})
=============================================================================
