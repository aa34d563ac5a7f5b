---------------------------- MODULE CodecProofs ----------------------------
(***************************************************************************)
(* The loops of the codec: the round trip, for every reversible dictionary *)
(* and every text, in both formats; what Decode makes of a view that was   *)
(* cut or written on; and that the loops compute the functions Encode and  *)
(* Decode, for every dictionary that New accepts.                          *)
(***************************************************************************)
EXTENDS CodecLoop, CodecFunctionProofs

LEMMA PrefixLast ==
  ASSUME NEW S, NEW s \in Seq(S), NEW t \in Seq(S)
  PROVE  hasPrefixAt(s \o t, Len(s) + 1, t)
<1>1. /\ Len(s) \in Nat /\ Len(t) \in Nat
      /\ Len(s \o t) = Len(s) + Len(t)
  BY LenProperties, ConcatProperties
<1>2. ASSUME NEW k \in 1..Len(t) PROVE (s \o t)[Len(s) + 1 + k - 1] = t[k]
  <2>1. Len(s) + 1 + k - 1 \in 1..(Len(s) + Len(t)) /\ ~(Len(s) + 1 + k - 1 <= Len(s))
        /\ Len(s) + 1 + k - 1 - Len(s) = k
    BY <1>1
  <2> QED
    BY <2>1, ConcatProperties
<1> QED
  BY <1>1, <1>2 DEF hasPrefixAt

LoopType ==
  /\ cfg \in Configs /\ text \in Texts
  /\ phase \in {"encode", "decode", "done"}
  /\ i \in Nat \ {0} /\ i <= Len(text) + 1
  /\ j \in Nat \ {0}
  /\ out \in Seq(Symbols)
  /\ marks \subseteq (Nat \ {0}) \X (Nat \ {0})

Stages ==
  /\ phase = "encode" => j = 1 /\ back = << >> /\ <<1, 1>> \in marks
  /\ phase # "encode" => i = Len(text) + 1
  /\ phase = "done" => j > Len(out)

\* What a turn of Encode wrote stands in out to the end, and the next turn
\* began where it ended.
Chained(m) ==
  LET t == EncodeStep(cfg, text, m[1])
  IN /\ m[1] \in 1..Len(text)
     /\ Len(t.out) > 0
     /\ hasPrefixAt(out, m[2], t.out)
     /\ <<m[1] + t.width, m[2] + Len(t.out)>> \in marks

Chain ==
  /\ <<i, Len(out) + 1>> \in marks
  /\ \A m \in marks : m = <<i, Len(out) + 1>> \/ Chained(m)

LoopInv == LoopType /\ Stages /\ Chain /\ InStep

AllReversible == \A c \in Configs : Reversible(c)

LEMMA ConfigFacts ==
  ASSUME CodecAssumption, AllReversible, LoopType
  PROVE  CodecType(Symbols, cfg) /\ Reversible(cfg) /\ Accepted(cfg) /\ text \in Seq(Symbols)
BY DEF CodecAssumption, AllReversible, LoopType, CodecType, Reversible

LEMMA LoopInit == ASSUME CodecAssumption, AllReversible, Init PROVE LoopInv
<1>1. text \in Seq(Symbols) /\ Len(text) \in Nat
  BY LenProperties DEF CodecAssumption, Init
<1>2. Len(<< >>) = 0 /\ << >> \in Seq(Symbols)
  OBVIOUS
<1>3. LoopType
  BY <1>1, <1>2 DEF Init, LoopType
<1>4. Stages
  BY DEF Init, Stages
<1>5. Chain
  BY <1>2 DEF Init, Chain
<1>6. InStep
  BY DEF Init, InStep
<1> QED
  BY <1>3, <1>4, <1>5, <1>6 DEF LoopInv

LEMMA EncodeTurnKeeps ==
  ASSUME CodecAssumption, AllReversible, LoopInv, EncodeTurn PROVE LoopInv'
<1> DEFINE t == EncodeStep(cfg, text, i)
<1>1. CodecType(Symbols, cfg) /\ Reversible(cfg) /\ Accepted(cfg) /\ text \in Seq(Symbols)
  BY ConfigFacts DEF LoopInv
<1>2. Len(text) \in Nat /\ i \in 1..Len(text) /\ out \in Seq(Symbols) /\ Len(out) \in Nat
  BY <1>1, LenProperties DEF LoopInv, LoopType, EncodeTurn
<1>3. /\ t.width \in Nat \ {0} /\ i + t.width <= Len(text) + 1
      /\ t.out \in Seq(Symbols) /\ Len(t.out) > 0
  BY <1>1, <1>2, TurnTakes
<1>4. /\ phase = "encode" /\ phase' = phase /\ cfg' = cfg /\ text' = text
      /\ out' = out \o t.out /\ i' = i + t.width /\ j' = j /\ back' = back
      /\ marks' = marks \cup {<<i + t.width, Len(out \o t.out) + 1>>}
  BY DEF EncodeTurn
<1> HIDE DEF t
<1>5. /\ out \o t.out \in Seq(Symbols) /\ Len(out \o t.out) = Len(out) + Len(t.out)
      /\ Len(t.out) \in Nat
  BY <1>2, <1>3, ConcatProperties, LenProperties
<1>6. LoopType'
  <2>1. i + t.width \in Nat \ {0} /\ Len(out \o t.out) + 1 \in Nat \ {0}
    BY <1>2, <1>3, <1>5
  <2> QED
    BY <1>3, <1>4, <1>5, <2>1 DEF LoopInv, LoopType
<1>7. Stages'
  BY <1>4 DEF LoopInv, Stages
<1>8. Chain'
  <2>1. <<i', Len(out') + 1>> \in marks'
    BY <1>4
  <2>2. ASSUME NEW m \in marks, Chained(m) PROVE Chained(m)'
    <3> DEFINE u == EncodeStep(cfg, text, m[1])
    <3>1. /\ m[1] \in 1..Len(text) /\ Len(u.out) > 0 /\ hasPrefixAt(out, m[2], u.out)
          /\ <<m[1] + u.width, m[2] + Len(u.out)>> \in marks
      BY <2>2 DEF Chained
    <3>2. u.out \in Seq(Symbols)
      BY <1>1, <3>1, TurnTakes
    <3>3. m[2] \in Nat \ {0}
      BY DEF LoopInv, LoopType
    <3>4. hasPrefixAt(out \o t.out, m[2], u.out)
      BY <1>2, <1>3, <3>1, <3>2, <3>3, PrefixStays
    <3>5. u' = u
      BY <1>4
    <3> HIDE DEF u
    <3>6. /\ m[1] \in 1..Len(text') /\ Len(u'.out) > 0 /\ hasPrefixAt(out', m[2], u'.out)
          /\ <<m[1] + u'.width, m[2] + Len(u'.out)>> \in marks'
      BY <1>4, <3>1, <3>4, <3>5
    <3> QED
      BY <3>6 DEF Chained, u
  <2>3. ASSUME NEW m, m = <<i, Len(out) + 1>> PROVE Chained(m)'
    <3>1. hasPrefixAt(out \o t.out, Len(out) + 1, t.out)
      BY <1>2, <1>3, PrefixLast
    <3>2. Len(out) + 1 + Len(t.out) = Len(out \o t.out) + 1
      <4>1. \A a, b \in Nat : a + 1 + b = a + b + 1
        OBVIOUS
      <4> QED
        BY <1>2, <1>5, <4>1
    <3>3. /\ i \in 1..Len(text) /\ Len(t.out) > 0 /\ hasPrefixAt(out', Len(out) + 1, t.out)
          /\ <<i + t.width, Len(out) + 1 + Len(t.out)>> \in marks'
      BY <1>2, <1>3, <1>4, <3>1, <3>2
    <3> DEFINE u == EncodeStep(cfg', text', m[1])
    <3>4. m[1] = i /\ m[2] = Len(out) + 1
      BY <2>3
    <3>5. u = t
      BY <1>4, <3>4 DEF t
    <3> HIDE DEF u
    <3>6. /\ m[1] \in 1..Len(text') /\ Len(u.out) > 0 /\ hasPrefixAt(out', m[2], u.out)
          /\ <<m[1] + u.width, m[2] + Len(u.out)>> \in marks'
      BY <1>4, <3>3, <3>4, <3>5
    <3> QED
      BY <3>6 DEF Chained, u
  <2>4. ASSUME NEW m \in marks' PROVE m = <<i', Len(out') + 1>> \/ Chained(m)'
    <3>1. CASE m \in marks
      <4>1. m = <<i, Len(out) + 1>> \/ Chained(m)
        BY <3>1 DEF LoopInv, Chain
      <4> QED
        BY <2>2, <2>3, <3>1, <4>1
    <3>2. CASE m = <<i + t.width, Len(out \o t.out) + 1>>
      BY <1>4, <3>2
    <3> QED
      BY <1>4, <3>1, <3>2
  <2> QED
    BY <2>1, <2>4 DEF Chain
<1>9. InStep'
  BY <1>4 DEF InStep
<1> QED
  BY <1>6, <1>7, <1>8, <1>9 DEF LoopInv

LEMMA EncodeEndKeeps ==
  ASSUME CodecAssumption, AllReversible, LoopInv, EncodeEnd PROVE LoopInv'
<1>1. text \in Seq(Symbols) /\ Len(text) \in Nat
  BY ConfigFacts, LenProperties DEF LoopInv
<1>2. /\ phase = "encode" /\ i > Len(text) /\ phase' = "decode"
      /\ UNCHANGED <<cfg, text, i, out, j, back, marks>>
  BY DEF EncodeEnd
<1>3. j = 1 /\ back = << >> /\ <<1, 1>> \in marks
  BY <1>2 DEF LoopInv, Stages
<1>4. LoopType'
  BY <1>2 DEF LoopInv, LoopType
<1>5. i \in Nat /\ i <= Len(text) + 1
  BY DEF LoopInv, LoopType
<1>6. i = Len(text) + 1
  BY <1>1, <1>2, <1>5
<1>7. Stages'
  BY <1>2, <1>6 DEF Stages
<1>8. Chain'
  BY <1>2 DEF LoopInv, Chain, Chained
<1>9. InStep'
  <2>1. PICK m \in marks : m = <<1, 1>>
    BY <1>3
  <2>2. m[2] = j /\ m[1] - 1 = 0
    BY <1>3, <2>1
  <2>3. SubSeq(text, 1, m[1] - 1) = << >>
    BY <2>2, SubSeqEmpty
  <2>4. m \in marks' /\ m[2] = j' /\ back' = SubSeq(text', 1, m[1] - 1)
    BY <1>2, <1>3, <2>2, <2>3
  <2> QED
    BY <2>4 DEF InStep
<1> QED
  BY <1>4, <1>7, <1>8, <1>9 DEF LoopInv

(***************************************************************************)
(* A turn of Decode stands at a mark that is not the last, undoes the turn *)
(* of Encode that began there, and gets to the next mark.                  *)
(***************************************************************************)
LEMMA DecodeTurnKeeps ==
  ASSUME CodecAssumption, AllReversible, LoopInv, DecodeTurn PROVE LoopInv'
<1>1. CodecType(Symbols, cfg) /\ Reversible(cfg) /\ Accepted(cfg) /\ text \in Seq(Symbols)
  BY ConfigFacts DEF LoopInv
<1>2. /\ phase = "decode" /\ j <= Len(out)
      /\ UNCHANGED <<cfg, text, i, out, marks>>
  BY DEF DecodeTurn
<1>3. out \in Seq(Symbols) /\ Len(out) \in Nat /\ j \in 1..Len(out) /\ Len(text) \in Nat
  BY <1>1, <1>2, LenProperties DEF LoopInv, LoopType
<1>4. PICK m \in marks : m[2] = j /\ back = SubSeq(text, 1, m[1] - 1)
  BY <1>2 DEF LoopInv, InStep
<1> DEFINE u == EncodeStep(cfg, text, m[1])
<1>5. /\ m[1] \in 1..Len(text) /\ Len(u.out) > 0 /\ hasPrefixAt(out, j, u.out)
      /\ <<m[1] + u.width, j + Len(u.out)>> \in marks
  <2>1. m # <<i, Len(out) + 1>>
    BY <1>3, <1>4
  <2>2. Chained(m)
    BY <2>1 DEF LoopInv, Chain
  <2> QED
    BY <1>4, <2>2 DEF Chained
<1>6. /\ m[1] + u.width - 1 <= Len(text) /\ u.width \in Nat \ {0}
      /\ DecodeStep(cfg, out, j) = Take(Len(u.out), SubSeq(text, m[1], m[1] + u.width - 1))
  <2>1. \A o \in Seq(Symbols) : \A k \in 1..Len(o) : hasPrefixAt(o, k, u.out) =>
          /\ m[1] + u.width - 1 <= Len(text) /\ u.width \in Nat \ {0}
          /\ DecodeStep(cfg, o, k) = Take(Len(u.out), SubSeq(text, m[1], m[1] + u.width - 1))
    BY <1>1, <1>5, TurnIsUndone
  <2> HIDE DEF u
  <2> QED
    BY <1>3, <1>5, <2>1
<1>7. u.out \in Seq(Symbols) /\ Len(u.out) \in Nat
  BY <1>1, <1>5, TurnTakes, LenProperties
<1> HIDE DEF u
<1> DEFINE e == Take(Len(u.out), SubSeq(text, m[1], m[1] + u.width - 1))
<1>8. /\ e.err = "ok" /\ e.width = Len(u.out)
      /\ e.out = SubSeq(text, m[1], m[1] + u.width - 1)
  BY DEF Take
<1>9. phase' = phase /\ j' = j + Len(u.out) /\ back' = back \o e.out
  <2> HIDE DEF e
  <2>1. DecodeStep(cfg, out, j) = e
    BY <1>6 DEF e
  <2> QED
    BY <1>8, <2>1 DEF DecodeTurn
<1>10. back' = SubSeq(text, 1, m[1] + u.width - 1)
  <2>1. m[1] \in Nat \ {0}
    BY <1>3, <1>5
  <2>2. SubSeq(text, 1, m[1] - 1) \o SubSeq(text, m[1], m[1] + u.width - 1)
          = SubSeq(text, 1, m[1] + u.width - 1)
    BY <1>1, <1>6, <2>1, Joined
  <2> HIDE DEF e
  <2> QED
    BY <1>4, <1>8, <1>9, <2>2, Zenon
<1>11. LoopType'
  <2>1. j + Len(u.out) \in Nat \ {0}
    BY <1>3, <1>7
  <2> QED
    BY <1>2, <1>9, <2>1 DEF LoopInv, LoopType
<1>12. Stages'
  BY <1>2, <1>9 DEF LoopInv, Stages
<1>13. Chain'
  BY <1>2 DEF LoopInv, Chain, Chained
<1>14. InStep'
  <2>1. PICK n \in marks : n = <<m[1] + u.width, j + Len(u.out)>>
    BY <1>5
  <2>2. n[2] = j + Len(u.out) /\ n[1] = m[1] + u.width
    BY <2>1
  <2>3. n \in marks' /\ n[2] = j' /\ back' = SubSeq(text', 1, n[1] - 1)
    <3> HIDE DEF e
    <3>1. marks' = marks /\ text' = text /\ j' = j + Len(u.out)
      BY <1>2, <1>9
    <3>2. n \in marks' /\ n[2] = j'
      BY <2>2, <3>1
    <3>3. n[1] - 1 = m[1] + u.width - 1
      <4>1. m[1] \in Nat /\ u.width \in Nat
        BY <1>3, <1>5, <1>6
      <4> QED
        BY <2>2, <4>1
    <3>4. back' = SubSeq(text', 1, n[1] - 1)
      BY <1>10, <3>1, <3>3
    <3> QED
      BY <3>2, <3>4
  <2> QED
    BY <2>3 DEF InStep
<1> QED
  BY <1>11, <1>12, <1>13, <1>14 DEF LoopInv

LEMMA DecodeEndKeeps == ASSUME LoopInv, DecodeEnd PROVE LoopInv'
<1>1. /\ phase = "decode" /\ j > Len(out) /\ phase' = "done"
      /\ UNCHANGED <<cfg, text, i, out, j, back, marks>>
  BY DEF DecodeEnd
<1>2. LoopType' /\ Stages'
  BY <1>1 DEF LoopInv, LoopType, Stages
<1>3. Chain' /\ InStep'
  BY <1>1 DEF LoopInv, Chain, Chained, InStep
<1> QED
  BY <1>2, <1>3 DEF LoopInv

LEMMA LoopStep ==
  ASSUME CodecAssumption, AllReversible, LoopInv, [Next]_vars PROVE LoopInv'
<1>1. CASE EncodeTurn
  BY <1>1, EncodeTurnKeeps
<1>2. CASE EncodeEnd
  BY <1>2, EncodeEndKeeps
<1>3. CASE DecodeTurn
  BY <1>3, DecodeTurnKeeps
<1>4. CASE DecodeEnd
  BY <1>4, DecodeEndKeeps
<1>5. CASE UNCHANGED vars
  BY <1>5 DEF vars, LoopInv, LoopType, Stages, Chain, Chained, InStep
<1> QED
  BY <1>1, <1>2, <1>3, <1>4, <1>5 DEF Next

LEMMA LoopRoundTrip == ASSUME CodecAssumption, AllReversible, LoopInv PROVE RoundTrip
<1>1. phase # "failed"
  BY DEF LoopInv, LoopType
<1>2. ASSUME phase = "done" PROVE back = text
  <2>1. text \in Seq(Symbols) /\ Len(text) \in Nat /\ Len(out) \in Nat
    BY ConfigFacts, LenProperties DEF LoopInv, LoopType
  <2>2. PICK m \in marks : m[2] = j /\ back = SubSeq(text, 1, m[1] - 1)
    BY <1>2 DEF LoopInv, InStep
  <2>3. j > Len(out) /\ j \in Nat /\ i = Len(text) + 1
    BY <1>2 DEF LoopInv, Stages, LoopType
  <2>4. ~Chained(m)
    <3> DEFINE n == Len(EncodeStep(cfg, text, m[1]).out)
    <3>1. SUFFICES ASSUME n > 0, j + n - 1 <= Len(out), n \in Nat PROVE FALSE
      <4>1. ASSUME Chained(m) PROVE n > 0 /\ j + n - 1 <= Len(out) /\ n \in Nat
        <5>1. m[1] \in 1..Len(text)
          BY <4>1 DEF Chained
        <5>2. EncodeStep(cfg, text, m[1]).out \in Seq(Symbols)
          BY <2>1, <5>1, ConfigFacts, TurnTakes DEF LoopInv
        <5> QED
          BY <2>2, <4>1, <5>2, LenProperties DEF Chained, hasPrefixAt
      <4> QED
        BY <4>1
    <3> HIDE DEF n
    <3> QED
      BY <2>1, <2>3, <3>1
  <2>5. m = <<i, Len(out) + 1>>
    BY <2>4 DEF LoopInv, Chain
  <2>6. m[1] - 1 = Len(text)
    BY <2>1, <2>3, <2>5
  <2> QED
    BY <2>1, <2>2, <2>6, SubSeqFull
<1> QED
  BY <1>1, <1>2 DEF RoundTrip

LEMMA LoopInvHolds == ASSUME AllReversible PROVE Spec => []LoopInv
<1>1. Init => LoopInv
  BY CodecAssumption, LoopInit
<1>2. LoopInv /\ [Next]_vars => LoopInv'
  BY CodecAssumption, LoopStep
<1> QED
  BY <1>1, <1>2, PTL DEF Spec

(***************************************************************************)
(* For every set of reversible dictionaries, in either format, and every   *)
(* text over any symbols: the loops of Encode and Decode never fail and    *)
(* end with the text they began with.                                      *)
(***************************************************************************)
THEOREM CodecRoundTrip == ASSUME AllReversible PROVE Spec => []RoundTrip
<1>1. LoopInv => RoundTrip
  BY CodecAssumption, LoopRoundTrip
<1> QED
  BY <1>1, LoopInvHolds, PTL

(***************************************************************************)
(* And they are in step all the way: the decoder begins each of its turns  *)
(* where a turn of the encoder began to write (codec.go:144-164, 193-219,  *)
(* against 166-191 and 221-247).                                           *)
(***************************************************************************)
THEOREM DecodeFollowsEncode == ASSUME AllReversible PROVE Spec => []InStep
<1>1. LoopInv => InStep
  BY DEF LoopInv
<1> QED
  BY <1>1, LoopInvHolds, PTL

(***************************************************************************)
(* The loops and the functions.  What Encode still has to put out from i   *)
(* completes what the loop has put out; what Decode still has to give from *)
(* j completes what the loop has back, unless it fails there.              *)
(***************************************************************************)
FunType ==
  /\ cfg \in Configs /\ Accepted(cfg) /\ text \in Texts
  /\ phase \in {"encode", "decode", "done", "failed"}
  /\ i \in 1..(Len(text) + 1) /\ out \in Seq(Symbols)
  /\ j \in 1..(Len(out) + 1) /\ back \in Seq(Symbols)

FunInv ==
  /\ FunType
  /\ out \o EncodeFrom(cfg, text)[i] = EncodeFrom(cfg, text)[1]
  /\ phase = "encode" => j = 1 /\ back = << >>
  /\ phase # "encode" => /\ i = Len(text) + 1
                         /\ DecodeFrom(cfg, out)[1] = Onward(back, DecodeFrom(cfg, out)[j])
  /\ phase = "done" => j = Len(out) + 1
  /\ phase = "failed" => DecodeFrom(cfg, out)[1].err = "failed"

LEMMA FunFacts ==
  ASSUME CodecAssumption, FunType
  PROVE  /\ CodecType(Symbols, cfg) /\ Accepted(cfg)
         /\ text \in Seq(Symbols) /\ Len(text) \in Nat /\ Len(out) \in Nat
<1>1. CodecType(Symbols, cfg) /\ text \in Seq(Symbols) /\ out \in Seq(Symbols)
  BY DEF CodecAssumption, FunType, CodecType
<1> QED
  BY <1>1, LenProperties DEF FunType

LEMMA FunInit == ASSUME CodecAssumption, Init PROVE FunInv
<1>1. << >> \in Seq(Symbols) /\ Len(<< >>) = 0
  BY EmptySeq
<1>2. text \in Seq(Symbols) /\ Len(text) \in Nat
  BY LenProperties DEF Init, CodecAssumption
<1>3. FunType
  BY <1>1, <1>2 DEF Init, FunType
<1>4. EncodeFrom(cfg, text)[1] \in Seq(Symbols)
  <2>1. CodecType(Symbols, cfg) /\ Accepted(cfg)
    BY <1>3, FunFacts
  <2> QED
    BY <1>2, <2>1, EncodeEnds
<1>5. out \o EncodeFrom(cfg, text)[i] = EncodeFrom(cfg, text)[1]
  BY <1>4, ConcatEmptySeq DEF Init
<1> QED
  BY <1>3, <1>5 DEF Init, FunInv

LEMMA FunEncodeTurn == ASSUME CodecAssumption, FunInv, EncodeTurn PROVE FunInv'
<1> DEFINE t == EncodeStep(cfg, text, i)
           E == EncodeFrom(cfg, text)
<1>1. /\ CodecType(Symbols, cfg) /\ Accepted(cfg)
      /\ text \in Seq(Symbols) /\ Len(text) \in Nat /\ Len(out) \in Nat
  BY FunFacts DEF FunInv
<1>2. i \in 1..Len(text) /\ out \in Seq(Symbols) /\ j = 1 /\ back = << >>
  BY <1>1 DEF FunInv, FunType, EncodeTurn
<1>3. /\ t.width \in Nat \ {0} /\ i + t.width \in 1..(Len(text) + 1) /\ t.out \in Seq(Symbols)
  <2>1. t.width \in Nat \ {0} /\ i + t.width <= Len(text) + 1 /\ t.out \in Seq(Symbols)
    BY <1>1, <1>2, TurnTakes
  <2> HIDE DEF t
  <2> QED
    BY <1>1, <1>2, <2>1
<1>4. /\ phase = "encode" /\ phase' = phase /\ cfg' = cfg /\ text' = text
      /\ out' = out \o t.out /\ i' = i + t.width /\ j' = j /\ back' = back
  BY DEF EncodeTurn
<1>5. E[i] = t.out \o E[i + t.width] /\ E[i + t.width] \in Seq(Symbols)
  BY <1>1, <1>2, EncodeGoesOn
<1>6. out \o E[i] = E[1]
  BY DEF FunInv
<1> DEFINE a == t.out
           b == E[i + t.width]
<1>7. (out \o a) \o b = out \o (a \o b)
  <2>1. a \in Seq(Symbols) /\ b \in Seq(Symbols)
    BY <1>3, <1>5
  <2> HIDE DEF a, b
  <2> QED
    BY <1>2, <2>1, ConcatAssociative
<1>8. out' \in Seq(Symbols) /\ Len(out') \in Nat
  BY <1>2, <1>3, <1>4, ConcatProperties, LenProperties
<1>9. out' \o EncodeFrom(cfg', text')[i'] = EncodeFrom(cfg', text')[1]
  BY <1>4, <1>5, <1>6, <1>7
<1> HIDE DEF t, E
<1>10. FunType'
  BY <1>2, <1>3, <1>4, <1>8 DEF FunInv, FunType
<1> QED
  BY <1>2, <1>4, <1>9, <1>10 DEF FunInv

LEMMA FunEncodeEnd == ASSUME CodecAssumption, FunInv, EncodeEnd PROVE FunInv'
<1>1. /\ CodecType(Symbols, cfg) /\ Accepted(cfg)
      /\ text \in Seq(Symbols) /\ Len(text) \in Nat /\ Len(out) \in Nat
  BY FunFacts DEF FunInv
<1>2. /\ phase = "encode" /\ i > Len(text) /\ phase' = "decode"
      /\ UNCHANGED <<cfg, text, i, out, j, back, marks>>
  BY DEF EncodeEnd
<1>3. i = Len(text) + 1 /\ j = 1 /\ back = << >> /\ out \in Seq(Symbols)
  BY <1>1, <1>2 DEF FunInv, FunType
<1>4. DecodeFrom(cfg, out)[1] \in Results(Symbols)
  BY <1>1, <1>3, DecodeEnds
<1>5. DecodeFrom(cfg, out)[1] = Onward(back, DecodeFrom(cfg, out)[j])
  BY <1>3, <1>4, OnwardFromNothing
<1>6. FunType'
  BY <1>2 DEF FunInv, FunType
<1>7. out' \o EncodeFrom(cfg', text')[i'] = EncodeFrom(cfg', text')[1]
  BY <1>2 DEF FunInv
<1>8. i' = Len(text') + 1 /\ DecodeFrom(cfg', out')[1] = Onward(back', DecodeFrom(cfg', out')[j'])
  BY <1>2, <1>3, <1>5
<1> QED
  BY <1>2, <1>6, <1>7, <1>8 DEF FunInv

LEMMA FunDecodeTurn == ASSUME CodecAssumption, FunInv, DecodeTurn PROVE FunInv'
<1> DEFINE t == DecodeStep(cfg, out, j)
           F == DecodeFrom(cfg, out)
           rest == F[j + t.width]
<1>1. /\ CodecType(Symbols, cfg) /\ Accepted(cfg)
      /\ text \in Seq(Symbols) /\ Len(text) \in Nat /\ Len(out) \in Nat
  BY FunFacts DEF FunInv
<1>2. /\ phase = "decode" /\ UNCHANGED <<cfg, text, i, out, marks>>
      /\ out \in Seq(Symbols) /\ back \in Seq(Symbols) /\ j \in 1..Len(out)
  BY <1>1 DEF FunInv, FunType, DecodeTurn
<1>3. F[1] = Onward(back, F[j]) /\ i = Len(text) + 1
  BY <1>2 DEF FunInv
<1>5. EncodeFrom(cfg, text)[1] = out \o EncodeFrom(cfg, text)[i]
  BY DEF FunInv
<1>6. CASE t.err # "ok"
  <2>1. phase' = "failed" /\ j' = j /\ back' = back
    BY <1>6 DEF DecodeTurn
  <2>2. F[j].err = "failed" /\ F[1].err = "failed"
    <3>1. F[j].err = "failed"
      BY <1>1, <1>2, <1>6, DecodeFails
    <3> HIDE DEF F
    <3> QED
      BY <1>3, <3>1 DEF Onward
  <2>3. FunType'
    BY <1>2, <2>1 DEF FunInv, FunType
  <2> HIDE DEF F
  <2>4. DecodeFrom(cfg', out')[1].err = "failed"
        /\ DecodeFrom(cfg', out')[1] = Onward(back', DecodeFrom(cfg', out')[j'])
    BY <1>2, <1>3, <2>1, <2>2 DEF F
  <2>5. out' \o EncodeFrom(cfg', text')[i'] = EncodeFrom(cfg', text')[1] /\ i' = Len(text') + 1
    BY <1>2, <1>3, <1>5
  <2> QED
    BY <2>1, <2>3, <2>4, <2>5 DEF FunInv
<1>7. CASE t.err = "ok"
  <2>1. phase' = "decode" /\ j' = j + t.width /\ back' = back \o t.out
    BY <1>2, <1>7 DEF DecodeTurn
  <2>2. t.width \in Nat \ {0} /\ j + t.width \in 1..(Len(out) + 1) /\ t.out \in Seq(Symbols)
    <3>1. t.width \in Nat \ {0} /\ j + t.width <= Len(out) + 1 /\ t.out \in Seq(Symbols)
      BY <1>1, <1>2, <1>7, DecodeTakes
    <3> HIDE DEF t
    <3> QED
      BY <1>1, <1>2, <3>1
  <2>3. /\ rest \in Results(Symbols)
        /\ F[j] = Onward(t.out, rest)
    BY <1>1, <1>2, <1>7, DecodeGoesOn
  <2> HIDE DEF F, rest
  <2> DEFINE a == t.out
             d == rest.content
  <2>4. a \in Seq(Symbols) /\ d \in Seq(Symbols)
    BY <2>2, <2>3 DEF Results
  <2> HIDE DEF t
  <2>5. (back \o a) \o d = back \o (a \o d)
    <3> HIDE DEF a, d
    <3> QED
      BY <1>2, <2>4, ConcatAssociative
  <2>6. F[1] = Onward(back \o a, rest)
    <3>1. CASE rest.err # "ok"
      BY <1>3, <2>3, <3>1 DEF Onward
    <3>2. CASE rest.err = "ok"
      <4>1. F[j] = [err |-> "ok", content |-> a \o d]
        BY <2>3, <3>2 DEF Onward
      <4>2. F[1] = [err |-> "ok", content |-> back \o (a \o d)]
        BY <1>3, <4>1 DEF Onward
      <4> QED
        BY <2>5, <3>2, <4>2 DEF Onward
    <3> QED
      BY <3>1, <3>2
  <2>7. DecodeFrom(cfg', out')[1] = Onward(back', DecodeFrom(cfg', out')[j'])
    BY <1>2, <2>1, <2>6 DEF F, rest
  <2>8. back' \in Seq(Symbols)
    BY <1>2, <2>1, <2>2, ConcatProperties
  <2>9. FunType'
    BY <1>2, <2>1, <2>2, <2>8 DEF FunInv, FunType
  <2>10. out' \o EncodeFrom(cfg', text')[i'] = EncodeFrom(cfg', text')[1] /\ i' = Len(text') + 1
    BY <1>2, <1>3, <1>5
  <2> QED
    BY <2>1, <2>7, <2>9, <2>10 DEF FunInv
<1> QED
  BY <1>6, <1>7

LEMMA FunDecodeEnd == ASSUME CodecAssumption, FunInv, DecodeEnd PROVE FunInv'
<1>1. /\ phase = "decode" /\ j > Len(out) /\ phase' = "done"
      /\ UNCHANGED <<cfg, text, i, out, j, back, marks>>
  BY DEF DecodeEnd
<1>2. j = Len(out) + 1
  BY <1>1, FunFacts DEF FunInv, FunType
<1>3. FunType'
  BY <1>1 DEF FunInv, FunType
<1>4. j' = Len(out') + 1
  BY <1>1, <1>2
<1>5. /\ out' \o EncodeFrom(cfg', text')[i'] = EncodeFrom(cfg', text')[1]
      /\ i' = Len(text') + 1
      /\ DecodeFrom(cfg', out')[1] = Onward(back', DecodeFrom(cfg', out')[j'])
  BY <1>1 DEF FunInv
<1> QED
  BY <1>1, <1>3, <1>4, <1>5 DEF FunInv

LEMMA FunStep == ASSUME CodecAssumption, FunInv, [Next]_vars PROVE FunInv'
<1>1. CASE EncodeTurn
  BY <1>1, FunEncodeTurn
<1>2. CASE EncodeEnd
  BY <1>2, FunEncodeEnd
<1>3. CASE DecodeTurn
  BY <1>3, FunDecodeTurn
<1>4. CASE DecodeEnd
  BY <1>4, FunDecodeEnd
<1>5. CASE UNCHANGED vars
  BY <1>5 DEF vars, FunInv, FunType
<1> QED
  BY <1>1, <1>2, <1>3, <1>4, <1>5 DEF Next

LEMMA FunSays == ASSUME CodecAssumption, FunInv PROVE LoopsAreFunctions
<1>1. /\ CodecType(Symbols, cfg) /\ Accepted(cfg)
      /\ text \in Seq(Symbols) /\ out \in Seq(Symbols) /\ back \in Seq(Symbols)
  BY FunFacts DEF FunInv, FunType
<1>2. ASSUME phase # "encode" PROVE out = Encode(cfg, text)
  <2>1. EncodeFrom(cfg, text)[i] = << >>
    BY <1>1, <1>2, EncodeEnds DEF FunInv
  <2>2. out = EncodeFrom(cfg, text)[1]
    BY <1>1, <2>1, ConcatEmptySeq DEF FunInv
  <2> QED
    BY <2>2, EncodeIsFrom
<1>3. ASSUME phase = "done" PROVE Decode(cfg, out) = [err |-> "ok", content |-> back]
  <2>1. DecodeFrom(cfg, out)[j] = [err |-> "ok", content |-> << >>]
    BY <1>1, <1>3, DecodeEnds DEF FunInv
  <2>2. back \o << >> = back
    BY <1>1, ConcatEmptySeq
  <2>3. DecodeFrom(cfg, out)[1] = Onward(back, DecodeFrom(cfg, out)[j])
    BY <1>3 DEF FunInv
  <2>4. DecodeFrom(cfg, out)[1] = [err |-> "ok", content |-> back]
    BY <2>1, <2>2, <2>3 DEF Onward
  <2> QED
    BY <2>4, DecodeIsFrom
<1>4. ASSUME phase = "failed" PROVE Decode(cfg, out).err = "failed"
  BY <1>4, DecodeIsFrom DEF FunInv
<1> QED
  BY <1>2, <1>3, <1>4 DEF LoopsAreFunctions

LEMMA FunInvHolds == Spec => []FunInv
<1>1. Init => FunInv
  BY CodecAssumption, FunInit
<1>2. FunInv /\ [Next]_vars => FunInv'
  BY CodecAssumption, FunStep
<1> QED
  BY <1>1, <1>2, PTL DEF Spec

(***************************************************************************)
(* For every accepted dictionary, reversible or not, and every text: the   *)
(* loops, turn by turn, end with what the functions Encode and Decode give *)
(* as a whole, or fail where Decode fails (codec.go:144-164, 166-191,      *)
(* 193-219 and 221-247).  So what is proved of the loops is true of the    *)
(* functions the pipeline calls.                                           *)
(***************************************************************************)
THEOREM LoopsComputeFunctions == Spec => []LoopsAreFunctions
<1>1. FunInv => LoopsAreFunctions
  BY CodecAssumption, FunSays
<1> QED
  BY <1>1, FunInvHolds, PTL

\* What a view is once it is written.
LEMMA ViewFacts ==
  ASSUME CodecAssumption, AllReversible, FunInv, phase # "encode"
  PROVE  /\ CodecType(Symbols, cfg) /\ Reversible(cfg) /\ text \in Seq(Symbols)
         /\ out = Encode(cfg, text)
<1>1. CodecType(Symbols, cfg) /\ text \in Seq(Symbols)
  BY FunFacts DEF FunInv
<1>2. Reversible(cfg)
  BY DEF AllReversible, FunInv, FunType
<1>3. out = Encode(cfg, text)
  BY FunSays DEF LoopsAreFunctions
<1> QED
  BY <1>1, <1>2, <1>3

(***************************************************************************)
(* For every set of reversible dictionaries, in either format, every text  *)
(* and everything an editor may write after its view (a lone escape, half  *)
(* a code, an unknown code): what Decode makes of the whole is the text    *)
(* before what it makes of the addition alone, or a refusal if it refuses  *)
(* that (codec.go:166-191, 221-247).                                       *)
(***************************************************************************)
THEOREM EditsAfterKeepText == ASSUME AllReversible PROVE Spec => []EditKeepsTextBefore
<1>1. FunInv => EditKeepsTextBefore
  <2> SUFFICES ASSUME FunInv, phase # "encode", NEW tail \in Tails
               PROVE  Decode(cfg, out \o tail) = Onward(text, Decode(cfg, tail))
    BY DEF EditKeepsTextBefore
  <2>1. tail \in Seq(Symbols)
    BY CodecAssumption DEF CodecAssumption
  <2>2. /\ CodecType(Symbols, cfg) /\ Reversible(cfg) /\ text \in Seq(Symbols)
        /\ out = Encode(cfg, text)
    BY CodecAssumption, ViewFacts
  <2> QED
    BY <2>1, <2>2, TailKeepsText
<1> QED
  BY <1>1, FunInvHolds, PTL

(***************************************************************************)
(* And a view cut after any of its symbols, as a save that stops half-way  *)
(* leaves it, is refused or decodes to a beginning of the text.            *)
(***************************************************************************)
THEOREM CutsGiveBeginnings == ASSUME AllReversible PROVE Spec => []CutViewIsPrefix
<1>1. FunInv => CutViewIsPrefix
  <2> SUFFICES ASSUME FunInv, phase # "encode", NEW k \in 0..Len(out),
                      Decode(cfg, SubSeq(out, 1, k)).err = "ok"
               PROVE  hasPrefixAt(text, 1, Decode(cfg, SubSeq(out, 1, k)).content)
    BY DEF CutViewIsPrefix
  <2>1. /\ CodecType(Symbols, cfg) /\ Reversible(cfg) /\ text \in Seq(Symbols)
        /\ out = Encode(cfg, text)
    BY CodecAssumption, ViewFacts
  <2> QED
    BY <2>1, CutViewDecodes
<1> QED
  BY <1>1, FunInvHolds, PTL
=============================================================================
