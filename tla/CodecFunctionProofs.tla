------------------------- MODULE CodecFunctionProofs -------------------------
(***************************************************************************)
(* What the operators of Codec compute, for every text: lemmas about one   *)
(* turn of Encode and of Decode, and from them that Decode, as a function, *)
(* undoes Encode.                                                          *)
(*                                                                         *)
(* The recursive functions need induction over data.  It is had from the   *)
(* least element of a set of numbers: the numbers for which a statement is *)
(* false are such a set, and its least element contradicts the induction   *)
(* step.                                                                   *)
(***************************************************************************)
EXTENDS Codec, SequenceTheorems, WellFoundedInduction, TLAPS

LEMMA LeastNumber == ASSUME NEW N, N \subseteq Nat, N # {}
                     PROVE \E n \in N : \A k \in N : n <= k
<1> DEFINE R == OpToRel(<, Nat)
<1>1. IsWellFoundedOn(R, Nat)
  BY NatLessThanWellFounded
<1>2. \A k, n \in Nat : k < n => <<k, n>> \in R
  BY DEF OpToRel
<1> HIDE DEF R
<1>3. PICK n \in N : \A k \in N : ~(<<k, n>> \in R)
  BY <1>1, WFMin
<1>4. ASSUME NEW k \in N PROVE n <= k
  <2>1. k \in Nat /\ n \in Nat
    OBVIOUS
  <2>2. ~(k < n)
    BY <1>2, <1>3, <2>1
  <2> QED
    BY <2>1, <2>2
<1> QED
  BY <1>4

\* Induction from 0 to N, with a set for the predicate.
LEMMA Forwards ==
  ASSUME NEW N \in Nat, NEW T, 0 \in T, \A k \in 0..N : k \in T /\ k < N => k + 1 \in T
  PROVE \A k \in 0..N : k \in T
<1> SUFFICES ASSUME NEW j \in 0..N, j \notin T PROVE FALSE
  OBVIOUS
<1> DEFINE out == {n \in Nat : n <= N /\ n \notin T}
<1>1. out \subseteq Nat /\ j \in out
  OBVIOUS
<1>2. PICK n \in out : \A k \in out : n <= k
  <2> HIDE DEF out
  <2> QED
    BY <1>1, LeastNumber
<1>3. n \in Nat /\ n <= N /\ n \notin T /\ n # 0
  OBVIOUS
<1>4. n - 1 \in Nat /\ n - 1 <= N /\ ~(n <= n - 1)
  BY <1>3
<1>5. n - 1 \in T
  BY <1>2, <1>4
<1> QED
  BY <1>3, <1>5

\* Induction on the distance from N + 1, with a set for the predicate.
LEMMA Backwards ==
  ASSUME NEW N \in Nat, NEW T,
         \A i \in 1..(N + 1) : (\A k \in 1..(N + 1) : i < k => k \in T) => i \in T
  PROVE \A i \in 1..(N + 1) : i \in T
<1> SUFFICES ASSUME NEW j \in 1..(N + 1), j \notin T PROVE FALSE
  OBVIOUS
<1> DEFINE far == {n \in Nat : n <= N /\ N + 1 - n \notin T}
<1>1. far \subseteq Nat
  OBVIOUS
<1>2. N + 1 - j \in Nat /\ N + 1 - j <= N /\ N + 1 - (N + 1 - j) = j
  OBVIOUS
<1>3. N + 1 - j \in far
  BY <1>2
<1>4. PICK n \in far : \A k \in far : n <= k
  <2> HIDE DEF far
  <2> QED
    BY <1>1, <1>3, LeastNumber
<1>5. n \in Nat /\ n <= N /\ N + 1 - n \notin T /\ N + 1 - n \in 1..(N + 1)
  OBVIOUS
<1>6. ASSUME NEW k \in 1..(N + 1), N + 1 - n < k PROVE k \in T
  <2>1. N + 1 - k \in Nat /\ N + 1 - k <= N /\ N + 1 - k < n /\ N + 1 - (N + 1 - k) = k
    BY <1>5, <1>6
  <2>2. N + 1 - k \notin far
    BY <1>4, <1>5, <2>1
  <2> QED
    BY <2>1, <2>2
<1> QED
  BY <1>5, <1>6

(***************************************************************************)
(* A recursive definition in which f[i] depends on f at one other point,   *)
(* next[i], of a smaller measure m, has a solution.                        *)
(***************************************************************************)
Descends(D, V, B, m, leaf, base, next, op) ==
  /\ B \in Nat /\ m \in [D -> 0..B] /\ leaf \in SUBSET D
  /\ base \in [D -> V] /\ next \in [D -> D] /\ op \in [D -> [V -> V]]
  /\ \A i \in D \ leaf : m[next[i]] < m[i]

Solves(f, D, leaf, base, next, op) ==
  \A i \in D : f[i] = IF i \in leaf THEN base[i] ELSE op[i][f[next[i]]]

LEMMA Recursion ==
  ASSUME NEW D, NEW V, NEW B, NEW m, NEW leaf, NEW base, NEW next, NEW op,
         Descends(D, V, B, m, leaf, base, next, op)
  PROVE \E f \in [D -> V] : Solves(f, D, leaf, base, next, op)
<1> USE DEF Descends, Solves
<1> DEFINE Low(n) == {i \in D : m[i] < n}
           Good(g, n) == \A i \in Low(n) : g[i] = IF i \in leaf THEN base[i] ELSE op[i][g[next[i]]]
           Has(n) == \E g \in [Low(n) -> V] : Good(g, n)
           bad == {n \in Nat : ~Has(n)}
<1>1. SUFFICES bad = {}
  <2>1. Low(B + 1) = D /\ B + 1 \in Nat
    OBVIOUS
  <2>2. ASSUME bad = {} PROVE \E g \in [Low(B + 1) -> V] : Good(g, B + 1)
    BY <2>1, <2>2
  <2> QED
    BY <2>1, <2>2
<1>2. ASSUME bad # {} PROVE FALSE
  <2>1. PICK n \in bad : \A k \in bad : n <= k
    <3>1. bad \subseteq Nat
      OBVIOUS
    <3> HIDE DEF bad
    <3> QED
      BY <1>2, <3>1, LeastNumber
  <2>2. n \in Nat /\ ~Has(n)
    OBVIOUS
  <2>3. n # 0
    <3>1. Low(0) = {}
      OBVIOUS
    <3> DEFINE g == [i \in Low(0) |-> i]
    <3>2. g \in [Low(0) -> V] /\ Good(g, 0)
      BY <3>1
    <3> HIDE DEF g, Low, Good
    <3>3. Has(0)
      BY <3>2
    <3> HIDE DEF Has
    <3> QED
      BY <2>2, <3>3
  <2>4. PICK g \in [Low(n - 1) -> V] : Good(g, n - 1)
    <3>1. n - 1 \in Nat /\ ~(n <= n - 1)
      BY <2>2, <2>3
    <3>2. n - 1 \notin bad
      BY <2>1, <3>1
    <3> HIDE DEF Low, Good
    <3>3. Has(n - 1)
      BY <3>1, <3>2
    <3> QED
      BY <3>3
  <2> DEFINE h == [i \in Low(n) |-> IF i \in leaf THEN base[i] ELSE op[i][g[next[i]]]]
  <2>5. \A i \in Low(n) \ leaf : next[i] \in Low(n - 1)
    BY <2>2
  <2>6. h \in [Low(n) -> V]
    BY <2>5
  <2>7. \A i \in Low(n - 1) : i \in Low(n) /\ h[i] = g[i]
    BY <2>2, <2>4
  <2>8. Good(h, n)
    BY <2>5, <2>7
  <2> QED
    BY <2>2, <2>6, <2>8
<1> QED
  BY <1>2

-----------------------------------------------------------------------------
(* One turn. *)

LEMMA TwoSymbols == ASSUME NEW S, NEW x \in S, NEW y \in S PROVE <<x>> \o <<y>> = <<x, y>>
<1> DEFINE u == <<x>> \o <<y>>
           v == <<x, y>>
<1>1. <<x>> \in Seq(S) /\ <<y>> \in Seq(S) /\ Len(<<x>>) = 1 /\ Len(<<y>>) = 1
  OBVIOUS
<1>2. v \in Seq(S) /\ Len(v) = 2 /\ v[1] = x /\ v[2] = y
  OBVIOUS
<1>3. u \in Seq(S) /\ Len(u) = 2 /\ u[1] = x /\ u[2] = y
  BY <1>1, ConcatProperties
<1> HIDE DEF u, v
<1>4. \A k \in 1..Len(u) : u[k] = v[k]
  BY <1>2, <1>3
<1>5. u = v
  BY <1>2, <1>3, <1>4, SeqEqual
<1> QED
  BY <1>5 DEF u, v

LEMMA OneSymbol == ASSUME NEW S, NEW s \in Seq(S), NEW p \in 1..Len(s)
                   PROVE SubSeq(s, p, p) = <<s[p]>>
<1> DEFINE u == SubSeq(s, p, p)
           v == <<s[p]>>
<1>1. s[p] \in S
  OBVIOUS
<1>2. v \in Seq(S) /\ Len(v) = 1 /\ v[1] = s[p]
  BY <1>1
<1>3. u \in Seq(S) /\ Len(u) = 1 /\ u[1] = s[p]
  <2>1. \A k \in p..p : s[k] \in S
    BY <1>1
  <2> QED
    BY <2>1, SubSeqProperties
<1> HIDE DEF u, v
<1>4. \A k \in 1..Len(u) : u[k] = v[k]
  BY <1>2, <1>3
<1>5. u = v
  BY <1>2, <1>3, <1>4, SeqEqual
<1> QED
  BY <1>5 DEF u, v

LEMMA OneBefore == ASSUME NEW S, NEW x \in S, NEW c \in Seq(S)
                   PROVE  /\ <<x>> \o c \in Seq(S)
                          /\ Len(<<x>> \o c) = 1 + Len(c)
                          /\ (<<x>> \o c)[1] = x
                          /\ \A k \in 1..Len(c) : (<<x>> \o c)[k + 1] = c[k]
<1> DEFINE u == <<x>>
<1>1. u \in Seq(S) /\ Len(u) = 1 /\ u[1] = x
  OBVIOUS
<1> HIDE DEF u
<1>2. /\ u \o c \in Seq(S) /\ Len(u \o c) = 1 + Len(c) /\ (u \o c)[1] = x
      /\ \A k \in 1..Len(c) : (u \o c)[k + 1] = c[k]
  <2>1. u \o c \in Seq(S) /\ Len(u \o c) = Len(u) + Len(c)
        /\ \A k \in 1..Len(u) + Len(c) : (u \o c)[k] = IF k <= Len(u) THEN u[k] ELSE c[k - Len(u)]
    BY <1>1, ConcatProperties
  <2>2. Len(c) \in Nat
    BY LenProperties
  <2>3. ASSUME NEW k \in 1..Len(c) PROVE (u \o c)[k + 1] = c[k]
    BY <1>1, <2>1, <2>2
  <2> QED
    BY <1>1, <2>1, <2>2, <2>3
<1> QED
  BY <1>2 DEF u

CodecType(S, c) ==
  /\ c.version \in Versions
  /\ c.escape \in Seq(S)
  /\ c.entries \in Seq([code : Seq(S), value : Seq(S)])

LEMMA EntryType == ASSUME NEW S, NEW c, CodecType(S, c), NEW e \in EntrySet(c)
                   PROVE e.code \in Seq(S) /\ e.value \in Seq(S)
<1>1. PICK k \in 1..Len(c.entries) : e = c.entries[k]
  BY DEF EntrySet
<1>2. c.entries[k] \in [code : Seq(S), value : Seq(S)]
  BY ElementOfSeq DEF CodecType
<1> QED
  BY <1>1, <1>2

LEMMA AcceptedCode == ASSUME NEW S, NEW c, CodecType(S, c), Accepted(c), NEW e \in EntrySet(c)
                      PROVE Len(e.code) > 0
  BY DEF CodecType, EntrySet, Accepted

(***************************************************************************)
(* Two codes that occur at one place are one entry, when no code continues *)
(* another: so the decoder finds the entry the encoder wrote, whatever     *)
(* follows it.                                                             *)
(***************************************************************************)
LEMMA OneCodeThere ==
  ASSUME NEW S, NEW c, CodecType(S, c), Reversible(c), NEW s \in Seq(S), NEW q \in Nat \ {0},
         NEW e \in EntrySet(c), hasPrefixAt(s, q, e.code)
  PROVE  CodeMatch(c, s, q) = {e}
<1>1. ASSUME NEW d \in EntrySet(c), hasPrefixAt(s, q, d.code) PROVE d = e
  <2>1. d.code \in Seq(S) /\ e.code \in Seq(S)
    BY EntryType
  <2>2. CASE Len(d.code) <= Len(e.code)
    <3>1. hasPrefixAt(e.code, 1, d.code)
      BY <1>1, <2>1, <2>2 DEF hasPrefixAt
    <3> QED
      BY <3>1 DEF Reversible
  <2>3. CASE Len(e.code) <= Len(d.code)
    <3>1. hasPrefixAt(d.code, 1, e.code)
      BY <1>1, <2>1, <2>3 DEF hasPrefixAt
    <3> QED
      BY <3>1 DEF Reversible
  <2> QED
    BY <2>1, <2>2, <2>3
<1>2. {d \in EntrySet(c) : hasPrefixAt(s, q, d.code)} = {e}
  BY <1>1
<1>3. Len(e.code) <= Len(e.code)
  BY EntryType
<1> QED
  BY <1>2, <1>3 DEF CodeMatch

(***************************************************************************)
(* What a turn of Encode writes, with a reversible dictionary: a doubled   *)
(* escape, an escaped code symbol, the code of an entry, or the symbol.    *)
(***************************************************************************)
LEMMA EncodeStepCases ==
  ASSUME NEW S, NEW c, CodecType(S, c), Reversible(c), NEW s \in Seq(S), NEW p \in 1..Len(s)
  PROVE  LET t == EncodeStep(c, s, p)
             x == c.escape[1]
         IN \/ s[p] = x /\ t = Take(1, <<x, x>>)
            \/ /\ s[p] # x /\ c.version = "tce2"
               /\ \E e \in EntrySet(c) : e.code = <<s[p]>> /\ t = Take(1, <<x>> \o e.code)
            \/ /\ s[p] # x
               /\ \E e \in EntrySet(c) :
                    /\ Len(e.value) > 0 /\ hasPrefixAt(s, p, e.value)
                    /\ t = Take(Len(e.value), IF c.version = "tce1" THEN <<x>> \o e.code ELSE e.code)
            \/ /\ s[p] # x /\ t = Take(1, <<s[p]>>)
               /\ c.version = "tce2" => CodeMatch(c, s, p) = {}
<1> DEFINE x == c.escape[1]
<1>1. c.escape \in Seq(S) /\ Len(c.escape) = 1
  BY DEF CodecType, Reversible
<1>2. c.escape = <<x>>
  BY <1>1
<1>3. hasPrefixAt(s, p, c.escape) <=> s[p] = x
  BY <1>1 DEF hasPrefixAt
<1>4. CASE s[p] = x
  <2>1. <<x>> \o <<x>> = <<x, x>>
    BY <1>1, ElementOfSeq, TwoSymbols
  <2>2. EncodeStep(c, s, p) = Take(Len(c.escape), c.escape \o c.escape)
    BY <1>3, <1>4 DEF EncodeStep
  <2>3. EncodeStep(c, s, p) = Take(1, <<x, x>>)
    BY <1>1, <1>2, <2>1, <2>2
  <2> QED
    BY <1>4, <2>3
<1>5. CASE s[p] # x /\ c.version = "tce2" /\ CodeMatch(c, s, p) # {}
  <2>1. PICK e \in CodeMatch(c, s, p) : EncodeStep(c, s, p) = Take(Len(e.code), c.escape \o e.code)
    BY <1>3, <1>5 DEF EncodeStep
  <2>2. e \in EntrySet(c) /\ hasPrefixAt(s, p, e.code) /\ Len(e.code) = 1 /\ e.code \in Seq(S)
    BY <1>5, <2>1, EntryType DEF CodeMatch, Reversible
  <2>3. e.code = <<s[p]>>
    BY <2>2 DEF hasPrefixAt
  <2> QED
    BY <1>2, <1>5, <2>1, <2>2, <2>3
<1>6. CASE s[p] # x /\ ~(c.version = "tce2" /\ CodeMatch(c, s, p) # {}) /\ ValueMatch(c, s, p) # {}
  <2>1. PICK e \in ValueMatch(c, s, p) :
          EncodeStep(c, s, p) = Take(Len(e.value), IF c.version = "tce1" THEN c.escape \o e.code ELSE e.code)
    BY <1>3, <1>6 DEF EncodeStep
  <2> QED
    BY <1>2, <1>6, <2>1 DEF ValueMatch
<1>7. CASE s[p] # x /\ ~(c.version = "tce2" /\ CodeMatch(c, s, p) # {}) /\ ValueMatch(c, s, p) = {}
  BY <1>3, <1>7 DEF EncodeStep
<1> QED
  BY <1>4, <1>5, <1>6, <1>7

(***************************************************************************)
(* One turn of Encode undone by one turn of Decode: wherever its output    *)
(* stands, the decoder takes exactly that output and gives back exactly    *)
(* the symbols the turn had taken.                                         *)
(***************************************************************************)
THEOREM TurnIsUndone ==
  ASSUME NEW S, NEW c, CodecType(S, c), Reversible(c),
         NEW s \in Seq(S), NEW p \in 1..Len(s),
         NEW o \in Seq(S), NEW q \in 1..Len(o),
         hasPrefixAt(o, q, EncodeStep(c, s, p).out)
  PROVE  /\ p + EncodeStep(c, s, p).width - 1 <= Len(s)
         /\ EncodeStep(c, s, p).width \in Nat \ {0}
         /\ DecodeStep(c, o, q) = Take(Len(EncodeStep(c, s, p).out),
                                       SubSeq(s, p, p + EncodeStep(c, s, p).width - 1))
<1> DEFINE x == c.escape[1]
           t == EncodeStep(c, s, p)
           taken == SubSeq(s, p, p + t.width - 1)
           Undone == /\ p + t.width - 1 <= Len(s) /\ t.width \in Nat \ {0}
                     /\ DecodeStep(c, o, q) = Take(Len(t.out), taken)
<1>w. hasPrefixAt(o, q, t.out)
  OBVIOUS
<1>1. c.escape \in Seq(S) /\ Len(c.escape) = 1 /\ c.escape = <<x>> /\ c.version \in Versions
  BY DEF CodecType, Reversible
<1>s. x \in S /\ s[p] \in S /\ SubSeq(s, p, p) = <<s[p]>>
  BY <1>1, ElementOfSeq, OneSymbol
<1> SUFFICES Undone
  OBVIOUS
<1> HIDE DEF t
<1>2. \A k \in 1..Len(o) : hasPrefixAt(o, k, c.escape) <=> o[k] = x
  BY <1>1 DEF hasPrefixAt
<1>n. ASSUME t.width = 1, NEW d, Len(t.out) = d, NEW r, taken = r, DecodeStep(c, o, q) = Take(d, r)
      PROVE Undone
  <2>1. p + t.width - 1 <= Len(s) /\ t.width \in Nat \ {0}
    <3>1. Len(s) \in Nat /\ p \in Nat /\ p <= Len(s)
      BY LenProperties
    <3> QED
      BY <1>n, <3>1
  <2> QED
    BY <1>n, <2>1, Zenon
<1>3. CASE s[p] = x /\ t = Take(1, <<x, x>>)
  <2>0. t.width = 1 /\ t.out = <<x, x>>
    BY <1>3 DEF Take
  <2>1. t.width = 1 /\ Len(t.out) = 2 /\ taken = <<x>>
    <3>1. p + t.width - 1 = p
      BY <2>0
    <3>2. Len(<<x, x>>) = 2
      OBVIOUS
    <3> QED
      BY <1>3, <1>s, <2>0, <3>1, <3>2
  <2>2. q + 1 <= Len(o) /\ o[q] = x /\ o[q + 1] = x
    BY <1>3, <1>w DEF hasPrefixAt, Take
  <2>3. hasPrefixAt(o, q, c.escape) /\ hasPrefixAt(o, q + 1, c.escape)
    BY <1>2, <2>2
  <2>4. DecodeStep(c, o, q) = Take(2, <<x>>)
    BY <1>1, <2>2, <2>3 DEF DecodeStep, DecodeStep1, DecodeStep2
  <2> QED
    BY <1>n, <2>1, <2>4
<1>4. ASSUME c.version = "tce2", NEW e \in EntrySet(c), e.code = <<s[p]>>, t = Take(1, <<x>> \o e.code)
      PROVE Undone
  <2>1. <<x>> \o <<s[p]>> = <<x, s[p]>>
    BY <1>s, TwoSymbols
  <2>2. t.out = <<x, s[p]>> /\ t.width = 1
    BY <1>4, <2>1 DEF Take
  <2>3. q + 1 <= Len(o) /\ o[q] = x /\ o[q + 1] = s[p] /\ Len(t.out) = 2 /\ taken = <<s[p]>>
    <3>1. p + t.width - 1 = p
      BY <2>2
    <3>2. Len(<<x, s[p]>>) = 2 /\ <<x, s[p]>>[1] = x /\ <<x, s[p]>>[2] = s[p]
      OBVIOUS
    <3>3. taken = <<s[p]>>
      BY <1>s, <3>1
    <3> HIDE DEF taken
    <3> QED
      BY <1>w, <2>2, <3>2, <3>3 DEF hasPrefixAt
  <2>4. DecodeStep(c, o, q) = Take(2, <<s[p]>>)
    BY <1>1, <1>2, <1>4, <2>3 DEF DecodeStep, DecodeStep2
  <2> QED
    BY <1>n, <2>2, <2>3, <2>4
<1>5. ASSUME s[p] # x, t = Take(1, <<s[p]>>), c.version = "tce2" => CodeMatch(c, s, p) = {}
      PROVE Undone
  <2>0. t.width = 1 /\ t.out = <<s[p]>>
    BY <1>5 DEF Take
  <2>1. t.width = 1 /\ Len(t.out) = 1 /\ taken = <<s[p]>> /\ o[q] = s[p]
    <3>1. p + t.width - 1 = p
      BY <2>0
    <3>2. taken = <<s[p]>>
      BY <1>s, <3>1
    <3>3. Len(t.out) = 1 /\ t.out[1] = s[p]
      BY <2>0
    <3> HIDE DEF taken
    <3> QED
      BY <1>w, <2>0, <3>2, <3>3 DEF hasPrefixAt
  <2>2. ~hasPrefixAt(o, q, c.escape)
    BY <1>2, <1>5, <2>1
  <2>3. ASSUME c.version = "tce2" PROVE CodeMatch(c, o, q) = {}
    <3>1. ASSUME NEW e \in EntrySet(c), hasPrefixAt(o, q, e.code) PROVE FALSE
      <4>1. Len(e.code) = 1 /\ e.code \in Seq(S)
        BY <2>3, EntryType DEF Reversible
      <4>2. e.code[1] = s[p]
        BY <2>1, <3>1, <4>1 DEF hasPrefixAt
      <4>3. hasPrefixAt(s, p, e.code)
        BY <4>1, <4>2 DEF hasPrefixAt
      <4>4. CodeMatch(c, s, p) = {e}
        BY <4>3, OneCodeThere
      <4> QED
        BY <1>5, <2>3, <4>4
    <3> QED
      BY <3>1 DEF CodeMatch
  <2>4. DecodeStep(c, o, q) = Take(1, <<s[p]>>)
    BY <1>1, <2>1, <2>2, <2>3 DEF DecodeStep, DecodeStep1, DecodeStep2
  <2> QED
    BY <1>n, <2>1, <2>4
<1>6. ASSUME NEW e \in EntrySet(c), Len(e.value) > 0, hasPrefixAt(s, p, e.value),
             t = Take(Len(e.value), IF c.version = "tce1" THEN <<x>> \o e.code ELSE e.code)
      PROVE Undone
  <2>1. e.code \in Seq(S) /\ e.value \in Seq(S) /\ Len(e.code) > 0 /\ e.code[1] # x
    BY EntryType, AcceptedCode DEF Reversible
  <2>2. t.width = Len(e.value) /\ p + Len(e.value) - 1 <= Len(s)
    BY <1>6, <2>1 DEF Take, hasPrefixAt
  <2>3. taken = e.value
    <3> DEFINE n == p + t.width - 1
    <3>1. n \in Nat /\ n <= Len(s) /\ n - p + 1 = Len(e.value) /\ p <= n /\ Len(s) \in Nat
      BY <1>6, <2>1, <2>2, LenProperties
    <3> HIDE DEF n
    <3>2. \A k \in p..n : s[k] \in S
      BY <3>1, ElementOfSeq
    <3>3. /\ SubSeq(s, p, n) \in Seq(S)
          /\ Len(SubSeq(s, p, n)) = Len(e.value)
          /\ \A k \in 1..Len(e.value) : SubSeq(s, p, n)[k] = s[p + k - 1]
      BY <3>1, <3>2, SubSeqProperties
    <3>4. \A k \in 1..Len(e.value) : SubSeq(s, p, n)[k] = e.value[k]
      BY <1>6, <3>3 DEF hasPrefixAt
    <3>5. SubSeq(s, p, n) = e.value
      BY <2>1, <3>3, <3>4, SeqEqual
    <3> QED
      BY <3>5 DEF n
  <2>6. p + t.width - 1 <= Len(s) /\ t.width \in Nat \ {0}
    BY <1>6, <2>1, <2>2, LenProperties
  <2>4. CASE c.version = "tce1"
    <3>0. t.out = <<x>> \o e.code
      BY <1>6, <2>4 DEF Take
    <3>1. Len(t.out) = 1 + Len(e.code) /\ Len(e.code) \in Nat
      BY <1>s, <2>1, <3>0, OneBefore, LenProperties
    <3>2. /\ t.out[1] = x
          /\ \A k \in 1..Len(e.code) : t.out[k + 1] = e.code[k]
      BY <1>s, <2>1, <3>0, OneBefore
    <3>3. /\ o[q] = x /\ q + Len(e.code) <= Len(o)
          /\ \A k \in 1..Len(e.code) : o[q + 1 + k - 1] = e.code[k]
      <4>1. q + Len(e.code) <= Len(o) /\ o[q + 1 - 1] = t.out[1]
        BY <1>w, <3>1 DEF hasPrefixAt
      <4>2. ASSUME NEW k \in 1..Len(e.code) PROVE o[q + 1 + k - 1] = e.code[k]
        <5>1. o[q + (k + 1) - 1] = t.out[k + 1]
          BY <1>w, <3>1 DEF hasPrefixAt
        <5>2. q + (k + 1) - 1 = q + 1 + k - 1 /\ t.out[k + 1] = e.code[k]
          BY <3>1, <3>2
        <5> QED
          BY <5>1, <5>2
      <4>3. q + 1 - 1 = q
        OBVIOUS
      <4> QED
        BY <3>2, <4>1, <4>2, <4>3
    <3>4. hasPrefixAt(o, q, c.escape) /\ q + 1 <= Len(o) /\ ~hasPrefixAt(o, q + 1, c.escape)
      <4>1. q + 1 <= Len(o) /\ q \in 1..Len(o) /\ q + 1 \in 1..Len(o)
        BY <2>1, <3>1, <3>3, LenProperties
      <4>2. o[q + 1 + 1 - 1] = e.code[1] /\ q + 1 + 1 - 1 = q + 1
        BY <2>1, <3>1, <3>3
      <4> QED
        BY <1>2, <2>1, <3>3, <4>1, <4>2
    <3>5. hasPrefixAt(o, q + 1, e.code)
      <4>1. (q + 1) + Len(e.code) - 1 <= Len(o)
        <5>1. Len(o) \in Nat /\ q \in Nat
          BY LenProperties
        <5>2. q + Len(e.code) <= Len(o) /\ Len(e.code) \in Nat
          BY <3>1, <3>3
        <5>3. (q + 1) + Len(e.code) - 1 = q + Len(e.code)
          <6>1. \A a, b \in Nat : (a + 1) + b - 1 = a + b
            OBVIOUS
          <6> QED
            BY <5>1, <5>2, <6>1
        <5> QED
          BY <5>2, <5>3, Zenon
      <4> QED
        BY <3>3, <4>1 DEF hasPrefixAt
    <3>6. CodeMatch(c, o, q + 1) = {e}
      BY <3>5, OneCodeThere
    <3>7. DecodeStep(c, o, q) = Take(1 + Len(e.code), e.value)
      <4>1. DecodeStep(c, o, q) = DecodeStep1(c, o, q)
        BY <2>4 DEF DecodeStep
      <4>2. q + Len(c.escape) = q + 1 /\ ~(q + 1 > Len(o))
        BY <1>1, <3>4, LenProperties
      <4>3. PICK d \in CodeMatch(c, o, q + 1) :
              DecodeStep1(c, o, q) = Take(Len(c.escape) + Len(d.code), d.value)
        BY <3>4, <3>6, <4>2 DEF DecodeStep1
      <4> QED
        BY <1>1, <3>6, <4>1, <4>3
    <3> QED
      BY <2>6, <2>3, <3>1, <3>7, Zenon
  <2>5. CASE c.version = "tce2"
    <3>1. t.out = e.code
      BY <1>6, <2>5 DEF Take
    <3>2. q + Len(e.code) - 1 <= Len(o) /\ \A k \in 1..Len(e.code) : o[q + k - 1] = e.code[k]
      BY <1>w, <3>1 DEF hasPrefixAt
    <3>3. hasPrefixAt(o, q, e.code) /\ ~hasPrefixAt(o, q, c.escape)
      BY <1>2, <2>1, <3>2 DEF hasPrefixAt
    <3>4. CodeMatch(c, o, q) = {e}
      BY <3>3, OneCodeThere
    <3>5. DecodeStep(c, o, q) = Take(Len(e.code), e.value)
      BY <2>5, <3>3, <3>4 DEF DecodeStep, DecodeStep2
    <3> QED
      BY <2>6, <2>3, <3>1, <3>5, Zenon
  <2> QED
    BY <1>1, <2>4, <2>5 DEF Versions
<1>7. \/ s[p] = x /\ t = Take(1, <<x, x>>)
      \/ /\ s[p] # x /\ c.version = "tce2"
         /\ \E e \in EntrySet(c) : e.code = <<s[p]>> /\ t = Take(1, <<x>> \o e.code)
      \/ /\ s[p] # x
         /\ \E e \in EntrySet(c) :
              /\ Len(e.value) > 0 /\ hasPrefixAt(s, p, e.value)
              /\ t = Take(Len(e.value), IF c.version = "tce1" THEN <<x>> \o e.code ELSE e.code)
      \/ /\ s[p] # x /\ t = Take(1, <<s[p]>>)
         /\ c.version = "tce2" => CodeMatch(c, s, p) = {}
  BY EncodeStepCases DEF t
<1> HIDE DEF Undone
<1> QED
  BY <1>3, <1>4, <1>5, <1>6, <1>7

\* A turn of Encode stays within the text, takes something and puts out something.
LEMMA TurnTakes ==
  ASSUME NEW S, NEW c, CodecType(S, c), Accepted(c), NEW s \in Seq(S), NEW p \in 1..Len(s)
  PROVE  LET t == EncodeStep(c, s, p)
         IN /\ t.width \in Nat \ {0}
            /\ p + t.width <= Len(s) + 1
            /\ t.out \in Seq(S)
            /\ Len(t.out) > 0
<1> DEFINE t == EncodeStep(c, s, p)
           Takes(w, o) == /\ w \in Nat \ {0} /\ p + w <= Len(s) + 1
                          /\ o \in Seq(S) /\ Len(o) > 0
<1>1. c.escape \in Seq(S) /\ Len(c.escape) > 0 /\ Len(c.escape) \in Nat
  BY LenProperties DEF CodecType, Accepted
<1>2. Len(s) \in Nat /\ p \in Nat /\ p <= Len(s)
  BY LenProperties
<1>3. ASSUME NEW w, NEW o, t = Take(w, o), Takes(w, o)
      PROVE Takes(t.width, t.out)
  BY <1>3 DEF Take
<1>4. ASSUME NEW u \in Seq(S), NEW v \in Seq(S), Len(u) > 0 \/ Len(v) > 0
      PROVE u \o v \in Seq(S) /\ Len(u \o v) > 0
  <2>1. Len(u) \in Nat /\ Len(v) \in Nat /\ Len(u \o v) = Len(u) + Len(v) /\ u \o v \in Seq(S)
    BY LenProperties, ConcatProperties
  <2> QED
    BY <1>4, <2>1
<1>5. ASSUME NEW u \in Seq(S), Len(u) > 0, hasPrefixAt(s, p, u)
      PROVE Len(u) \in Nat \ {0} /\ p + Len(u) <= Len(s) + 1
  <2>1. Len(u) \in Nat /\ p + Len(u) - 1 <= Len(s)
    BY <1>5, LenProperties DEF hasPrefixAt
  <2> QED
    BY <1>2, <1>5, <2>1
<1> SUFFICES Takes(t.width, t.out)
  OBVIOUS
<1> HIDE DEF t
<1>6. CASE hasPrefixAt(s, p, c.escape)
  <2>1. t = Take(Len(c.escape), c.escape \o c.escape)
    BY <1>6 DEF t, EncodeStep
  <2>2. Takes(Len(c.escape), c.escape \o c.escape)
    BY <1>1, <1>4, <1>5, <1>6
  <2> HIDE DEF Takes
  <2> QED
    BY <1>3, <2>1, <2>2
<1>7. CASE ~hasPrefixAt(s, p, c.escape) /\ c.version = "tce2" /\ CodeMatch(c, s, p) # {}
  <2>1. PICK e \in CodeMatch(c, s, p) : t = Take(Len(e.code), c.escape \o e.code)
    BY <1>7 DEF t, EncodeStep
  <2>2. e \in EntrySet(c) /\ hasPrefixAt(s, p, e.code)
    BY DEF CodeMatch
  <2>3. e.code \in Seq(S) /\ Len(e.code) > 0
    BY <2>2, EntryType, AcceptedCode
  <2>4. Takes(Len(e.code), c.escape \o e.code)
    BY <1>1, <1>4, <1>5, <2>2, <2>3
  <2> HIDE DEF Takes
  <2> QED
    BY <1>3, <2>1, <2>4
<1>8. CASE /\ ~hasPrefixAt(s, p, c.escape) /\ ~(c.version = "tce2" /\ CodeMatch(c, s, p) # {})
           /\ ValueMatch(c, s, p) # {}
  <2>1. PICK e \in ValueMatch(c, s, p) :
          t = Take(Len(e.value), IF c.version = "tce1" THEN c.escape \o e.code ELSE e.code)
    BY <1>8 DEF t, EncodeStep
  <2>2. e \in EntrySet(c) /\ hasPrefixAt(s, p, e.value) /\ Len(e.value) > 0
    BY DEF ValueMatch
  <2>3. e.code \in Seq(S) /\ Len(e.code) > 0 /\ e.value \in Seq(S)
    BY <2>2, EntryType, AcceptedCode
  <2>4. Takes(Len(e.value), c.escape \o e.code) /\ Takes(Len(e.value), e.code)
    BY <1>1, <1>4, <1>5, <2>2, <2>3
  <2> HIDE DEF Takes
  <2>5. CASE c.version = "tce1"
    BY <1>3, <2>1, <2>4, <2>5
  <2>6. CASE c.version # "tce1"
    BY <1>3, <2>1, <2>4, <2>6
  <2> QED
    BY <2>5, <2>6
<1>9. CASE /\ ~hasPrefixAt(s, p, c.escape) /\ ~(c.version = "tce2" /\ CodeMatch(c, s, p) # {})
           /\ ValueMatch(c, s, p) = {}
  <2>1. t = Take(1, <<s[p]>>)
    BY <1>9 DEF t, EncodeStep
  <2>2. s[p] \in S
    BY ElementOfSeq
  <2>3. Takes(1, <<s[p]>>)
    BY <1>2, <2>2
  <2> HIDE DEF Takes
  <2> QED
    BY <1>3, <2>1, <2>3
<1> QED
  BY <1>6, <1>7, <1>8, <1>9

\* A turn of Decode that does not fail stays within its input too.
LEMMA DecodeTakes ==
  ASSUME NEW S, NEW c, CodecType(S, c), Accepted(c), NEW s \in Seq(S), NEW q \in 1..Len(s),
         DecodeStep(c, s, q).err = "ok"
  PROVE  LET t == DecodeStep(c, s, q)
         IN /\ t.width \in Nat \ {0}
            /\ q + t.width <= Len(s) + 1
            /\ t.out \in Seq(S)
<1> DEFINE t == DecodeStep(c, s, q)
           x == c.escape
           k == q + Len(x)
           Takes(w, o) == w \in Nat \ {0} /\ q + w <= Len(s) + 1 /\ o \in Seq(S)
<1>1. x \in Seq(S) /\ Len(x) > 0 /\ Len(x) \in Nat
  BY LenProperties DEF CodecType, Accepted
<1>2. Len(s) \in Nat /\ q \in Nat /\ q <= Len(s)
  BY LenProperties
<1>3. ASSUME NEW w, NEW o, t = Take(w, o), Takes(w, o)
      PROVE Takes(t.width, t.out)
  BY <1>3 DEF Take
<1>4. ASSUME NEW n \in Nat, NEW e \in CodeMatch(c, s, n)
      PROVE /\ e.value \in Seq(S) /\ Len(e.code) \in Nat \ {0} /\ n + Len(e.code) <= Len(s) + 1
  <2>1. e \in EntrySet(c) /\ n + Len(e.code) - 1 <= Len(s)
    BY DEF CodeMatch, hasPrefixAt
  <2>2. e.value \in Seq(S) /\ Len(e.code) \in Nat /\ Len(e.code) > 0
    BY <2>1, EntryType, AcceptedCode, LenProperties
  <2> QED
    BY <1>2, <2>1, <2>2
<1>5. t # Bad
  BY DEF Bad
<1>6. ASSUME hasPrefixAt(s, q, x) PROVE q + Len(x) <= Len(s) + 1
  BY <1>1, <1>2, <1>6 DEF hasPrefixAt
<1>7. s[q] \in S /\ Takes(1, <<s[q]>>)
  <2>1. s[q] \in S
    BY ElementOfSeq
  <2> QED
    BY <1>2, <2>1
<1> SUFFICES Takes(t.width, t.out)
  OBVIOUS
<1>8. CASE c.version = "tce2"
  <2>1. t = DecodeStep2(c, s, q)
    BY <1>8 DEF DecodeStep
  <2> HIDE DEF t
  <2>2. CASE hasPrefixAt(s, q, x)
    <3>1. k <= Len(s) /\ t = Take(Len(x) + 1, <<s[k]>>)
      BY <1>1, <1>2, <1>5, <2>1, <2>2 DEF DecodeStep2
    <3>2. k \in 1..Len(s)
      BY <1>1, <1>2, <3>1
    <3>3. s[k] \in S
      BY <3>2, ElementOfSeq
    <3>4. Takes(Len(x) + 1, <<s[k]>>)
      BY <1>1, <1>2, <3>1, <3>3
    <3> HIDE DEF Takes
    <3> QED
      BY <1>3, <3>1, <3>4
  <2>3. CASE ~hasPrefixAt(s, q, x) /\ CodeMatch(c, s, q) # {}
    <3>1. PICK e \in CodeMatch(c, s, q) : t = Take(Len(e.code), e.value)
      BY <2>1, <2>3 DEF DecodeStep2
    <3>2. Takes(Len(e.code), e.value)
      BY <1>2, <1>4
    <3> HIDE DEF Takes
    <3> QED
      BY <1>3, <3>1, <3>2
  <2>4. CASE ~hasPrefixAt(s, q, x) /\ CodeMatch(c, s, q) = {}
    <3>1. t = Take(1, <<s[q]>>)
      BY <2>1, <2>4 DEF DecodeStep2
    <3> HIDE DEF Takes
    <3> QED
      BY <1>3, <1>7, <3>1
  <2> QED
    BY <2>2, <2>3, <2>4
<1>9. CASE c.version # "tce2"
  <2>1. t = DecodeStep1(c, s, q)
    BY <1>9 DEF DecodeStep
  <2> HIDE DEF t
  <2>2. CASE ~hasPrefixAt(s, q, x)
    <3>1. t = Take(1, <<s[q]>>)
      BY <2>1, <2>2 DEF DecodeStep1
    <3> HIDE DEF Takes
    <3> QED
      BY <1>3, <1>7, <3>1
  <2>3. CASE hasPrefixAt(s, q, x) /\ hasPrefixAt(s, k, x)
    <3>1. t = Take(2 * Len(x), x)
      BY <1>5, <2>1, <2>3 DEF DecodeStep1
    <3>2. k + Len(x) - 1 <= Len(s)
      BY <2>3 DEF hasPrefixAt
    <3>3. Takes(2 * Len(x), x)
      BY <1>1, <1>2, <3>2
    <3> HIDE DEF Takes
    <3> QED
      BY <1>3, <3>1, <3>3
  <2>4. CASE hasPrefixAt(s, q, x) /\ ~hasPrefixAt(s, k, x)
    <3>1. PICK e \in CodeMatch(c, s, k) : t = Take(Len(x) + Len(e.code), e.value)
      BY <1>5, <2>1, <2>4 DEF DecodeStep1
    <3>2. k \in Nat
      BY <1>1, <1>2
    <3>3. e.value \in Seq(S) /\ Len(e.code) \in Nat \ {0} /\ k + Len(e.code) <= Len(s) + 1
      BY <1>4, <3>2
    <3>4. Takes(Len(x) + Len(e.code), e.value)
      <4>1. \A a, b, d, n \in Nat : (a + b) + d <= n + 1 => a + (b + d) <= n + 1
        OBVIOUS
      <4>2. q + (Len(x) + Len(e.code)) <= Len(s) + 1
        BY <1>1, <1>2, <3>3, <4>1
      <4>3. \A a \in Nat, b \in Nat \ {0} : a + b \in Nat \ {0}
        OBVIOUS
      <4>4. Len(x) + Len(e.code) \in Nat \ {0}
        BY <1>1, <3>3, <4>3, Zenon
      <4> QED
        BY <3>3, <4>2, <4>4, Zenon
    <3> HIDE DEF Takes
    <3> QED
      BY <1>3, <3>1, <3>4
  <2> QED
    BY <2>2, <2>3, <2>4
<1> QED
  BY <1>8, <1>9

LEMMA Joined ==
  ASSUME NEW S, NEW s \in Seq(S), NEW p \in Nat \ {0}, NEW w \in Nat \ {0}, p + w - 1 <= Len(s)
  PROVE  SubSeq(s, 1, p - 1) \o SubSeq(s, p, p + w - 1) = SubSeq(s, 1, p + w - 1)
<1> DEFINE n == p + w - 1
           u == SubSeq(s, 1, p - 1)
           v == SubSeq(s, p, n)
           r == SubSeq(s, 1, n)
<1>1. n \in Nat /\ p <= n /\ n - p + 1 = w /\ n <= Len(s) /\ Len(s) \in Nat
  BY LenProperties
<1> SUFFICES u \o v = r
  OBVIOUS
<1> HIDE DEF n
<1>2. \A k \in 1..n : s[k] \in S
  BY <1>1, ElementOfSeq
<1>3. /\ u \in Seq(S) /\ Len(u) = p - 1
      /\ \A k \in 1..(p - 1) : u[k] = s[k]
  <2>1. \A k \in 1..(p - 1) : s[k] \in S
    BY <1>1, <1>2
  <2>2. u \in Seq(S) /\ Len(u) = (IF 1 <= p - 1 THEN p - 1 - 1 + 1 ELSE 0)
        /\ \A k \in 1..(p - 1 - 1 + 1) : u[k] = s[1 + k - 1]
    BY <2>1, SubSeqProperties
  <2> QED
    BY <2>2
<1>4. /\ v \in Seq(S) /\ Len(v) = w
      /\ \A k \in 1..w : v[k] = s[p + k - 1]
  <2>1. \A k \in p..n : s[k] \in S
    BY <1>1, <1>2
  <2>2. v \in Seq(S) /\ Len(v) = (IF p <= n THEN n - p + 1 ELSE 0)
        /\ \A k \in 1..(n - p + 1) : v[k] = s[p + k - 1]
    BY <1>1, <2>1, SubSeqProperties
  <2> QED
    BY <1>1, <2>2
<1>5. /\ r \in Seq(S) /\ Len(r) = n
      /\ \A k \in 1..n : r[k] = s[k]
  <2>1. r \in Seq(S) /\ Len(r) = (IF 1 <= n THEN n - 1 + 1 ELSE 0)
        /\ \A k \in 1..(n - 1 + 1) : r[k] = s[1 + k - 1]
    BY <1>1, <1>2, SubSeqProperties
  <2> QED
    BY <1>1, <2>1
<1> HIDE DEF u, v, r
<1>6. /\ u \o v \in Seq(S) /\ Len(u \o v) = n
      /\ \A k \in 1..n : (u \o v)[k] = IF k <= p - 1 THEN u[k] ELSE v[k - (p - 1)]
  <2>1. (p - 1) + w = n
    BY <1>1
  <2> QED
    <3>1. /\ u \o v \in Seq(S) /\ Len(u \o v) = Len(u) + Len(v)
          /\ \A k \in 1..(Len(u) + Len(v)) :
               (u \o v)[k] = IF k <= Len(u) THEN u[k] ELSE v[k - Len(u)]
      BY <1>3, <1>4, ConcatProperties
    <3>2. Len(u) = p - 1 /\ Len(u) + Len(v) = n
      BY <1>3, <1>4, <2>1
    <3> QED
      BY <3>1, <3>2, Zenon
<1>7. \A k \in 1..n : (u \o v)[k] = r[k]
  <2>1. ASSUME NEW k \in 1..n, k <= p - 1 PROVE (u \o v)[k] = r[k]
    <3>1. k \in 1..(p - 1)
      BY <2>1
    <3>2. (u \o v)[k] = u[k]
      BY <1>6, <2>1
    <3> QED
      BY <1>3, <1>5, <3>1, <3>2
  <2>2. ASSUME NEW k \in 1..n, ~(k <= p - 1) PROVE (u \o v)[k] = r[k]
    <3>1. k - (p - 1) \in 1..w /\ p + (k - (p - 1)) - 1 = k
      BY <1>1, <2>2
    <3>2. v[k - (p - 1)] = s[k]
      BY <1>4, <3>1
    <3> QED
      BY <1>5, <1>6, <2>2, <3>2
  <2> QED
    BY <2>1, <2>2
<1> QED
  BY <1>5, <1>6, <1>7, SeqEqual


-----------------------------------------------------------------------------
(* The loops as functions. *)

\* What Encode and Decode call from[i], as one function of i.
EncodeRec(f, c, s) ==
  f = [p \in 1..(Len(s) + 1) |->
        IF p > Len(s) THEN << >>
        ELSE EncodeStep(c, s, p).out \o f[p + EncodeStep(c, s, p).width]]

EncodeFrom(c, s) == CHOOSE f : EncodeRec(f, c, s)

DecodeRec(f, c, s) ==
  f = [q \in 1..(Len(s) + 1) |->
        IF q > Len(s) THEN [err |-> "ok", content |-> << >>]
        ELSE IF DecodeStep(c, s, q).err # "ok" THEN [err |-> "failed", content |-> << >>]
        ELSE IF f[q + DecodeStep(c, s, q).width].err # "ok" THEN f[q + DecodeStep(c, s, q).width]
        ELSE [err |-> "ok",
              content |-> DecodeStep(c, s, q).out \o f[q + DecodeStep(c, s, q).width].content]]

DecodeFrom(c, s) == CHOOSE f : DecodeRec(f, c, s)

LEMMA EncodeIsFrom == ASSUME NEW c, NEW s PROVE Encode(c, s) = EncodeFrom(c, s)[1]
  BY DEF Encode, EncodeFrom, EncodeRec

LEMMA DecodeIsFrom == ASSUME NEW c, NEW s PROVE Decode(c, s) = DecodeFrom(c, s)[1]
  BY DEF Decode, DecodeFrom, DecodeRec

(***************************************************************************)
(* The loop of Encode ends, so that the recursion has a solution: from     *)
(* every position it gives a text.                                         *)
(***************************************************************************)
LEMMA EncodeFromIs ==
  ASSUME NEW S, NEW c, CodecType(S, c), Accepted(c), NEW s \in Seq(S)
  PROVE  /\ EncodeRec(EncodeFrom(c, s), c, s)
         /\ EncodeFrom(c, s) \in [1..(Len(s) + 1) -> Seq(S)]
<1> DEFINE N == Len(s)
           D == 1..(N + 1)
           w(p) == EncodeStep(c, s, p).width
           o(p) == EncodeStep(c, s, p).out
<1>1. N \in Nat
  BY LenProperties
<1>2. ASSUME NEW p \in D, ~(p > N)
      PROVE o(p) \in Seq(S) /\ p + w(p) \in D /\ w(p) \in Nat \ {0}
  <2>1. p \in 1..N
    BY <1>1, <1>2
  <2> QED
    BY <1>1, <2>1, TurnTakes
<1>3. \E f : EncodeRec(f, c, s)
  <2> DEFINE m == [p \in D |-> N + 1 - p]
             leaf == {p \in D : p > N}
             base == [p \in D |-> << >>]
             next == [p \in D |-> IF p > N THEN p ELSE p + w(p)]
             op == [p \in D |-> [v \in Seq(S) |-> IF p > N THEN v ELSE o(p) \o v]]
  <2>1. m \in [D -> 0..N] /\ leaf \in SUBSET D /\ base \in [D -> Seq(S)] /\ next \in [D -> D]
    BY <1>1, <1>2, EmptySeq
  <2>2. op \in [D -> [Seq(S) -> Seq(S)]]
    BY <1>2, ConcatProperties
  <2>3. \A p \in D \ leaf : m[next[p]] < m[p]
    <3>1. ASSUME NEW p \in D \ leaf PROVE m[next[p]] < m[p]
      <4>1. p \in D /\ ~(p > N)
        OBVIOUS
      <4>2. p + w(p) \in D /\ w(p) \in Nat \ {0}
        BY <1>2, <4>1
      <4>3. next[p] = p + w(p) /\ m[p + w(p)] = N + 1 - (p + w(p)) /\ m[p] = N + 1 - p
        BY <4>1, <4>2
      <4> HIDE DEF m, next, w
      <4> QED
        BY <1>1, <4>1, <4>2, <4>3
    <3> QED
      BY <3>1
  <2>4. PICK f \in [D -> Seq(S)] :
          \A p \in D : f[p] = IF p \in leaf THEN base[p] ELSE op[p][f[next[p]]]
    <3> HIDE DEF m, leaf, base, next, op, D
    <3>1. Descends(D, Seq(S), N, m, leaf, base, next, op)
      BY <1>1, <2>1, <2>2, <2>3 DEF Descends
    <3>2. \E f \in [D -> Seq(S)] : Solves(f, D, leaf, base, next, op)
      BY <3>1, Recursion
    <3> QED
      BY <3>2 DEF Solves
  <2>5. ASSUME NEW p \in D PROVE f[p] = IF p > N THEN << >> ELSE o(p) \o f[p + w(p)]
    <3>1. f[p] = IF p > N THEN base[p] ELSE op[p][f[next[p]]]
      BY <2>4
    <3>2. CASE p > N
      BY <3>1, <3>2
    <3>3. CASE ~(p > N)
      <4>1. next[p] = p + w(p) /\ p + w(p) \in D
        BY <1>2, <3>3
      <4>2. f[p + w(p)] \in Seq(S)
        BY <2>4, <4>1
      <4>3. op[p][f[p + w(p)]] = o(p) \o f[p + w(p)]
        BY <3>3, <4>2
      <4> QED
        BY <3>1, <3>3, <4>1, <4>3
    <3> QED
      BY <3>2, <3>3
  <2>6. f = [p \in D |-> IF p > N THEN << >> ELSE o(p) \o f[p + w(p)]]
    BY <2>4, <2>5
  <2> QED
    BY <2>6 DEF EncodeRec
<1> DEFINE f == EncodeFrom(c, s)
<1>4. EncodeRec(f, c, s)
  BY <1>3 DEF EncodeFrom
<1>5. \A p \in D : f[p] = IF p > N THEN << >> ELSE o(p) \o f[p + w(p)]
  BY <1>4 DEF EncodeRec
<1>6. f = [p \in D |-> f[p]]
  BY <1>4 DEF EncodeRec
<1> HIDE DEF f
<1>7. \A p \in D : f[p] \in Seq(S)
  <2> DEFINE T == {p \in D : f[p] \in Seq(S)}
  <2>1. ASSUME NEW p \in D, \A k \in D : p < k => k \in T PROVE p \in T
    <3>1. CASE p > N
      BY <1>5, <3>1, EmptySeq
    <3>2. CASE ~(p > N)
      <4>1. p + w(p) \in D /\ p < p + w(p) /\ o(p) \in Seq(S)
        BY <1>1, <1>2, <3>2
      <4>2. f[p + w(p)] \in Seq(S)
        BY <2>1, <4>1
      <4> QED
        BY <1>5, <3>2, <4>1, <4>2, ConcatProperties
    <3> QED
      BY <3>1, <3>2
  <2> HIDE DEF T
  <2>2. \A p \in D : p \in T
    BY <1>1, <2>1, Backwards
  <2> QED
    BY <2>2 DEF T
<1> QED
  BY <1>4, <1>6, <1>7 DEF f

Results(S) == [err : {"ok", "failed"}, content : Seq(S)]

\* So does the loop of Decode; it gives a text or fails.
LEMMA DecodeFromIs ==
  ASSUME NEW S, NEW c, CodecType(S, c), Accepted(c), NEW s \in Seq(S)
  PROVE  /\ DecodeRec(DecodeFrom(c, s), c, s)
         /\ DecodeFrom(c, s) \in [1..(Len(s) + 1) -> Results(S)]
<1> DEFINE N == Len(s)
           D == 1..(N + 1)
           V == Results(S)
           e(q) == DecodeStep(c, s, q).err
           w(q) == DecodeStep(c, s, q).width
           o(q) == DecodeStep(c, s, q).out
           Ends(q) == q > N \/ e(q) # "ok"
           End(q) == [err |-> IF q > N THEN "ok" ELSE "failed", content |-> << >>]
           Prepend(q, v) == IF v.err # "ok" THEN v ELSE [err |-> "ok", content |-> o(q) \o v.content]
<1>1. N \in Nat
  BY LenProperties
<1>2. ASSUME NEW q \in D, ~Ends(q)
      PROVE o(q) \in Seq(S) /\ q + w(q) \in D /\ w(q) \in Nat \ {0}
  <2>1. q \in 1..N
    BY <1>1, <1>2
  <2> QED
    BY <1>1, <1>2, <2>1, DecodeTakes
<1>e. \A q \in D : End(q) \in V
  <2>1. << >> \in Seq(S)
    OBVIOUS
  <2> QED
    BY <2>1 DEF Results
<1>p. ASSUME NEW q \in D, ~Ends(q), NEW v \in V PROVE Prepend(q, v) \in V
  <2>1. o(q) \in Seq(S) /\ v.content \in Seq(S)
    BY <1>2, <1>p DEF Results
  <2>2. o(q) \o v.content \in Seq(S)
    BY <2>1, ConcatProperties
  <2> QED
    BY <2>2 DEF Results
<1> HIDE DEF V
<1>d. \A f : DecodeRec(f, c, s) <=>
             f = [q \in D |-> IF Ends(q) THEN End(q) ELSE Prepend(q, f[q + w(q)])]
  <2> SUFFICES ASSUME NEW f
               PROVE DecodeRec(f, c, s) <=>
                     f = [q \in D |-> IF Ends(q) THEN End(q) ELSE Prepend(q, f[q + w(q)])]
    OBVIOUS
  <2> DEFINE A(q) == IF Ends(q) THEN End(q) ELSE Prepend(q, f[q + w(q)])
             B(q) == IF q > Len(s) THEN [err |-> "ok", content |-> << >>]
                     ELSE IF DecodeStep(c, s, q).err # "ok" THEN [err |-> "failed", content |-> << >>]
                     ELSE IF f[q + DecodeStep(c, s, q).width].err # "ok"
                          THEN f[q + DecodeStep(c, s, q).width]
                     ELSE [err |-> "ok", content |-> DecodeStep(c, s, q).out
                                                       \o f[q + DecodeStep(c, s, q).width].content]
  <2>1. \A q \in D : A(q) = B(q)
    OBVIOUS
  <2>2. DecodeRec(f, c, s) <=> f = [q \in D |-> B(q)]
    BY Zenon DEF DecodeRec
  <2> HIDE DEF A, B
  <2>3. [q \in D |-> A(q)] = [q \in D |-> B(q)]
    BY <2>1
  <2> QED
    BY <2>2, <2>3 DEF A
<1> HIDE DEF Prepend, End, Ends
<1>3. \E f : DecodeRec(f, c, s)
  <2> DEFINE m == [q \in D |-> N + 1 - q]
             leaf == {q \in D : Ends(q)}
             base == [q \in D |-> End(q)]
             next == [q \in D |-> IF Ends(q) THEN q ELSE q + w(q)]
             op == [q \in D |-> [v \in V |-> IF Ends(q) THEN v ELSE Prepend(q, v)]]
  <2>1. m \in [D -> 0..N] /\ leaf \in SUBSET D /\ base \in [D -> V] /\ next \in [D -> D]
    BY <1>1, <1>2, <1>e
  <2>2. op \in [D -> [V -> V]]
    BY <1>p
  <2>3. ASSUME NEW q \in D \ leaf PROVE m[next[q]] < m[q]
    <3>1. q \in D /\ ~Ends(q)
      OBVIOUS
    <3>2. q + w(q) \in D /\ w(q) \in Nat \ {0}
      BY <1>2, <3>1
    <3>3. next[q] = q + w(q) /\ m[q + w(q)] = N + 1 - (q + w(q)) /\ m[q] = N + 1 - q
      BY <3>1, <3>2
    <3> HIDE DEF m, next, w
    <3> QED
      BY <1>1, <3>1, <3>2, <3>3
  <2>4. PICK f \in [D -> V] : \A q \in D : f[q] = IF q \in leaf THEN base[q] ELSE op[q][f[next[q]]]
    <3> HIDE DEF m, leaf, base, next, op, D
    <3>1. Descends(D, V, N, m, leaf, base, next, op)
      BY <1>1, <2>1, <2>2, <2>3 DEF Descends
    <3>2. \E f \in [D -> V] : Solves(f, D, leaf, base, next, op)
      BY <3>1, Recursion
    <3> QED
      BY <3>2 DEF Solves
  <2>5. ASSUME NEW q \in D PROVE f[q] = IF Ends(q) THEN End(q) ELSE Prepend(q, f[q + w(q)])
    <3>1. f[q] = IF Ends(q) THEN base[q] ELSE op[q][f[next[q]]]
      BY <2>4
    <3>2. CASE Ends(q)
      BY <3>1, <3>2
    <3>3. CASE ~Ends(q)
      <4>1. next[q] = q + w(q) /\ q + w(q) \in D
        BY <1>2, <3>3
      <4>2. f[q + w(q)] \in V
        BY <2>4, <4>1
      <4>3. op[q][f[q + w(q)]] = Prepend(q, f[q + w(q)])
        BY <3>3, <4>2
      <4> QED
        BY <3>1, <3>3, <4>1, <4>3
    <3> QED
      BY <3>2, <3>3
  <2>6. f = [q \in D |-> IF Ends(q) THEN End(q) ELSE Prepend(q, f[q + w(q)])]
    BY <2>4, <2>5
  <2> QED
    BY <1>d, <2>6
<1> DEFINE f == DecodeFrom(c, s)
<1>4. DecodeRec(f, c, s)
  BY <1>3 DEF DecodeFrom
<1> HIDE DEF f
<1>x. f = [q \in D |-> IF Ends(q) THEN End(q) ELSE Prepend(q, f[q + w(q)])]
  BY <1>4, <1>d
<1>5. \A q \in D : f[q] = IF Ends(q) THEN End(q) ELSE Prepend(q, f[q + w(q)])
  BY <1>x
<1>6. f = [q \in D |-> f[q]]
  BY <1>x
<1>7. \A q \in D : f[q] \in V
  <2> DEFINE T == {q \in D : f[q] \in V}
  <2>1. ASSUME NEW q \in D, \A k \in D : q < k => k \in T PROVE q \in T
    <3>1. CASE Ends(q)
      BY <1>5, <1>e, <3>1
    <3>2. CASE ~Ends(q)
      <4>1. q + w(q) \in D /\ q < q + w(q)
        BY <1>1, <1>2, <3>2
      <4>2. f[q + w(q)] \in V
        BY <2>1, <4>1
      <4> QED
        BY <1>5, <1>p, <3>2, <4>2
    <3> QED
      BY <3>1, <3>2
  <2> HIDE DEF T
  <2>2. \A q \in D : q \in T
    BY <1>1, <2>1, Backwards
  <2> QED
    BY <2>2 DEF T
<1> QED
  BY <1>4, <1>6, <1>7 DEF f, V

LEMMA EncodeUnfolds ==
  ASSUME NEW S, NEW c, CodecType(S, c), Accepted(c), NEW s \in Seq(S)
  PROVE  LET f == EncodeFrom(c, s)
         IN /\ \A p \in 1..(Len(s) + 1) : f[p] \in Seq(S)
            /\ f[Len(s) + 1] = << >>
            /\ \A p \in 1..Len(s) : f[p] = EncodeStep(c, s, p).out \o f[p + EncodeStep(c, s, p).width]
<1> DEFINE f == EncodeFrom(c, s)
<1>1. Len(s) \in Nat
  BY LenProperties
<1>2. EncodeRec(f, c, s) /\ f \in [1..(Len(s) + 1) -> Seq(S)]
  BY EncodeFromIs
<1> HIDE DEF f
<1>3. \A p \in 1..(Len(s) + 1) :
        f[p] = IF p > Len(s) THEN << >> ELSE EncodeStep(c, s, p).out \o f[p + EncodeStep(c, s, p).width]
  BY <1>2 DEF EncodeRec
<1>4. f[Len(s) + 1] = << >>
  BY <1>1, <1>3
<1>5. ASSUME NEW p \in 1..Len(s)
      PROVE f[p] = EncodeStep(c, s, p).out \o f[p + EncodeStep(c, s, p).width]
  <2>1. p \in 1..(Len(s) + 1) /\ ~(p > Len(s))
    BY <1>1
  <2> QED
    BY <1>3, <2>1, Zenon
<1> QED
  BY <1>2, <1>4, <1>5 DEF f

LEMMA DecodeUnfolds ==
  ASSUME NEW S, NEW c, CodecType(S, c), Accepted(c), NEW s \in Seq(S)
  PROVE  LET f == DecodeFrom(c, s)
         IN /\ \A q \in 1..(Len(s) + 1) : f[q] \in Results(S)
            /\ f[Len(s) + 1] = [err |-> "ok", content |-> << >>]
            /\ \A q \in 1..Len(s) :
                 LET t == DecodeStep(c, s, q)
                     rest == f[q + t.width]
                 IN f[q] = IF t.err # "ok" THEN [err |-> "failed", content |-> << >>]
                           ELSE IF rest.err # "ok" THEN rest
                           ELSE [err |-> "ok", content |-> t.out \o rest.content]
<1> DEFINE f == DecodeFrom(c, s)
<1>1. Len(s) \in Nat
  BY LenProperties
<1>2. DecodeRec(f, c, s) /\ f \in [1..(Len(s) + 1) -> Results(S)]
  BY DecodeFromIs
<1> HIDE DEF f
<1> DEFINE Turn(q) == IF q > Len(s) THEN [err |-> "ok", content |-> << >>]
                      ELSE IF DecodeStep(c, s, q).err # "ok" THEN [err |-> "failed", content |-> << >>]
                      ELSE IF f[q + DecodeStep(c, s, q).width].err # "ok"
                           THEN f[q + DecodeStep(c, s, q).width]
                      ELSE [err |-> "ok", content |-> DecodeStep(c, s, q).out
                                                        \o f[q + DecodeStep(c, s, q).width].content]
<1>3. f = [q \in 1..(Len(s) + 1) |-> Turn(q)]
  BY <1>2 DEF DecodeRec
<1>4. \A q \in 1..(Len(s) + 1) : f[q] = Turn(q)
  <2> HIDE DEF Turn
  <2> QED
    BY <1>3
<1>5. f[Len(s) + 1] = [err |-> "ok", content |-> << >>]
  <2>1. Len(s) + 1 \in 1..(Len(s) + 1) /\ Len(s) + 1 > Len(s)
    BY <1>1
  <2> QED
    BY <1>4, <2>1, Zenon
<1>6. ASSUME NEW q \in 1..Len(s)
      PROVE LET t == DecodeStep(c, s, q)
                rest == f[q + t.width]
            IN f[q] = IF t.err # "ok" THEN [err |-> "failed", content |-> << >>]
                      ELSE IF rest.err # "ok" THEN rest
                      ELSE [err |-> "ok", content |-> t.out \o rest.content]
  <2>1. q \in 1..(Len(s) + 1) /\ ~(q > Len(s))
    BY <1>1
  <2>2. f[q] = Turn(q)
    BY <1>4, <2>1, Zenon
  <2> QED
    BY <2>1, <2>2, Zenon
<1> QED
  BY <1>2, <1>5, <1>6 DEF f

\* The same, one position at a time.
LEMMA EncodeEnds ==
  ASSUME NEW S, NEW c, CodecType(S, c), Accepted(c), NEW s \in Seq(S)
  PROVE  EncodeFrom(c, s)[1] \in Seq(S) /\ EncodeFrom(c, s)[Len(s) + 1] = << >>
<1>1. 1 \in 1..(Len(s) + 1)
  BY LenProperties
<1> QED
  BY <1>1, EncodeUnfolds

LEMMA EncodeGoesOn ==
  ASSUME NEW S, NEW c, CodecType(S, c), Accepted(c), NEW s \in Seq(S), NEW p \in 1..Len(s)
  PROVE  /\ EncodeFrom(c, s)[p] = EncodeStep(c, s, p).out
                                    \o EncodeFrom(c, s)[p + EncodeStep(c, s, p).width]
         /\ EncodeFrom(c, s)[p + EncodeStep(c, s, p).width] \in Seq(S)
<1> DEFINE w == EncodeStep(c, s, p).width
<1>1. w \in Nat \ {0} /\ p + w <= Len(s) + 1 /\ Len(s) \in Nat
  BY TurnTakes, LenProperties
<1> HIDE DEF w
<1>2. p + w \in 1..(Len(s) + 1)
  BY <1>1
<1>3. EncodeFrom(c, s)[p + w] \in Seq(S)
  BY <1>2, EncodeUnfolds
<1>4. EncodeFrom(c, s)[p] = EncodeStep(c, s, p).out \o EncodeFrom(c, s)[p + w]
  BY EncodeUnfolds DEF w
<1> QED
  BY <1>3, <1>4 DEF w

LEMMA DecodeEnds ==
  ASSUME NEW S, NEW c, CodecType(S, c), Accepted(c), NEW s \in Seq(S)
  PROVE  /\ DecodeFrom(c, s)[1] \in Results(S)
         /\ DecodeFrom(c, s)[Len(s) + 1] = [err |-> "ok", content |-> << >>]
<1>1. 1 \in 1..(Len(s) + 1)
  BY LenProperties
<1> QED
  BY <1>1, DecodeUnfolds

LEMMA DecodeFails ==
  ASSUME NEW S, NEW c, CodecType(S, c), Accepted(c), NEW s \in Seq(S), NEW q \in 1..Len(s),
         DecodeStep(c, s, q).err # "ok"
  PROVE  DecodeFrom(c, s)[q].err = "failed"
<1>1. DecodeFrom(c, s)[q] = [err |-> "failed", content |-> << >>]
  BY DecodeUnfolds
<1> QED
  BY <1>1

LEMMA DecodeGoesOn ==
  ASSUME NEW S, NEW c, CodecType(S, c), Accepted(c), NEW s \in Seq(S), NEW q \in 1..Len(s),
         DecodeStep(c, s, q).err = "ok"
  PROVE  /\ DecodeFrom(c, s)[q + DecodeStep(c, s, q).width] \in Results(S)
         /\ DecodeFrom(c, s)[q] = Onward(DecodeStep(c, s, q).out,
                                         DecodeFrom(c, s)[q + DecodeStep(c, s, q).width])
<1> DEFINE w == DecodeStep(c, s, q).width
<1>1. w \in Nat \ {0} /\ q + w <= Len(s) + 1 /\ Len(s) \in Nat
  BY DecodeTakes, LenProperties
<1> HIDE DEF w
<1>2. q + w \in 1..(Len(s) + 1)
  BY <1>1
<1>3. DecodeFrom(c, s)[q + w] \in Results(S)
  BY <1>2, DecodeUnfolds
<1> QED
  BY <1>3, DecodeUnfolds DEF w, Onward

LEMMA AfterPrefix ==
  ASSUME NEW S, NEW u \in Seq(S), NEW v \in Seq(S), NEW r \in Seq(S)
  PROVE  hasPrefixAt(u \o (v \o r), Len(u) + 1, v)
<1>1. Len(u) \in Nat /\ Len(v) \in Nat /\ Len(r) \in Nat
  BY LenProperties
<1>2. v \o r \in Seq(S) /\ Len(v \o r) = Len(v) + Len(r)
  BY ConcatProperties
<1>3. Len(u \o (v \o r)) = Len(u) + (Len(v) + Len(r))
  BY <1>2, ConcatProperties
<1>4. ASSUME NEW k \in 1..Len(v) PROVE (u \o (v \o r))[Len(u) + 1 + k - 1] = v[k]
  <2>1. Len(u) + 1 + k - 1 \in 1..(Len(u) + Len(v \o r)) /\ ~(Len(u) + 1 + k - 1 <= Len(u))
        /\ Len(u) + 1 + k - 1 - Len(u) = k
    BY <1>1, <1>2
  <2>2. (u \o (v \o r))[Len(u) + 1 + k - 1] = (v \o r)[k]
    BY <1>2, <2>1, ConcatProperties
  <2>3. k \in 1..(Len(v) + Len(r)) /\ k <= Len(v)
    BY <1>1
  <2>4. (v \o r)[k] = v[k]
    BY <2>3, ConcatProperties
  <2> QED
    BY <2>2, <2>4
<1>5. Len(u) + 1 + Len(v) - 1 <= Len(u \o (v \o r))
  <2> DEFINE a == Len(u)
             b == Len(v)
             d == Len(r)
  <2>1. a \in Nat /\ b \in Nat /\ d \in Nat
    BY <1>1
  <2> HIDE DEF a, b, d
  <2>2. a + 1 + b - 1 <= a + (b + d)
    BY <2>1
  <2> QED
    BY <1>3, <2>2 DEF a, b, d
<1> QED
  BY <1>4, <1>5 DEF hasPrefixAt

LEMMA PrefixStays ==
  ASSUME NEW S, NEW s \in Seq(S), NEW t \in Seq(S), NEW q \in Nat \ {0}, NEW u \in Seq(S),
         hasPrefixAt(s, q, u)
  PROVE  hasPrefixAt(s \o t, q, u)
<1>1. /\ Len(s) \in Nat /\ Len(t) \in Nat /\ Len(u) \in Nat
      /\ Len(s \o t) = Len(s) + Len(t)
  BY LenProperties, ConcatProperties
<1>2. q + Len(u) - 1 <= Len(s)
  BY DEF hasPrefixAt
<1>3. ASSUME NEW k \in 1..Len(u) PROVE (s \o t)[q + k - 1] = u[k]
  <2>1. q + k - 1 \in 1..Len(s)
    BY <1>1, <1>2
  <2>2. (s \o t)[q + k - 1] = s[q + k - 1]
    BY <1>1, <2>1, ConcatProperties
  <2> QED
    BY <2>2 DEF hasPrefixAt
<1>4. q + Len(u) - 1 <= Len(s \o t)
  BY <1>1, <1>2
<1> QED
  BY <1>3, <1>4 DEF hasPrefixAt

LEMMA OnwardFromNothing ==
  ASSUME NEW S, NEW r \in Results(S) PROVE Onward(<< >>, r) = r
<1>1. r.content \in Seq(S) /\ r = [err |-> r.err, content |-> r.content]
  BY DEF Results
<1>2. << >> \o r.content = r.content
  BY <1>1, ConcatEmptySeq
<1> QED
  BY <1>1, <1>2 DEF Onward

LEMMA OnwardTwice ==
  ASSUME NEW S, NEW a \in Seq(S), NEW b \in Seq(S), NEW r \in Results(S)
  PROVE  Onward(a, Onward(b, r)) = Onward(a \o b, r)
<1>1. CASE r.err # "ok"
  BY <1>1 DEF Onward
<1>2. CASE r.err = "ok"
  <2> DEFINE d == r.content
  <2>1. d \in Seq(S)
    BY DEF Results
  <2>2. Onward(b, r) = [err |-> "ok", content |-> b \o d]
    BY <1>2 DEF Onward
  <2>3. Onward(a, Onward(b, r)) = [err |-> "ok", content |-> a \o (b \o d)]
    <3>1. Onward(b, r).err = "ok" /\ Onward(b, r).content = b \o d
      BY <2>2
    <3> QED
      BY <3>1 DEF Onward
  <2>4. Onward(a \o b, r) = [err |-> "ok", content |-> (a \o b) \o d]
    BY <1>2 DEF Onward
  <2>5. (a \o b) \o d = a \o (b \o d)
    <3> HIDE DEF d
    <3> QED
      BY <2>1, ConcatAssociative
  <2> QED
    BY <2>3, <2>4, <2>5
<1> QED
  BY <1>1, <1>2

-----------------------------------------------------------------------------
(* Decoding looks ahead only: what stands before a position does not       *)
(* matter to what Decode gives from there.                                 *)

LEMMA ShiftedPrefix ==
  ASSUME NEW S, NEW v \in Seq(S), NEW r \in Seq(S), NEW q \in Nat \ {0}, NEW u \in Seq(S)
  PROVE  hasPrefixAt(v \o r, Len(v) + q, u) <=> hasPrefixAt(r, q, u)
<1>1. /\ Len(v) \in Nat /\ Len(r) \in Nat /\ Len(u) \in Nat
      /\ Len(v \o r) = Len(v) + Len(r)
  BY LenProperties, ConcatProperties
<1>2. Len(v) + q + Len(u) - 1 <= Len(v \o r) <=> q + Len(u) - 1 <= Len(r)
  BY <1>1
<1>3. ASSUME q + Len(u) - 1 <= Len(r), NEW k \in 1..Len(u)
      PROVE (v \o r)[Len(v) + q + k - 1] = r[q + k - 1]
  <2>1. Len(v) + q + k - 1 \in 1..(Len(v) + Len(r)) /\ ~(Len(v) + q + k - 1 <= Len(v))
        /\ Len(v) + q + k - 1 - Len(v) = q + k - 1
    BY <1>1, <1>3
  <2> QED
    BY <2>1, ConcatProperties
<1> QED
  BY <1>2, <1>3 DEF hasPrefixAt

LEMMA ShiftedMatch ==
  ASSUME NEW S, NEW c, CodecType(S, c), NEW v \in Seq(S), NEW r \in Seq(S), NEW q \in Nat \ {0}
  PROVE  CodeMatch(c, v \o r, Len(v) + q) = CodeMatch(c, r, q)
<1>1. \A e \in EntrySet(c) : hasPrefixAt(v \o r, Len(v) + q, e.code) <=> hasPrefixAt(r, q, e.code)
  BY EntryType, ShiftedPrefix
<1> QED
  BY <1>1 DEF CodeMatch

LEMMA ShiftedStep ==
  ASSUME NEW S, NEW c, CodecType(S, c), Accepted(c), NEW v \in Seq(S), NEW r \in Seq(S),
         NEW q \in 1..Len(r)
  PROVE  DecodeStep(c, v \o r, Len(v) + q) = DecodeStep(c, r, q)
<1> DEFINE s == v \o r
           M == Len(v)
           N == Len(r)
           i == M + q
           n == Len(c.escape)
<1>1. /\ M \in Nat /\ N \in Nat /\ Len(s) = M + N
      /\ c.escape \in Seq(S) /\ n \in Nat /\ n > 0 /\ q \in 1..N
  BY LenProperties, ConcatProperties DEF CodecType, Accepted
<1>2. q \in Nat \ {0} /\ q + n \in Nat \ {0} /\ i + n = M + (q + n)
  <2> HIDE DEF M, N, n, s
  <2> QED
    BY <1>1
<1>3. \A k \in 1..N : s[M + k] = r[k]
  <2> SUFFICES ASSUME NEW k \in 1..N PROVE s[M + k] = r[k]
    OBVIOUS
  <2>1. M + k \in 1..(M + N) /\ ~(M + k <= M) /\ M + k - M = k
    <3> HIDE DEF M, N, s
    <3> QED
      BY <1>1
  <2> QED
    BY <2>1, ConcatProperties
<1>4. s[i] = r[q]
  BY <1>1, <1>3
<1>5. hasPrefixAt(s, i, c.escape) <=> hasPrefixAt(r, q, c.escape)
  BY <1>1, <1>2, ShiftedPrefix
<1>6. CodeMatch(c, s, i) = CodeMatch(c, r, q)
  BY <1>2, ShiftedMatch
<1>7. hasPrefixAt(s, i + n, c.escape) <=> hasPrefixAt(r, q + n, c.escape)
  <2>1. hasPrefixAt(s, M + (q + n), c.escape) <=> hasPrefixAt(r, q + n, c.escape)
    BY <1>1, <1>2, ShiftedPrefix
  <2> HIDE DEF s, M, n, i
  <2> QED
    BY <1>2, <2>1
<1>8. CodeMatch(c, s, i + n) = CodeMatch(c, r, q + n)
  <2>1. CodeMatch(c, s, M + (q + n)) = CodeMatch(c, r, q + n)
    <3> DEFINE k == q + n
    <3>1. k \in Nat \ {0}
      BY <1>2
    <3> HIDE DEF k
    <3> QED
      BY <3>1, ShiftedMatch DEF k
  <2> HIDE DEF s, M, n, i
  <2> QED
    BY <1>2, <2>1
<1>9. i + n > Len(s) <=> q + n > N
  <2> HIDE DEF M, N, n, s
  <2> QED
    BY <1>1
<1>10. ~(q + n > N) => s[i + n] = r[q + n]
  <2> HIDE DEF M, N, n, s, i
  <2> QED
    BY <1>1, <1>2, <1>3
<1> HIDE DEF s, M, i
<1>11. DecodeStep2(c, s, i) = DecodeStep2(c, r, q)
  <2>1. CASE hasPrefixAt(r, q, c.escape) /\ q + n > N
    BY <1>5, <1>9, <2>1 DEF DecodeStep2
  <2>2. CASE hasPrefixAt(r, q, c.escape) /\ ~(q + n > N)
    BY <1>5, <1>9, <1>10, <2>2 DEF DecodeStep2
  <2>3. CASE ~hasPrefixAt(r, q, c.escape)
    <3> DEFINE Plain(C, x) == IF C # {}
                              THEN LET e == CHOOSE e \in C : TRUE IN Take(Len(e.code), e.value)
                              ELSE Take(1, <<x>>)
    <3>1. DecodeStep2(c, r, q) = Plain(CodeMatch(c, r, q), r[q])
      BY <2>3 DEF DecodeStep2
    <3>2. DecodeStep2(c, s, i) = Plain(CodeMatch(c, s, i), s[i])
      BY <1>5, <2>3 DEF DecodeStep2
    <3> HIDE DEF Plain
    <3> QED
      BY <1>4, <1>6, <3>1, <3>2
  <2> QED
    BY <2>1, <2>2, <2>3
<1>12. DecodeStep1(c, s, i) = DecodeStep1(c, r, q)
  <2>1. CASE ~hasPrefixAt(r, q, c.escape)
    BY <1>4, <1>5, <2>1 DEF DecodeStep1
  <2>2. CASE hasPrefixAt(r, q, c.escape) /\ q + n > N
    BY <1>5, <1>9, <2>2 DEF DecodeStep1
  <2>3. CASE hasPrefixAt(r, q, c.escape) /\ ~(q + n > N) /\ hasPrefixAt(r, q + n, c.escape)
    BY <1>5, <1>7, <1>9, <2>3 DEF DecodeStep1
  <2>4. CASE hasPrefixAt(r, q, c.escape) /\ ~(q + n > N) /\ ~hasPrefixAt(r, q + n, c.escape)
    <3> DEFINE Known(C) == IF C = {} THEN Bad
                           ELSE LET e == CHOOSE e \in C : TRUE
                                IN Take(n + Len(e.code), e.value)
    <3>1. DecodeStep1(c, r, q) = Known(CodeMatch(c, r, q + n))
      BY <2>4 DEF DecodeStep1
    <3>2. DecodeStep1(c, s, i) = Known(CodeMatch(c, s, i + n))
      BY <1>5, <1>7, <1>9, <2>4 DEF DecodeStep1
    <3> HIDE DEF Known
    <3> QED
      BY <1>8, <3>1, <3>2
  <2> QED
    BY <2>1, <2>2, <2>3, <2>4
<1>13. DecodeStep(c, s, i) = DecodeStep(c, r, q)
  BY <1>11, <1>12 DEF DecodeStep
<1> QED
  BY <1>13 DEF s, i, M

LEMMA ShiftedDecode ==
  ASSUME NEW S, NEW c, CodecType(S, c), Accepted(c), NEW v \in Seq(S), NEW r \in Seq(S)
  PROVE  DecodeFrom(c, v \o r)[Len(v) + 1] = Decode(c, r)
<1> DEFINE s == v \o r
           F == DecodeFrom(c, s)
           G == DecodeFrom(c, r)
           N == Len(r)
           M == Len(v)
           T == {q \in 1..(N + 1) : F[M + q] = G[q]}
<1>1. N \in Nat /\ M \in Nat /\ s \in Seq(S) /\ Len(s) = M + N
  BY LenProperties, ConcatProperties
<1>2. ASSUME NEW q \in 1..(N + 1), \A k \in 1..(N + 1) : q < k => k \in T
      PROVE q \in T
  <2>1. CASE q = N + 1
    <3>1. M + q = Len(s) + 1
      BY <1>1, <2>1
    <3> QED
      BY <1>1, <2>1, <3>1, DecodeEnds
  <2>2. CASE q # N + 1
    <3> DEFINE t == DecodeStep(c, r, q)
    <3>1. q \in 1..N /\ M + q \in 1..Len(s)
      BY <1>1, <2>2
    <3>2. DecodeStep(c, s, M + q) = t
      BY <3>1, ShiftedStep
    <3>3. CASE t.err # "ok"
      <4>1. \A x \in Seq(S) : \A k \in 1..Len(x) :
              DecodeStep(c, x, k).err # "ok" =>
                DecodeFrom(c, x)[k] = [err |-> "failed", content |-> << >>]
        BY DecodeUnfolds
      <4>2. G[q] = [err |-> "failed", content |-> << >>]
            /\ F[M + q] = [err |-> "failed", content |-> << >>]
        <5> HIDE DEF s, M
        <5> QED
          BY <1>1, <3>1, <3>2, <3>3, <4>1
      <4> QED
        BY <4>2
    <3>4. CASE t.err = "ok"
      <4>1. G[q] = Onward(t.out, G[q + t.width])
        BY <3>1, <3>4, DecodeGoesOn
      <4>2. F[M + q] = Onward(t.out, F[(M + q) + t.width])
        BY <1>1, <3>1, <3>2, <3>4, DecodeGoesOn
      <4>3. t.width \in Nat \ {0} /\ q + t.width <= N + 1
        BY <1>1, <3>1, <3>4, DecodeTakes
      <4> HIDE DEF t
      <4>4. q + t.width \in 1..(N + 1) /\ q < q + t.width /\ (M + q) + t.width = M + (q + t.width)
        BY <1>1, <3>1, <4>3
      <4>5. F[M + (q + t.width)] = G[q + t.width]
        BY <1>2, <4>4
      <4> QED
        BY <4>1, <4>2, <4>4, <4>5
    <3> QED
      BY <3>3, <3>4
  <2> QED
    BY <2>1, <2>2
<1>3. 1 \in T
  <2> HIDE DEF T
  <2>1. \A q \in 1..(N + 1) : q \in T
    BY <1>1, <1>2, Backwards
  <2> QED
    BY <1>1, <2>1
<1> QED
  BY <1>3, DecodeIsFrom

(***************************************************************************)
(* For every text, every reversible dictionary of either format, and every *)
(* symbols r after the view of the text: Decode gives the text and what it *)
(* makes of r, or refuses the whole if it refuses r (codec.go:166-247).    *)
(***************************************************************************)
THEOREM TailKeepsText ==
  ASSUME NEW S, NEW c, CodecType(S, c), Reversible(c), NEW s \in Seq(S), NEW r \in Seq(S)
  PROVE  /\ Encode(c, s) \in Seq(S)
         /\ Decode(c, Encode(c, s) \o r) = Onward(s, Decode(c, r))
<1> DEFINE E == EncodeFrom(c, s)
           all == E[1]
           W == all \o r
           F == DecodeFrom(c, W)
           D == Decode(c, r)
           N == Len(s)
           Rest(p) == SubSeq(s, p, N)
           T == {p \in 1..(N + 1) :
                   \A u \in Seq(S) : all = u \o E[p] => F[Len(u) + 1] = Onward(Rest(p), D)}
<1>1. Accepted(c) /\ N \in Nat
  BY LenProperties DEF Reversible
<1>2. \A p \in 1..(N + 1) : E[p] \in Seq(S)
  BY <1>1, EncodeUnfolds
<1>3. E[N + 1] = << >>
  BY <1>1, EncodeUnfolds
<1>4. \A p \in 1..N : E[p] = EncodeStep(c, s, p).out \o E[p + EncodeStep(c, s, p).width]
  BY <1>1, EncodeUnfolds
<1> HIDE DEF E
<1>5. all \in Seq(S) /\ W \in Seq(S) /\ Len(W) \in Nat
  <2>1. all \in Seq(S)
    BY <1>1, <1>2
  <2> HIDE DEF all
  <2> QED
    BY <2>1, ConcatProperties, LenProperties
<1> HIDE DEF all
<1>6. F[Len(all) + 1] = D
  BY <1>1, <1>5, ShiftedDecode
<1>d. D \in Results(S)
  BY <1>1, DecodeEnds, DecodeIsFrom
<1> HIDE DEF W, D
<1>7. ASSUME NEW q \in 1..Len(W), DecodeStep(c, W, q).err = "ok"
      PROVE F[q] = Onward(DecodeStep(c, W, q).out, F[q + DecodeStep(c, W, q).width])
  BY <1>1, <1>5, <1>7, DecodeGoesOn
<1> HIDE DEF F
<1>8. ASSUME NEW p \in 1..(N + 1), \A k \in 1..(N + 1) : p < k => k \in T
      PROVE p \in T
  <2> SUFFICES ASSUME NEW u \in Seq(S), all = u \o E[p]
               PROVE F[Len(u) + 1] = Onward(Rest(p), D)
    OBVIOUS
  <2>1. CASE p = N + 1
    <3>1. all = u
      BY <1>3, <2>1, ConcatEmptySeq
    <3>2. Rest(p) = << >>
      BY <1>1, <2>1, SubSeqEmpty
    <3> QED
      BY <1>6, <1>d, <3>1, <3>2, OnwardFromNothing
  <2>2. CASE p # N + 1
    <3> DEFINE t == EncodeStep(c, s, p)
               taken == SubSeq(s, p, p + t.width - 1)
               q == Len(u) + 1
               v == u \o t.out
    <3>1. p \in 1..N
      BY <1>1, <2>2
    <3>2. /\ t.width \in Nat \ {0} /\ p + t.width <= N + 1
          /\ t.out \in Seq(S) /\ Len(t.out) > 0 /\ Len(t.out) \in Nat
      BY <1>1, <3>1, TurnTakes, LenProperties
    <3>3. p + t.width \in 1..(N + 1) /\ p < p + t.width
      BY <1>1, <3>1, <3>2
    <3>4. E[p] = t.out \o E[p + t.width] /\ E[p + t.width] \in Seq(S)
      BY <1>2, <1>4, <3>1, <3>3
    <3>5. hasPrefixAt(W, q, t.out)
      <4>1. hasPrefixAt(all, q, t.out)
        BY <3>2, <3>4, AfterPrefix
      <4>2. q \in Nat \ {0}
        BY LenProperties
      <4> HIDE DEF q, t
      <4> QED
        BY <1>5, <3>2, <4>1, <4>2, PrefixStays DEF W
    <3>6. q \in 1..Len(W)
      <4>1. q + Len(t.out) - 1 <= Len(W) /\ Len(u) \in Nat
        BY <3>5, LenProperties DEF hasPrefixAt
      <4>2. \A a, b, n \in Nat : a + 1 + b - 1 <= n /\ b > 0 => a + 1 \in 1..n
        OBVIOUS
      <4> HIDE DEF t
      <4> QED
        BY <1>5, <3>2, <4>1, <4>2
    <3>7. DecodeStep(c, W, q) = Take(Len(t.out), taken)
      <4>1. \A o \in Seq(S) : \A k \in 1..Len(o) : hasPrefixAt(o, k, t.out) =>
              DecodeStep(c, o, k) = Take(Len(t.out), taken)
        BY <3>1, TurnIsUndone
      <4> HIDE DEF q, t, taken
      <4> QED
        BY <1>5, <3>5, <3>6, <4>1, Zenon
    <3> HIDE DEF t
    <3>8. v \in Seq(S) /\ Len(v) = Len(u) + Len(t.out) /\ all = v \o E[p + t.width]
      <4>1. v \in Seq(S) /\ Len(v) = Len(u) + Len(t.out)
        BY <3>2, ConcatProperties
      <4>2. (u \o t.out) \o E[p + t.width] = u \o (t.out \o E[p + t.width])
        <5> DEFINE a == t.out
                   b == E[p + t.width]
        <5>1. a \in Seq(S) /\ b \in Seq(S)
          BY <3>2, <3>4
        <5> HIDE DEF a, b
        <5>2. (u \o a) \o b = u \o (a \o b)
          BY <5>1, ConcatAssociative
        <5> QED
          BY <5>2 DEF a, b
      <4> QED
        BY <3>4, <4>1, <4>2
    <3>9. F[Len(v) + 1] = Onward(Rest(p + t.width), D)
      <4>1. p + t.width \in T
        BY <1>8, <3>3
      <4> HIDE DEF v
      <4> QED
        BY <3>8, <4>1
    <3>10. Len(v) + 1 = q + Len(t.out)
      <4>1. \A a, b \in Nat : (a + b) + 1 = (a + 1) + b
        OBVIOUS
      <4>2. Len(u) \in Nat
        BY LenProperties
      <4> QED
        BY <3>2, <3>8, <4>1, <4>2
    <3> DEFINE d == Take(Len(t.out), taken)
    <3>11. d.err = "ok" /\ d.width = Len(t.out) /\ d.out = taken
      BY DEF Take
    <3> HIDE DEF d, q, v, taken
    <3>12. F[q + d.width] = Onward(Rest(p + t.width), D)
      BY <3>9, <3>10, <3>11
    <3>13. F[q] = Onward(d.out, F[q + d.width])
      <4>1. DecodeStep(c, W, q) = d
        BY <3>7 DEF d
      <4> QED
        BY <1>7, <3>6, <3>11, <4>1
    <3> DEFINE k == p + t.width - 1
    <3>14. p \in 1..(N + 1) /\ k \in (p - 1)..N /\ N \in k..N /\ p + t.width = k + 1
      BY <1>1, <3>1, <3>2
    <3> HIDE DEF k
    <3>15. taken \o Rest(p + t.width) = Rest(p)
      <4>1. SubSeq(s, p, k) \o SubSeq(s, k + 1, N) = SubSeq(s, p, N)
        BY <3>14, ConcatAdjacentSubSeq
      <4> QED
        BY <3>14, <4>1 DEF taken, k, Rest
    <3>16. taken \in Seq(S) /\ Rest(p + t.width) \in Seq(S)
      <4>1. \A a, b \in Int : (\A x \in a..b : x \in 1..N) => SubSeq(s, a, b) \in Seq(S)
        BY SubSeqProperties
      <4>2. /\ p \in Int /\ k \in Int /\ p + t.width \in Int /\ N \in Int
            /\ \A x \in p..k : x \in 1..N
            /\ \A x \in (p + t.width)..N : x \in 1..N
        BY <1>1, <3>1, <3>2, <3>14
      <4>3. SubSeq(s, p, k) \in Seq(S) /\ SubSeq(s, p + t.width, N) \in Seq(S)
        BY <4>1, <4>2
      <4> QED
        BY <4>3 DEF taken, k, Rest
    <3> HIDE DEF Rest
    <3>17. F[q] = Onward(taken \o Rest(p + t.width), D)
      BY <1>d, <3>11, <3>12, <3>13, <3>16, OnwardTwice
    <3> QED
      BY <3>15, <3>17 DEF q
  <2> QED
    BY <2>1, <2>2
<1>9. 1 \in T
  <2> HIDE DEF T
  <2>1. \A p \in 1..(N + 1) : p \in T
    BY <1>1, <1>8, Backwards
  <2> QED
    BY <1>1, <2>1
<1>10. F[1] = Onward(s, D)
  <2>1. << >> \in Seq(S) /\ Len(<< >>) = 0 /\ all = << >> \o E[1]
    BY <1>1, <1>2, ConcatEmptySeq DEF all
  <2>2. F[Len(<< >>) + 1] = Onward(Rest(1), D)
    BY <1>9, <2>1
  <2>3. Rest(1) = s
    BY SubSeqFull
  <2>4. Len(<< >>) + 1 = 1
    BY <2>1
  <2> HIDE DEF Rest
  <2>5. F[1] = Onward(Rest(1), D)
    BY <2>2, <2>4
  <2> QED
    BY <2>3, <2>5
<1>11. Encode(c, s) = all
  BY EncodeIsFrom DEF all, E
<1>12. Decode(c, W) = F[1]
  BY DecodeIsFrom DEF F
<1> QED
  BY <1>5, <1>10, <1>11, <1>12 DEF W, D

(***************************************************************************)
(* "Reversible transport codecs" (docs/DEEP_DIVE.md:12): the view alone is *)
(* accepted and gives the text back (codec.go:119-247).                    *)
(***************************************************************************)
THEOREM DecodeUndoesEncode ==
  ASSUME NEW S, NEW c, CodecType(S, c), Reversible(c), NEW s \in Seq(S)
  PROVE  /\ Encode(c, s) \in Seq(S)
         /\ Decode(c, Encode(c, s)) = [err |-> "ok", content |-> s]
<1>1. << >> \in Seq(S) /\ Len(<< >>) + 1 = 1
  BY EmptySeq
<1>2. Decode(c, << >>) = [err |-> "ok", content |-> << >>]
  BY <1>1, DecodeEnds, DecodeIsFrom DEF Reversible
<1>3. Encode(c, s) \in Seq(S)
      /\ Decode(c, Encode(c, s) \o << >>) = Onward(s, Decode(c, << >>))
  <2> DEFINE none == << >>
  <2>1. none \in Seq(S)
    BY <1>1
  <2> HIDE DEF none
  <2>2. Encode(c, s) \in Seq(S)
        /\ Decode(c, Encode(c, s) \o none) = Onward(s, Decode(c, none))
    BY <2>1, TailKeepsText
  <2> QED
    BY <2>2 DEF none
<1>4. Encode(c, s) \o << >> = Encode(c, s) /\ s \o << >> = s
  BY <1>3, ConcatEmptySeq
<1>5. Onward(s, Decode(c, << >>)) = [err |-> "ok", content |-> s \o << >>]
  BY <1>2 DEF Onward
<1> QED
  BY <1>3, <1>4, <1>5

-----------------------------------------------------------------------------
(* A view cut at any place. *)

\* What is left of a after as many symbols as u has.
After(a, u) == SubSeq(a, Len(u) + 1, Len(a))

\* Two ways of cutting one text, the first not before the second.
TwoCuts(S, a, b, u, d) ==
  /\ a \in Seq(S) /\ b \in Seq(S) /\ u \in Seq(S) /\ d \in Seq(S)
  /\ a \o b = u \o d /\ Len(u) <= Len(a)

Between(S, a, b, u, d) ==
  After(a, u) \in Seq(S) /\ a = u \o After(a, u) /\ After(a, u) \o b = d

\* The longer beginning contains the other.
LEMMA LongerBeginning ==
  ASSUME NEW S, NEW a, NEW b, NEW u, NEW d, TwoCuts(S, a, b, u, d)
  PROVE  Between(S, a, b, u, d)
<1> /\ a \in Seq(S) /\ b \in Seq(S) /\ u \in Seq(S) /\ d \in Seq(S)
    /\ a \o b = u \o d /\ Len(u) <= Len(a)
  BY DEF TwoCuts
<1> DEFINE n == Len(u)
           m == Len(a)
           h == SubSeq(a, 1, n)
           g == SubSeq(a, n + 1, m)
<1>1. n \in Nat /\ m \in Nat /\ n <= m /\ Len(b) \in Nat /\ Len(d) \in Nat
  BY LenProperties
<1>2. \A k \in 1..m : a[k] \in S
  BY ElementOfSeq
<1>3. h \in Seq(S) /\ Len(h) = n /\ \A k \in 1..n : h[k] = a[k]
  <2>1. \A k \in 1..n : a[k] \in S
    BY <1>1, <1>2
  <2>2. h \in Seq(S) /\ Len(h) = (IF 1 <= n THEN n - 1 + 1 ELSE 0)
        /\ \A k \in 1..(n - 1 + 1) : h[k] = a[1 + k - 1]
    BY <1>1, <2>1, SubSeqProperties
  <2> HIDE DEF h, n
  <2> QED
    BY <1>1, <2>2
<1>4. g \in Seq(S)
  <2>1. \A k \in (n + 1)..m : a[k] \in S
    BY <1>1, <1>2
  <2> QED
    BY <1>1, <2>1, SubSeqProperties
<1>5. a = h \o g
  <2>1. 1 \in 1..(m + 1) /\ n \in (1 - 1)..m /\ m \in n..m
    BY <1>1
  <2>2. SubSeq(a, 1, n) \o SubSeq(a, n + 1, m) = SubSeq(a, 1, m)
    BY <2>1, ConcatAdjacentSubSeq
  <2> QED
    BY <2>2, SubSeqFull
<1> HIDE DEF h, g
<1>6. h = u
  <2>1. ASSUME NEW k \in 1..n PROVE h[k] = u[k]
    <3>1. k \in 1..(m + Len(b)) /\ k \in 1..(n + Len(d)) /\ k <= m /\ k <= n
      BY <1>1
    <3>2. (a \o b)[k] = a[k] /\ (u \o d)[k] = u[k]
      BY <3>1, ConcatProperties
    <3> QED
      BY <1>3, <3>2
  <2> QED
    BY <1>3, <2>1, SeqEqual
<1>7. a = u \o g
  BY <1>5, <1>6
<1>8. u \o (g \o b) = u \o d
  <2>1. (u \o g) \o b = u \o (g \o b)
    BY <1>4, ConcatAssociative
  <2> QED
    BY <1>7, <2>1
<1>9. g \o b = d
  <2>1. g \o b \in Seq(S)
    BY <1>4, ConcatProperties
  <2>2. \A v, w \in Seq(S) : u \o v = u \o w => v = w
    BY ConcatSimplifications
  <2> QED
    BY <1>8, <2>1, <2>2
<1> QED
  BY <1>4, <1>7, <1>9 DEF Between, After, g

\* A text begins with each of its beginnings.
LEMMA BeginsWith ==
  ASSUME NEW S, NEW a \in Seq(S), NEW b \in Seq(S)
  PROVE  hasPrefixAt(a \o b, 1, a)
<1>1. Len(a) \in Nat /\ Len(b) \in Nat /\ Len(a \o b) = Len(a) + Len(b)
  BY LenProperties, ConcatProperties
<1>2. ASSUME NEW k \in 1..Len(a) PROVE (a \o b)[1 + k - 1] = a[k]
  <2>1. k \in 1..(Len(a) + Len(b)) /\ k <= Len(a) /\ 1 + k - 1 = k
    BY <1>1
  <2> QED
    BY <2>1, ConcatProperties
<1>3. 1 + Len(a) - 1 <= Len(a \o b)
  BY <1>1
<1> QED
  BY <1>2, <1>3 DEF hasPrefixAt

(***************************************************************************)
(* A part of what one turn of Encode puts out, but not all of it, is no    *)
(* turn of Decode: an escape alone, or one and a part of a code.           *)
(***************************************************************************)
LEMMA CutTurnFails ==
  ASSUME NEW S, NEW c, CodecType(S, c), Reversible(c), NEW s \in Seq(S), NEW p \in 1..Len(s),
         NEW o \in Seq(S), Len(o) > 0, Len(o) < Len(EncodeStep(c, s, p).out),
         hasPrefixAt(EncodeStep(c, s, p).out, 1, o)
  PROVE  DecodeStep(c, o, 1).err # "ok"
<1> DEFINE x == c.escape[1]
           t == EncodeStep(c, s, p)
<1>1. /\ c.escape \in Seq(S) /\ Len(c.escape) = 1 /\ c.escape = <<x>> /\ c.version \in Versions
      /\ x \in S /\ s[p] \in S
  BY ElementOfSeq DEF CodecType, Reversible
<1>2. Len(o) \in Nat \ {0} /\ \A k \in 1..Len(o) : o[k] = t.out[k]
  BY LenProperties DEF hasPrefixAt
<1>3. Len(o) < Len(t.out)
  OBVIOUS
<1> HIDE DEF t
<1>4. \A k \in 1..Len(o) : hasPrefixAt(o, k, c.escape) <=> o[k] = x
  BY <1>1 DEF hasPrefixAt
<1>b. Bad.err # "ok"
  BY DEF Bad
<1>5. ASSUME o[1] = x, Len(o) = 1 PROVE DecodeStep(c, o, 1) = Bad
  <2>1. hasPrefixAt(o, 1, c.escape) /\ 1 + Len(c.escape) > Len(o)
    BY <1>1, <1>4, <1>5
  <2> QED
    BY <2>1 DEF DecodeStep, DecodeStep1, DecodeStep2
<1>w. ASSUME NEW y, t.out = <<x, y>> PROVE DecodeStep(c, o, 1).err # "ok"
  <2>1. Len(t.out) = 2 /\ t.out[1] = x
    BY <1>w
  <2>2. Len(o) = 1
    <3>1. Len(o) < 2 /\ Len(o) \in Nat \ {0}
      BY <1>2, <1>3, <2>1
    <3>2. \A n \in Nat \ {0} : n < 2 => n = 1
      OBVIOUS
    <3> QED
      BY <3>1, <3>2
  <2>3. o[1] = x
    BY <1>2, <2>1, <2>2
  <2> QED
    BY <1>5, <1>b, <2>2, <2>3
<1>6. CASE t = Take(1, <<x, x>>)
  <2>1. t.out = <<x, x>>
    BY <1>6 DEF Take
  <2> QED
    BY <1>w, <2>1
<1>7. ASSUME NEW e \in EntrySet(c), e.code = <<s[p]>>, t = Take(1, <<x>> \o e.code)
      PROVE DecodeStep(c, o, 1).err # "ok"
  <2>1. t.out = <<x, s[p]>>
    BY <1>1, <1>7, TwoSymbols DEF Take
  <2> QED
    BY <1>w, <2>1
<1>8. ASSUME NEW e \in EntrySet(c), c.version = "tce1", t.out = <<x>> \o e.code
      PROVE DecodeStep(c, o, 1).err # "ok"
  <2> DEFINE g == e.code
             n == Len(o)
  <2>1. /\ g \in Seq(S) /\ Len(g) \in Nat /\ Len(g) > 0 /\ n \in Nat \ {0}
        /\ Len(t.out) = 1 + Len(g) /\ t.out[1] = x
        /\ \A k \in 1..Len(g) : t.out[k + 1] = g[k]
    BY <1>1, <1>2, <1>8, EntryType, AcceptedCode, LenProperties, OneBefore DEF Reversible
  <2>2. n <= Len(g) /\ o[1] = x /\ \A k \in 1..(n - 1) : o[k + 1] = g[k]
    <3> HIDE DEF n, g
    <3>1. n < 1 + Len(g)
      BY <1>3, <2>1 DEF n
    <3>2. n <= Len(g)
      BY <2>1, <3>1
    <3>3. o[1] = x
      BY <1>2, <2>1 DEF n
    <3>4. ASSUME NEW k \in 1..(n - 1) PROVE o[k + 1] = g[k]
      <4>1. k + 1 \in 1..n /\ k \in 1..Len(g)
        BY <2>1, <3>2
      <4> QED
        BY <1>2, <2>1, <4>1 DEF n
    <3> QED
      BY <3>2, <3>3, <3>4
  <2>3. CASE n = 1
    BY <1>5, <1>b, <2>2, <2>3
  <2>4. CASE n # 1
    <3>1. o[2] = g[1] /\ 2 \in 1..n
      <4>1. 1 \in 1..(n - 1) /\ 1 + 1 = 2 /\ 2 \in 1..n
        <5> HIDE DEF n
        <5> QED
          BY <2>1, <2>4
      <4> HIDE DEF g, n
      <4> QED
        BY <2>2, <4>1
    <3>2. hasPrefixAt(o, 1, c.escape) /\ ~hasPrefixAt(o, 2, c.escape)
      <4>1. g[1] # x
        BY DEF Reversible
      <4> QED
        BY <1>4, <2>1, <2>2, <3>1, <4>1
    <3>3. CodeMatch(c, o, 2) = {}
      <4> SUFFICES ASSUME NEW d \in EntrySet(c), hasPrefixAt(o, 2, d.code) PROVE FALSE
        BY DEF CodeMatch
      <4>1. Len(d.code) \in Nat /\ Len(d.code) > 0 /\ 2 + Len(d.code) - 1 <= n
            /\ \A k \in 1..Len(d.code) : o[2 + k - 1] = d.code[k]
        BY EntryType, AcceptedCode, LenProperties DEF hasPrefixAt, Reversible
      <4>2. Len(d.code) <= n - 1 /\ Len(d.code) < Len(g)
        <5> HIDE DEF n, g
        <5> QED
          BY <2>1, <2>2, <4>1
      <4>3. ASSUME NEW k \in 1..Len(d.code) PROVE g[1 + k - 1] = d.code[k]
        <5>1. k \in 1..(n - 1) /\ 2 + k - 1 = k + 1 /\ 1 + k - 1 = k
          BY <2>1, <4>1, <4>2
        <5> QED
          BY <2>2, <4>1, <5>1
      <4>4. 1 + Len(d.code) - 1 <= Len(g)
        BY <2>1, <4>1, <4>2
      <4>5. hasPrefixAt(e.code, 1, d.code)
        BY <4>3, <4>4 DEF hasPrefixAt
      <4>6. d = e
        BY <4>5 DEF Reversible
      <4> QED
        BY <2>1, <4>2, <4>6
    <3>4. 1 + Len(c.escape) = 2 /\ ~(2 > n)
      BY <1>1, <2>1, <2>4
    <3>5. DecodeStep1(c, o, 1) = Bad
      BY <3>2, <3>3, <3>4 DEF DecodeStep1
    <3>6. DecodeStep(c, o, 1) = Bad
      BY <1>8, <3>5 DEF DecodeStep
    <3> QED
      BY <1>b, <3>6
  <2> QED
    BY <2>3, <2>4
<1>9. ASSUME Len(t.out) = 1 PROVE FALSE
  BY <1>2, <1>3, <1>9
<1>10. CASE t = Take(1, <<s[p]>>)
  <2>1. t.out = <<s[p]>>
    BY <1>10 DEF Take
  <2> QED
    BY <1>9, <2>1
<1>11. ASSUME NEW e \in EntrySet(c), c.version # "tce1", t.out = e.code
       PROVE DecodeStep(c, o, 1).err # "ok"
  <2>1. c.version = "tce2"
    BY <1>1, <1>11 DEF Versions
  <2> QED
    BY <1>9, <1>11, <2>1 DEF Reversible
<1>12. ASSUME NEW e \in EntrySet(c),
              t = Take(Len(e.value), IF c.version = "tce1" THEN <<x>> \o e.code ELSE e.code)
       PROVE DecodeStep(c, o, 1).err # "ok"
  <2>1. t.out = IF c.version = "tce1" THEN <<x>> \o e.code ELSE e.code
    BY <1>12 DEF Take
  <2>2. CASE c.version = "tce1"
    BY <1>8, <2>1, <2>2
  <2>3. CASE c.version # "tce1"
    BY <1>11, <2>1, <2>3
  <2> QED
    BY <2>2, <2>3
<1>13. \/ t = Take(1, <<x, x>>)
       \/ \E e \in EntrySet(c) : e.code = <<s[p]>> /\ t = Take(1, <<x>> \o e.code)
       \/ \E e \in EntrySet(c) :
            t = Take(Len(e.value), IF c.version = "tce1" THEN <<x>> \o e.code ELSE e.code)
       \/ t = Take(1, <<s[p]>>)
  <2>1. \/ s[p] = x /\ t = Take(1, <<x, x>>)
        \/ /\ s[p] # x /\ c.version = "tce2"
           /\ \E e \in EntrySet(c) : e.code = <<s[p]>> /\ t = Take(1, <<x>> \o e.code)
        \/ /\ s[p] # x
           /\ \E e \in EntrySet(c) :
                /\ Len(e.value) > 0 /\ hasPrefixAt(s, p, e.value)
                /\ t = Take(Len(e.value), IF c.version = "tce1" THEN <<x>> \o e.code ELSE e.code)
        \/ /\ s[p] # x /\ t = Take(1, <<s[p]>>)
           /\ c.version = "tce2" => CodeMatch(c, s, p) = {}
    BY EncodeStepCases DEF t
  <2> QED
    BY <2>1
<1> QED
  BY <1>6, <1>7, <1>10, <1>12, <1>13

(***************************************************************************)
(* For every text and every reversible dictionary: a view cut after any of *)
(* its symbols is refused, or decodes to a beginning of the text           *)
(* (codec.go:166-247).                                                     *)
(***************************************************************************)
THEOREM CutViewDecodes ==
  ASSUME NEW S, NEW c, CodecType(S, c), Reversible(c), NEW s \in Seq(S),
         NEW k \in 0..Len(Encode(c, s)), Decode(c, SubSeq(Encode(c, s), 1, k)).err = "ok"
  PROVE  hasPrefixAt(s, 1, Decode(c, SubSeq(Encode(c, s), 1, k)).content)
<1>0. \A f, g, h \in Seq(S) : (f \o g) \o h = f \o (g \o h)
  BY ConcatAssociative
<1> DEFINE E == EncodeFrom(c, s)
           N == Len(s)
           Rest(p) == SubSeq(s, p, N)
           T == {p \in 1..(N + 1) :
                   \A o, z \in Seq(S) : o \o z = E[p] /\ Decode(c, o).err = "ok" =>
                     \E w \in Seq(S) : Decode(c, o).content \o w = Rest(p)}
<1>1. Accepted(c) /\ N \in Nat
  BY LenProperties DEF Reversible
<1>2. \A p \in 1..(N + 1) : E[p] \in Seq(S)
  BY <1>1, EncodeUnfolds
<1>3. E[N + 1] = << >>
  BY <1>1, EncodeUnfolds
<1>4. \A p \in 1..N : E[p] = EncodeStep(c, s, p).out \o E[p + EncodeStep(c, s, p).width]
  BY <1>1, EncodeUnfolds
<1> HIDE DEF E
<1>5. \A p \in 1..(N + 1) : Rest(p) \in Seq(S)
  <2> SUFFICES ASSUME NEW p \in 1..(N + 1) PROVE SubSeq(s, p, N) \in Seq(S)
    OBVIOUS
  <2>1. \A x \in p..N : s[x] \in S
    BY <1>1, ElementOfSeq
  <2> QED
    BY <1>1, <2>1, SubSeqProperties
<1>6. \A o \in Seq(S) : Decode(c, o) \in Results(S)
  BY <1>1, DecodeEnds, DecodeIsFrom
<1>7. ASSUME NEW p \in 1..(N + 1), NEW o \in Seq(S), Len(o) = 0
      PROVE \E w \in Seq(S) : Decode(c, o).content \o w = Rest(p)
  <2>1. o = << >>
    BY <1>7, EmptySeq
  <2>2. Decode(c, o) = [err |-> "ok", content |-> << >>]
    <3>1. Len(o) + 1 = 1
      BY <1>7
    <3>2. DecodeFrom(c, o)[Len(o) + 1] = [err |-> "ok", content |-> << >>]
      BY <1>1, DecodeEnds
    <3> QED
      BY <3>1, <3>2, DecodeIsFrom
  <2>3. << >> \o Rest(p) = Rest(p)
    BY <1>5, ConcatEmptySeq
  <2> HIDE DEF Rest
  <2> QED
    BY <1>5, <2>2, <2>3
<1>8. ASSUME NEW p \in 1..(N + 1), \A q \in 1..(N + 1) : p < q => q \in T
      PROVE p \in T
  <2> SUFFICES ASSUME NEW o \in Seq(S), NEW z \in Seq(S), o \o z = E[p], Decode(c, o).err = "ok"
               PROVE \E w \in Seq(S) : Decode(c, o).content \o w = Rest(p)
    OBVIOUS
  <2>1. CASE p = N + 1
    <3>1. o \o z = << >>
      BY <1>3, <2>1
    <3>2. o = << >>
      BY <3>1, ConcatEqualIffEmpty
    <3>3. Len(o) = 0
      BY <3>2
    <3> QED
      BY <1>7, <3>3
  <2>2. CASE p # N + 1
    <3> DEFINE t == EncodeStep(c, s, p)
               a == t.out
               b == E[p + t.width]
               taken == SubSeq(s, p, p + t.width - 1)
    <3>1. p \in 1..N
      BY <1>1, <2>2
    <3>2. /\ t.width \in Nat \ {0} /\ p + t.width <= N + 1
          /\ a \in Seq(S) /\ Len(a) > 0 /\ Len(a) \in Nat
      BY <1>1, <3>1, TurnTakes, LenProperties
    <3>3. p + t.width \in 1..(N + 1) /\ p < p + t.width
      BY <1>1, <3>1, <3>2
    <3>4. o \o z = a \o b /\ b \in Seq(S)
      BY <1>2, <1>4, <3>1, <3>3
    <3>5. Len(o) \in Nat
      BY LenProperties
    <3>6. CASE Len(o) = 0
      BY <1>7, <3>6
    <3>7. CASE Len(o) > 0 /\ Len(o) < Len(a)
      <4>1. hasPrefixAt(a, 1, o)
        <5>1. TwoCuts(S, a, b, o, z)
          BY <3>2, <3>4, <3>5, <3>7 DEF TwoCuts
        <5> HIDE DEF a, b
        <5>2. Between(S, a, b, o, z)
          BY <5>1, LongerBeginning
        <5> QED
          BY <5>2, BeginsWith DEF Between
      <4>2. DecodeStep(c, o, 1).err # "ok"
        BY <3>1, <3>7, <4>1, CutTurnFails
      <4>3. 1 \in 1..Len(o)
        BY <3>5, <3>7
      <4>4. DecodeFrom(c, o)[1].err = "failed"
        BY <1>1, <4>2, <4>3, DecodeFails
      <4> QED
        BY <4>4, DecodeIsFrom
    <3>8. CASE ~(Len(o) < Len(a))
      <4>1. Len(a) <= Len(o)
        BY <3>2, <3>5, <3>8
      <4> DEFINE g == After(o, a)
      <4>2. g \in Seq(S) /\ o = a \o g /\ g \o z = b
        <5>1. TwoCuts(S, o, z, a, b)
          BY <3>2, <3>4, <4>1 DEF TwoCuts
        <5> HIDE DEF a, b
        <5>2. Between(S, o, z, a, b)
          BY <5>1, LongerBeginning
        <5> QED
          BY <5>2 DEF Between
      <4> HIDE DEF g
      <4>3. hasPrefixAt(o, 1, a) /\ 1 \in 1..Len(o)
        <5>1. 1 \in 1..Len(o)
          BY <3>2, <3>5, <4>1
        <5> HIDE DEF a
        <5> QED
          BY <3>2, <4>2, <5>1, BeginsWith
      <4>4. DecodeStep(c, o, 1) = Take(Len(a), taken)
        BY <3>1, <4>3, TurnIsUndone
      <4> DEFINE d == Take(Len(a), taken)
      <4>5. d.err = "ok" /\ d.width = Len(a) /\ d.out = taken
        BY DEF Take
      <4> HIDE DEF d, taken, a
      <4>6. DecodeFrom(c, o)[1] = Onward(taken, DecodeFrom(c, o)[1 + Len(a)])
        <5>1. DecodeStep(c, o, 1) = d
          BY <4>4 DEF d
        <5>2. DecodeFrom(c, o)[1] = Onward(DecodeStep(c, o, 1).out,
                                           DecodeFrom(c, o)[1 + DecodeStep(c, o, 1).width])
          BY <1>1, <4>3, <4>5, <5>1, DecodeGoesOn
        <5> QED
          BY <4>5, <5>1, <5>2
      <4>7. DecodeFrom(c, o)[1 + Len(a)] = Decode(c, g)
        <5>1. Len(a) + 1 = 1 + Len(a)
          BY <3>2
        <5>2. DecodeFrom(c, a \o g)[Len(a) + 1] = Decode(c, g)
          BY <1>1, <3>2, <4>2, ShiftedDecode
        <5> QED
          BY <4>2, <5>1, <5>2
      <4>8. Decode(c, o) = Onward(taken, Decode(c, g))
        BY <4>6, <4>7, DecodeIsFrom
      <4>9. Decode(c, g).err = "ok" /\ Decode(c, o).content = taken \o Decode(c, g).content
        BY <4>8 DEF Onward
      <4>10. PICK w \in Seq(S) : Decode(c, g).content \o w = Rest(p + t.width)
        <5>1. p + t.width \in T
          BY <1>8, <3>3
        <5> HIDE DEF t
        <5> QED
          BY <4>2, <4>9, <5>1
      <4> DEFINE e == Decode(c, g).content
                 k1 == p + t.width - 1
      <4>11. e \in Seq(S)
        BY <1>6, <4>2 DEF Results
      <4>12. p \in 1..(N + 1) /\ k1 \in (p - 1)..N /\ N \in k1..N /\ p + t.width = k1 + 1
        <5> HIDE DEF t
        <5> QED
          BY <1>1, <3>1, <3>2
      <4> HIDE DEF k1, e, t
      <4>13. taken \o Rest(p + t.width) = Rest(p)
        <5>1. SubSeq(s, p, k1) \o SubSeq(s, k1 + 1, N) = SubSeq(s, p, N)
          BY <4>12, ConcatAdjacentSubSeq
        <5> QED
          BY <4>12, <5>1 DEF taken, k1, Rest
      <4>14. taken \in Seq(S)
        <5>1. \A x \in p..k1 : s[x] \in S
          BY <1>1, <4>12, ElementOfSeq
        <5>2. SubSeq(s, p, k1) \in Seq(S)
          <6>1. p \in Int /\ k1 \in Int
            BY <1>1, <4>12
          <6> QED
            BY <5>1, <6>1, SubSeqProperties
        <5> QED
          BY <5>2 DEF taken, k1
      <4>15. (taken \o e) \o w = taken \o (e \o w)
        <5>1. taken \in Seq(S) /\ e \in Seq(S) /\ w \in Seq(S)
          BY <4>10, <4>11, <4>14
        <5> HIDE DEF taken, e, T, Rest
        <5> QED
          BY <1>0, <5>1, Zenon
      <4> HIDE DEF Rest
      <4> QED
        BY <4>9, <4>10, <4>13, <4>15 DEF e
    <3>9. Len(o) = 0 \/ (Len(o) > 0 /\ Len(o) < Len(a)) \/ ~(Len(o) < Len(a))
      <4> HIDE DEF a, t, T, Rest
      <4> QED
        BY <3>5
    <3> QED
      BY <3>6, <3>7, <3>8, <3>9
  <2> QED
    BY <2>1, <2>2
<1>9. 1 \in T
  <2> HIDE DEF T
  <2>1. \A p \in 1..(N + 1) : p \in T
    BY <1>1, <1>8, Backwards
  <2> QED
    BY <1>1, <2>1
<1> DEFINE all == Encode(c, s)
           o == SubSeq(all, 1, k)
           z == SubSeq(all, k + 1, Len(all))
<1>10. all = E[1] /\ all \in Seq(S) /\ Len(all) \in Nat /\ k \in 0..Len(all)
  <2>1. all = E[1]
    BY EncodeIsFrom DEF E
  <2> QED
    BY <1>1, <1>2, <2>1, LenProperties
<1>11. Decode(c, o).err = "ok"
  OBVIOUS
<1> HIDE DEF all
<1>12. o \in Seq(S) /\ z \in Seq(S)
  <2>1. \A x \in 1..Len(all) : all[x] \in S
    BY <1>10, ElementOfSeq
  <2>2. (\A x \in 1..k : all[x] \in S) /\ (\A x \in (k + 1)..Len(all) : all[x] \in S)
    BY <1>10, <2>1
  <2>3. k \in Int /\ k + 1 \in Int /\ Len(all) \in Int
    BY <1>10
  <2> QED
    BY <2>2, <2>3, SubSeqProperties
<1>13. o \o z = all
  <2>1. 1 \in 1..(Len(all) + 1) /\ k \in (1 - 1)..Len(all) /\ Len(all) \in k..Len(all)
    BY <1>10
  <2>2. SubSeq(all, 1, k) \o SubSeq(all, k + 1, Len(all)) = SubSeq(all, 1, Len(all))
    BY <1>10, <2>1, ConcatAdjacentSubSeq
  <2> QED
    BY <1>10, <2>2, SubSeqFull
<1>14. Rest(1) = s
  BY SubSeqFull
<1> HIDE DEF o, z, Rest
<1>15. PICK w \in Seq(S) : Decode(c, o).content \o w = s
  BY <1>9, <1>10, <1>11, <1>12, <1>13, <1>14
<1>16. hasPrefixAt(s, 1, Decode(c, o).content)
  <2>1. Decode(c, o).content \in Seq(S)
    BY <1>6, <1>12 DEF Results
  <2> QED
    BY <1>15, <2>1, BeginsWith
<1> QED
  BY <1>16 DEF o, all

(***************************************************************************)
(* When every turn puts out symbols of R only, so does Encode.             *)
(***************************************************************************)
LEMMA EncodeStaysIn ==
  ASSUME NEW S, NEW c, CodecType(S, c), Accepted(c), NEW s \in Seq(S), NEW R,
         \A p \in 1..Len(s) : EncodeStep(c, s, p).out \in Seq(R)
  PROVE  Encode(c, s) \in Seq(R)
<1> DEFINE E == EncodeFrom(c, s)
           N == Len(s)
           T == {p \in 1..(N + 1) : E[p] \in Seq(R)}
<1>1. N \in Nat
  BY LenProperties
<1>2. E[N + 1] = << >>
  BY EncodeUnfolds
<1>3. \A p \in 1..N : E[p] = EncodeStep(c, s, p).out \o E[p + EncodeStep(c, s, p).width]
  BY EncodeUnfolds
<1> HIDE DEF E
<1>4. ASSUME NEW p \in 1..(N + 1), \A k \in 1..(N + 1) : p < k => k \in T
      PROVE p \in T
  <2>1. CASE p = N + 1
    <3>1. E[p] = << >> /\ << >> \in Seq(R)
      BY <1>2, <2>1
    <3> QED
      BY <3>1
  <2>2. CASE p # N + 1
    <3> DEFINE t == EncodeStep(c, s, p)
               rest == E[p + t.width]
    <3>1. p \in 1..N
      BY <1>1, <2>2
    <3>2. t.width \in Nat \ {0} /\ p + t.width <= N + 1
      BY <3>1, TurnTakes
    <3>3. p + t.width \in 1..(N + 1) /\ p < p + t.width
      BY <1>1, <3>1, <3>2
    <3>4. t.out \in Seq(R) /\ rest \in Seq(R)
      BY <1>4, <3>1, <3>3
    <3>5. E[p] = t.out \o rest
      BY <1>3, <3>1
    <3> HIDE DEF t, rest
    <3> QED
      BY <3>4, <3>5, ConcatProperties
  <2> QED
    BY <2>1, <2>2
<1>5. 1 \in T
  <2> HIDE DEF T
  <2>1. \A p \in 1..(N + 1) : p \in T
    BY <1>1, <1>4, Backwards
  <2> QED
    BY <1>1, <2>1
<1>6. E[1] \in Seq(R)
  BY <1>5
<1> QED
  BY <1>6, EncodeIsFrom DEF E
=============================================================================
