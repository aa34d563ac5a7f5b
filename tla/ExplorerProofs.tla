--------------------------- MODULE ExplorerProofs ---------------------------
(***************************************************************************)
(* Theorems about Explorer, for every tree, list of skip patterns, limit,  *)
(* alphabet, list of symbols and edit during the scan: what a scan reads   *)
(* is bounded, and the dictionary that comes of it is reversible, is the   *)
(* one that was measured, and (tce2) lengthens no file that was scanned.   *)
(***************************************************************************)
EXTENDS Explorer, CodecFunctionProofs, FiniteSetTheorems, TLAPS

(* The scan. *)

LEMMA ByteLenType == ASSUME NEW s \in Texts PROVE ByteLen(s) \in Nat
<1> DEFINE wide == {k \in DOMAIN s : s[k] \in Wide}
<1>1. Len(s) \in Nat /\ DOMAIN s = 1..Len(s)
  BY DEF Texts
<1>2. IsFiniteSet(1..Len(s))
  BY <1>1, FS_Interval
<1>3. wide \subseteq 1..Len(s)
  BY <1>1
<1>4. IsFiniteSet(wide)
  BY <1>2, <1>3, FS_Subset
<1>5. Cardinality(wide) \in Nat
  BY <1>4, FS_CardinalityType
<1> QED
  BY <1>1, <1>5 DEF ByteLen

\* What the scan needs to know of its variables beside the bounds.
ScanType ==
  /\ tree \in [ToSet(Walk) -> {NotText} \cup Texts]
  /\ pos \in Nat \ {0} /\ files \in Seq(Texts) /\ totalBytes \in Nat

LEMMA ScanInit == ASSUME Init PROVE ScanType /\ ScanBounded
<1>1. files \in Seq(Texts) /\ Len(files) = 0
  BY DEF Init
<1> QED
  BY <1>1, TextAssumption, WalkAssumption DEF Init, ScanType, ScanBounded

(***************************************************************************)
(* A text is added only below both limits, and the limits are looked at    *)
(* before the file is (explorer.go:114-126).                               *)
(***************************************************************************)
LEMMA ScanStep == ASSUME ScanType, ScanBounded, [Next]_vars PROVE ScanType' /\ ScanBounded'
<1>1. ASSUME UNCHANGED <<tree, pos, files, totalBytes>> PROVE ScanType' /\ ScanBounded'
  BY <1>1 DEF ScanType, ScanBounded
<1>2. CASE ScanSkip
  BY <1>2 DEF ScanSkip, ScanType, ScanBounded
<1>3. CASE ScanRead
  <2> DEFINE text == tree[Walk[pos]]
  <2>1. UNCHANGED tree /\ pos' \in Nat \ {0}
    BY <1>3 DEF ScanRead, ScanType
  <2>2. CASE text = NotText \/ text = << >>
    BY <1>3, <2>1, <2>2 DEF ScanRead, ScanType, ScanBounded
  <2>3. CASE ~(text = NotText \/ text = << >>)
    <3>1. Walk[pos] \in ToSet(Walk)
      BY <1>3, WalkAssumption DEF ScanRead, ScanType, ToSet
    <3>2. text \in Texts
      BY <2>3, <3>1 DEF ScanType
    <3>3. ByteLen(text) \in Nat
      BY <3>2, ByteLenType
    <3>4. files' = Append(files, text) /\ totalBytes' = totalBytes + ByteLen(text)
      BY <1>3, <2>3 DEF ScanRead
    <3>5. Len(files) < MaxFiles /\ totalBytes < MaxTotalSize
      BY <1>3, WalkAssumption DEF ScanRead, Full, ScanType
    <3>6. /\ files' \in Seq(Texts) /\ Len(files') = Len(files) + 1
          /\ Last(files') = text
      BY <3>2, <3>4 DEF ScanType, Last
    <3>7. ScanType'
      BY <2>1, <3>3, <3>4, <3>6 DEF ScanType
    <3>8. totalBytes' - ByteLen(text) = totalBytes
      BY <3>3, <3>4 DEF ScanType
    <3>9. Len(files') <= MaxFiles
      BY <3>5, <3>6, WalkAssumption DEF ScanType
    <3>10. totalBytes' - ByteLen(Last(files')) < MaxTotalSize
      BY <3>5, <3>6, <3>8
    <3>11. ScanBounded'
      BY <3>9, <3>10 DEF ScanBounded, ByteLen
    <3> QED
      BY <3>7, <3>11
  <2> QED
    BY <2>2, <2>3
<1>4. CASE ScanFails \/ ScanEnd \/ Select \/ Save \/ Load
  BY <1>1, <1>4 DEF ScanFails, ScanEnd, Select, Save, Load
<1>5. ASSUME NEW e \in Edits, Edit(e[1], e[2]) PROVE ScanType' /\ ScanBounded'
  <2>1. e[2] \in {NotText} \cup Texts
    BY TextAssumption
  <2>2. tree' \in [ToSet(Walk) -> {NotText} \cup Texts]
    BY <1>5, <2>1 DEF Edit, ScanType
  <2> QED
    BY <1>5, <2>2 DEF Edit, ScanType, ScanBounded
<1>6. CASE UNCHANGED vars
  BY <1>1, <1>6 DEF vars
<1> QED
  BY <1>2, <1>3, <1>4, <1>5, <1>6 DEF Next

(***************************************************************************)
(* For every tree, whatever is edited during the scan: it never reads more *)
(* files than MaxFiles, nor a file once it has MaxTotalSize bytes.         *)
(***************************************************************************)
THEOREM ScanKeepsLimits == Spec => []ScanBounded
<1> DEFINE IInv == ScanType /\ ScanBounded
<1>1. Init => IInv
  BY ScanInit
<1>2. IInv /\ [Next]_vars => IInv'
  BY ScanStep
<1>3. IInv => ScanBounded
  OBVIOUS
<1> HIDE DEF IInv
<1> QED
  BY <1>1, <1>2, <1>3, PTL DEF Spec

-----------------------------------------------------------------------------
(* Sorting. *)

StrictOrder(T, R) ==
  /\ \A x \in T : <<x, x>> \notin R
  /\ \A x, y, z \in T : <<x, y>> \in R /\ <<y, z>> \in R => <<x, z>> \in R
  /\ \A x, y \in T : x # y => <<x, y>> \in R \/ <<y, x>> \in R

(***************************************************************************)
(* InOrder lists every element of a finite set once: the number of those   *)
(* before it tells the elements apart, and there are just enough numbers.  *)
(***************************************************************************)
LEMMA InOrderIs ==
  ASSUME NEW T, IsFiniteSet(T), NEW R, StrictOrder(T, R)
  PROVE  /\ Cardinality(T) \in Nat
         /\ InOrder(T, R) \in [1..Cardinality(T) -> T]
         /\ \A k, l \in 1..Cardinality(T) : InOrder(T, R)[k] = InOrder(T, R)[l] => k = l
         /\ \A x \in T : \E k \in 1..Cardinality(T) : InOrder(T, R)[k] = x
<1> DEFINE n == Cardinality(T)
           Below(x) == {y \in T : <<y, x>> \in R}
           rank == [x \in T |-> Cardinality(Below(x))]
           f == [x \in T |-> rank[x] + 1]
<1>1. n \in Nat
  BY FS_CardinalityType
<1>2. \A x \in T : IsFiniteSet(Below(x)) /\ rank[x] \in Nat
  <2>1. ASSUME NEW x \in T PROVE IsFiniteSet(Below(x)) /\ rank[x] \in Nat
    <3>1. Below(x) \in SUBSET T
      OBVIOUS
    <3> HIDE DEF Below
    <3>2. IsFiniteSet(Below(x))
      BY <3>1, FS_Subset
    <3> QED
      BY <3>2, FS_CardinalityType
  <2> QED
    BY <2>1
<1>3. ASSUME NEW x \in T, NEW U \in SUBSET T, Below(x) \subseteq U, x \in U
      PROVE rank[x] < Cardinality(U)
  <2>1. IsFiniteSet(U) /\ x \notin Below(x)
    BY FS_Subset DEF StrictOrder
  <2> HIDE DEF Below
  <2>2. IsFiniteSet(Below(x) \cup {x}) /\ Cardinality(Below(x) \cup {x}) = rank[x] + 1
    BY <1>2, <2>1, FS_AddElement
  <2>3. Cardinality(Below(x) \cup {x}) <= Cardinality(U) /\ Cardinality(U) \in Nat
    BY <1>3, <2>1, FS_Subset, FS_CardinalityType
  <2> QED
    BY <1>2, <2>2, <2>3
<1>4. \A x \in T : rank[x] < n
  <2>1. ASSUME NEW x \in T PROVE rank[x] < n
    <3>1. Below(x) \subseteq T
      OBVIOUS
    <3> QED
      BY <1>3, <3>1
  <2> QED
    BY <2>1
<1>5. ASSUME NEW x \in T, NEW y \in T, <<x, y>> \in R PROVE rank[x] < rank[y]
  <2>1. Below(y) \in SUBSET T /\ Below(x) \subseteq Below(y) /\ x \in Below(y)
    BY <1>5 DEF StrictOrder
  <2> HIDE DEF Below
  <2> QED
    BY <1>3, <2>1
<1>6. \A x, y \in T : rank[x] = rank[y] => x = y
  <2>1. ASSUME NEW x \in T, NEW y \in T, rank[x] = rank[y], x # y PROVE FALSE
    <3>1. <<x, y>> \in R \/ <<y, x>> \in R
      BY <2>1 DEF StrictOrder
    <3>2. rank[x] \in Nat /\ rank[y] \in Nat
      BY <1>2
    <3> HIDE DEF rank
    <3> QED
      BY <1>5, <2>1, <3>1, <3>2
  <2> HIDE DEF rank
  <2> QED
    BY <2>1
<1> HIDE DEF rank
<1> HIDE DEF Below
<1>h. \A x \in T : rank[x] \in Nat /\ rank[x] < n
  BY <1>2, <1>4
<1> HIDE DEF n
<1>7. f \in [T -> 1..n]
  <2>1. ASSUME NEW x \in T PROVE rank[x] + 1 \in 1..n
    BY <1>1, <1>h
  <2> QED
    BY <2>1
<1>8. \A x, y \in T : f[x] = f[y] => x = y
  BY <1>2, <1>6
<1>9. \A k \in 1..n : \E x \in T : f[x] = k
  <2>1. IsFiniteSet(1..n) /\ Cardinality(1..n) = n
    BY <1>1, FS_Interval
  <2> HIDE DEF f
  <2>2. f \in Injection(T, 1..n)
    BY <1>7, <1>8 DEF Injection, IsInjective
  <2>3. f \in Surjection(T, 1..n)
    BY <2>1, <2>2, FS_Injection DEF n
  <2> QED
    BY <2>3 DEF Surjection
<1>10. ASSUME NEW k \in 1..n PROVE \E x \in T : rank[x] = k - 1
  <2>1. PICK x \in T : rank[x] + 1 = k
    BY <1>9
  <2> QED
    BY <1>h, <2>1
<1> DEFINE q == InOrder(T, R)
<1>11. q = [k \in 1..n |-> CHOOSE x \in T : Cardinality(Below(x)) = k - 1]
  BY DEF InOrder, Below, n
<1> HIDE DEF q
<1>r. \A x \in T : rank[x] = Cardinality(Below(x))
  BY DEF rank
<1>12. ASSUME NEW k \in 1..n PROVE q[k] \in T /\ rank[q[k]] = k - 1
  <2>1. \E x \in T : Cardinality(Below(x)) = k - 1
    BY <1>10, <1>r
  <2>2. q[k] = CHOOSE x \in T : Cardinality(Below(x)) = k - 1
    BY <1>11
  <2>3. q[k] \in T /\ Cardinality(Below(q[k])) = k - 1
    BY <2>1, <2>2
  <2> QED
    BY <1>r, <2>3
<1>13. q \in [1..n -> T]
  <2>1. q = [k \in 1..n |-> q[k]]
    BY <1>11
  <2> QED
    BY <1>12, <2>1
<1>14. \A k, l \in 1..n : q[k] = q[l] => k = l
  <2>1. ASSUME NEW k \in 1..n, NEW l \in 1..n, q[k] = q[l] PROVE k = l
    <3>1. k - 1 = l - 1 /\ k \in Int /\ l \in Int
      BY <1>1, <1>12, <2>1
    <3> QED
      BY <3>1
  <2> QED
    BY <2>1
<1>15. ASSUME NEW x \in T PROVE \E k \in 1..n : q[k] = x
  <2>1. rank[x] + 1 \in 1..n /\ rank[x] + 1 - 1 = rank[x]
    BY <1>1, <1>h
  <2>2. PICK k \in 1..n : k - 1 = rank[x]
    BY <1>1, <1>h, <2>1
  <2>3. q[k] \in T /\ rank[q[k]] = rank[x]
    BY <1>12, <2>2
  <2> QED
    BY <1>6, <2>2, <2>3
<1> QED
  BY <1>1, <1>13, <1>14, <1>15 DEF q, n

(***************************************************************************)
(* Byte order is a strict order of the texts.                              *)
(***************************************************************************)
LEMMA RankIs ==
  ASSUME NEW x \in ToSet(Alphabet)
  PROVE  Rank(x) \in Nat /\ Alphabet[Rank(x)] = x
<1>1. \E k \in DOMAIN Alphabet : Alphabet[k] = x
  BY DEF ToSet
<1>2. Rank(x) \in DOMAIN Alphabet /\ Alphabet[Rank(x)] = x
  BY <1>1 DEF Rank
<1>3. DOMAIN Alphabet \subseteq Nat
  BY SymbolAssumption
<1> QED
  BY <1>2, <1>3

LEMMA TextType ==
  ASSUME NEW s \in Texts
  PROVE  /\ Len(s) \in Nat /\ DOMAIN s = 1..Len(s)
         /\ \A k \in 1..Len(s) : s[k] \in ToSet(Alphabet)
  BY DEF Texts

LEMMA BeforeStrict == ASSUME NEW s \in Texts PROVE ~Before(s, s)
<1> SUFFICES ASSUME NEW k \in 0..Len(s), k < Len(s), Rank(s[k + 1]) < Rank(s[k + 1]) PROVE FALSE
  BY TextType DEF Before
<1>1. s[k + 1] \in ToSet(Alphabet)
  BY TextType
<1>2. Rank(s[k + 1]) \in Nat
  BY <1>1, RankIs
<1> QED
  BY <1>2

LEMMA BeforeTransitive ==
  ASSUME NEW s \in Texts, NEW t \in Texts, NEW u \in Texts, Before(s, t), Before(t, u)
  PROVE  Before(s, u)
<1>1. Len(s) \in Nat /\ Len(t) \in Nat /\ Len(u) \in Nat
  BY TextType
<1>2. PICK k \in 0..Len(s) : /\ k < Len(t) /\ \A j \in 1..k : s[j] = t[j]
                             /\ k = Len(s) \/ Rank(s[k + 1]) < Rank(t[k + 1])
  BY DEF Before
<1>3. PICK l \in 0..Len(t) : /\ l < Len(u) /\ \A j \in 1..l : t[j] = u[j]
                             /\ l = Len(t) \/ Rank(t[l + 1]) < Rank(u[l + 1])
  BY DEF Before
<1>4. CASE k < l
  <2>1. k < Len(u) /\ (\A j \in 1..k : s[j] = u[j]) /\ t[k + 1] = u[k + 1]
    BY <1>1, <1>2, <1>3, <1>4
  <2> QED
    BY <1>2, <2>1 DEF Before
<1>5. CASE l < k
  <2>1. l \in 0..Len(s) /\ l + 1 \in 1..k /\ l # Len(t)
    BY <1>1, <1>2, <1>3, <1>5
  <2>2. (\A j \in 1..l : s[j] = u[j]) /\ s[l + 1] = t[l + 1]
    BY <1>1, <1>2, <1>3, <1>5, <2>1
  <2> QED
    BY <1>3, <2>1, <2>2 DEF Before
<1>6. CASE k = l
  <2>1. k < Len(u) /\ (\A j \in 1..k : s[j] = u[j]) /\ Rank(t[k + 1]) < Rank(u[k + 1])
    BY <1>1, <1>2, <1>3, <1>6
  <2>2. CASE k = Len(s)
    BY <2>1, <2>2 DEF Before
  <2>3. CASE k # Len(s)
    <3>1. k + 1 \in 1..Len(s) /\ k + 1 \in 1..Len(t) /\ k + 1 \in 1..Len(u)
      BY <1>1, <1>2, <2>1, <2>3
    <3>2. Rank(s[k + 1]) \in Nat /\ Rank(t[k + 1]) \in Nat /\ Rank(u[k + 1]) \in Nat
      BY <3>1, TextType, RankIs
    <3>3. Rank(s[k + 1]) < Rank(u[k + 1])
      BY <1>2, <2>1, <2>3, <3>2
    <3> QED
      BY <2>1, <3>3 DEF Before
  <2> QED
    BY <2>2, <2>3
<1> QED
  BY <1>1, <1>2, <1>3, <1>4, <1>5, <1>6

\* Two texts differ where one of them ends or at the first symbol that differs.
LEMMA BeforeTotal ==
  ASSUME NEW s \in Texts, NEW t \in Texts, s # t
  PROVE  Before(s, t) \/ Before(t, s)
<1>1. Len(s) \in Nat /\ Len(t) \in Nat /\ s \in Seq(ToSet(Alphabet)) /\ t \in Seq(ToSet(Alphabet))
  BY TextType DEF Texts
<1> DEFINE ends == {k \in Nat : \/ k = Len(s) \/ k = Len(t)
                                \/ s[k + 1] # t[k + 1]}
<1>2. ends \subseteq Nat /\ Len(s) \in ends
  BY <1>1
<1>3. PICK k \in ends : \A j \in ends : k <= j
  <2> HIDE DEF ends
  <2> QED
    BY <1>2, LeastNumber
<1>4. k \in Nat /\ k <= Len(s) /\ k <= Len(t)
  BY <1>1, <1>3
<1>5. ASSUME NEW j \in 1..k PROVE s[j] = t[j]
  <2>1. j - 1 \in Nat /\ ~(k <= j - 1) /\ j - 1 + 1 = j
    BY <1>4
  <2>2. j - 1 \notin ends
    BY <1>3, <2>1
  <2> QED
    BY <2>1, <2>2
<1>6. CASE k = Len(s) /\ k = Len(t)
  BY <1>1, <1>5, <1>6, SeqEqual
<1>7. CASE k = Len(s) /\ k # Len(t)
  BY <1>1, <1>4, <1>5, <1>7 DEF Before
<1>8. CASE k # Len(s) /\ k = Len(t)
  BY <1>1, <1>4, <1>5, <1>8 DEF Before
<1>9. CASE k # Len(s) /\ k # Len(t)
  <2>1. s[k + 1] # t[k + 1] /\ k < Len(s) /\ k < Len(t)
    BY <1>1, <1>3, <1>4, <1>9
  <2>2. s[k + 1] \in ToSet(Alphabet) /\ t[k + 1] \in ToSet(Alphabet)
    BY <1>4, <2>1, TextType
  <2>3. Rank(s[k + 1]) \in Nat /\ Rank(t[k + 1]) \in Nat /\ Rank(s[k + 1]) # Rank(t[k + 1])
    BY <2>1, <2>2, RankIs
  <2>4. CASE Rank(s[k + 1]) < Rank(t[k + 1])
    BY <1>4, <1>5, <2>1, <2>4 DEF Before
  <2>5. CASE Rank(t[k + 1]) < Rank(s[k + 1])
    BY <1>4, <1>5, <2>1, <2>5 DEF Before
  <2> QED
    BY <2>3, <2>4, <2>5
<1> QED
  BY <1>6, <1>7, <1>8, <1>9

-----------------------------------------------------------------------------
(* The escape and the codes. *)

LEMMA MinOfTwo ==
  ASSUME NEW a \in Nat, NEW b \in Nat
  PROVE  Min({a, b}) \in Nat /\ Min({a, b}) <= a /\ Min({a, b}) <= b
         /\ (Min({a, b}) = a \/ Min({a, b}) = b)
<1>1. \E n \in {a, b} : \A k \in {a, b} : n <= k
  OBVIOUS
<1> QED
  BY <1>1 DEF Min

\* A beginning of a text without repetitions is one.
LEMMA BeginningIs ==
  ASSUME NEW S, NEW s \in Seq(S), IsInjective(s), NEW n \in 0..Len(s)
  PROVE  /\ SubSeq(s, 1, n) \in Seq(S) /\ Len(SubSeq(s, 1, n)) = n
         /\ IsInjective(SubSeq(s, 1, n))
         /\ \A k \in 1..n : SubSeq(s, 1, n)[k] = s[k] /\ k \in 1..Len(s)
<1>1. Len(s) \in Nat
  OBVIOUS
<1> DEFINE q == SubSeq(s, 1, n)
<1>2. q \in Seq(S) /\ Len(q) = n /\ \A k \in 1..n : q[k] = s[k]
  OBVIOUS
<1> HIDE DEF q
<1>3. DOMAIN q = 1..n /\ DOMAIN s = 1..Len(s) /\ \A k \in 1..n : k \in 1..Len(s)
  BY <1>1, <1>2
<1>4. IsInjective(q)
  BY <1>2, <1>3 DEF IsInjective
<1> QED
  BY <1>2, <1>3, <1>4 DEF q

LEMMA FreshIs ==
  ASSUME NEW list \in Seq(ToSet(Alphabet)), IsInjective(list)
  PROVE  /\ Fresh(list) \in Texts /\ IsInjective(Fresh(list))
         /\ \A k \in 1..Len(Fresh(list)) : ~Occurs(blob, <<Fresh(list)[k]>>)
<1> DEFINE free == {k \in DOMAIN list : ~Occurs(blob, <<list[k]>>)}
           R == {p \in free \X free : p[1] < p[2]}
           n == Cardinality(free)
           order == InOrder(free, R)
           q == Fresh(list)
<1>1. DOMAIN list = 1..Len(list) /\ Len(list) \in Nat
  OBVIOUS
<1>2. free \in SUBSET (1..Len(list)) /\ IsFiniteSet(1..Len(list))
  BY <1>1, FS_Interval
<1>3. IsFiniteSet(free)
  <2> HIDE DEF free
  <2> QED
    BY <1>2, FS_Subset
<1>4. \A k, l \in free : <<k, l>> \in R <=> k < l
  OBVIOUS
<1>5. \A k \in free : k \in DOMAIN list /\ ~Occurs(blob, <<list[k]>>)
  OBVIOUS
<1>6. q = [j \in 1..n |-> list[order[j]]]
  BY DEF Fresh
<1> HIDE DEF free, R
<1>7. StrictOrder(free, R)
  <2>1. \A k \in free : k \in Int
    BY <1>2
  <2> QED
    BY <1>4, <2>1 DEF StrictOrder
<1>8. /\ n \in Nat /\ order \in [1..n -> free]
      /\ \A k, l \in 1..n : order[k] = order[l] => k = l
  BY <1>3, <1>7, InOrderIs
<1> HIDE DEF order, n, q
<1>9. \A k \in 1..n : order[k] \in DOMAIN list /\ q[k] = list[order[k]] /\ ~Occurs(blob, <<q[k]>>)
  BY <1>5, <1>6, <1>8
<1>10. q \in Seq(ToSet(Alphabet)) /\ Len(q) = n /\ DOMAIN q = 1..n
  <2>1. ASSUME NEW k \in 1..n PROVE list[order[k]] \in ToSet(Alphabet)
    <3>1. order[k] \in 1..Len(list)
      BY <1>1, <1>9
    <3> QED
      BY <3>1
  <2>2. q \in [1..n -> ToSet(Alphabet)]
    BY <1>6, <2>1
  <2> QED
    BY <1>8, <2>2
<1>11. IsInjective(q)
  <2>1. ASSUME NEW k \in 1..n, NEW l \in 1..n, q[k] = q[l] PROVE k = l
    <3>1. order[k] \in DOMAIN list /\ order[l] \in DOMAIN list /\ list[order[k]] = list[order[l]]
      BY <1>9, <2>1
    <3>2. order[k] = order[l]
      BY <3>1 DEF IsInjective
    <3> QED
      BY <1>8, <3>2
  <2> QED
    BY <1>10, <2>1 DEF IsInjective
<1> QED
  BY <1>9, <1>10, <1>11 DEF q, Texts

(***************************************************************************)
(* What selectSymbols returns: the escape and at least one code, all       *)
(* different, and for tce2 none of them in a file that was scanned.        *)
(***************************************************************************)
SymbolsFit(symbols) ==
  /\ symbols \in Texts /\ IsInjective(symbols) /\ Len(symbols) >= 2
  /\ format = "tce2" => \A k \in 1..Len(symbols) : ~Occurs(blob, <<symbols[k]>>)

LEMMA SymbolsAre ==
  ASSUME dictSize \in Nat \ {0}, format \in Versions, selectSymbols # << >>
  PROVE  SymbolsFit(selectSymbols)
<1> DEFINE one == Fresh(OneToken)
           few == Fresh(FewTokens)
           need == dictSize + 1
<1>1. ASSUME NEW list \in {OneToken, FewTokens}, Len(Fresh(list)) >= need,
             selectSymbols = SubSeq(Fresh(list), 1, need)
      PROVE SymbolsFit(selectSymbols)
  <2> DEFINE q == Fresh(list)
  <2>1. list \in Seq(ToSet(Alphabet)) /\ IsInjective(list)
    BY SymbolAssumption
  <2>2. /\ q \in Seq(ToSet(Alphabet)) /\ IsInjective(q)
        /\ \A k \in 1..Len(q) : ~Occurs(blob, <<q[k]>>)
    BY <2>1, FreshIs DEF Texts
  <2> HIDE DEF q
  <2>3. need \in 0..Len(q) /\ need >= 2
    BY <1>1, <2>2 DEF q
  <2>4. /\ selectSymbols \in Seq(ToSet(Alphabet)) /\ Len(selectSymbols) = need
        /\ IsInjective(selectSymbols)
        /\ \A k \in 1..need : selectSymbols[k] = q[k] /\ k \in 1..Len(q)
    BY <1>1, <2>2, <2>3, BeginningIs DEF q
  <2>5. \A k \in 1..Len(selectSymbols) : ~Occurs(blob, <<selectSymbols[k]>>)
    BY <2>2, <2>4
  <2> QED
    BY <2>3, <2>4, <2>5 DEF SymbolsFit, Texts
<1>2. CASE format = "tce1"
  <2> DEFINE n == Min({dictSize, Len(CodeAlphabet)})
             cs == SubSeq(CodeAlphabet, 1, n)
  <2>1. /\ CodeAlphabet \in Seq(ToSet(Alphabet)) /\ IsInjective(CodeAlphabet)
        /\ Len(CodeAlphabet) \in Nat \ {0} /\ Tilde \in ToSet(Alphabet)
        /\ \A k \in 1..Len(CodeAlphabet) : CodeAlphabet[k] # Tilde
    BY SymbolAssumption, EmptySeq DEF ToSet
  <2>2. n \in 1..Len(CodeAlphabet)
    BY <2>1, MinOfTwo
  <2>3. selectSymbols = <<Tilde>> \o cs
    BY <1>2 DEF selectSymbols
  <2> HIDE DEF n
  <2>4. /\ cs \in Seq(ToSet(Alphabet)) /\ Len(cs) = n /\ IsInjective(cs)
        /\ \A k \in 1..n : cs[k] = CodeAlphabet[k] /\ k \in 1..Len(CodeAlphabet)
    BY <2>1, <2>2, BeginningIs
  <2> HIDE DEF cs
  <2> DEFINE q == <<Tilde>> \o cs
  <2>5. /\ q \in Seq(ToSet(Alphabet)) /\ Len(q) = n + 1 /\ q[1] = Tilde
        /\ \A k \in 2..(n + 1) : q[k] = cs[k - 1] /\ k - 1 \in 1..n
    BY <2>1, <2>2, <2>4
  <2> HIDE DEF q
  <2>6. IsInjective(q)
    <3>1. \A k \in 2..(n + 1) : q[k] # Tilde
      BY <2>1, <2>4, <2>5
    <3>2. \A k, l \in 2..(n + 1) : q[k] = q[l] => k = l
      <4>1. ASSUME NEW k \in 2..(n + 1), NEW l \in 2..(n + 1), q[k] = q[l] PROVE k = l
        <5>1. k - 1 \in DOMAIN cs /\ l - 1 \in DOMAIN cs /\ cs[k - 1] = cs[l - 1]
          BY <2>4, <2>5, <4>1
        <5>2. k - 1 = l - 1
          BY <2>4, <5>1 DEF IsInjective
        <5> QED
          BY <2>2, <5>2
      <4> QED
        BY <4>1
    <3>3. \A k \in DOMAIN q : k = 1 \/ k \in 2..(n + 1)
      BY <2>2, <2>5
    <3> QED
      BY <2>5, <3>1, <3>2, <3>3 DEF IsInjective
  <2>7. Len(q) >= 2
    BY <2>2, <2>5
  <2> QED
    BY <1>2, <2>3, <2>5, <2>6, <2>7 DEF q, SymbolsFit, Texts
<1>3. CASE format # "tce1" /\ Len(one) >= need
  BY <1>1, <1>3 DEF selectSymbols
<1>4. CASE format # "tce1" /\ ~(Len(one) >= need) /\ Len(few) >= need
  BY <1>1, <1>4 DEF selectSymbols
<1>5. CASE format # "tce1" /\ ~(Len(one) >= need) /\ ~(Len(few) >= need)
  BY <1>5 DEF selectSymbols
<1> QED
  BY <1>2, <1>3, <1>4, <1>5

-----------------------------------------------------------------------------
(* The text that is searched, and how often a candidate occurs there. *)

FilesJoined(f) ==
  f = [k \in DOMAIN files |->
        IF k = 1 THEN files[1] ELSE f[k - 1] \o <<Newline>> \o files[k]]

JoinFrom == CHOOSE f : FilesJoined(f)

LEMMA BlobIsJoinFrom == blob = JoinFrom[Len(files)]
  BY DEF blob, JoinFrom, FilesJoined

Within(s, b) == \A p \in 1..Len(s) : \E q \in 1..Len(b) : b[q] = s[p]

LEMMA WithinJoin ==
  ASSUME NEW b \in Texts, NEW x \in ToSet(Alphabet), NEW s \in Texts
  PROVE  /\ b \o <<x>> \o s \in Texts
         /\ Within(s, b \o <<x>> \o s)
         /\ \A t : Within(t, b) => Within(t, b \o <<x>> \o s)
<1> DEFINE c == b \o <<x>>
           d == c \o s
<1>1. /\ b \in Seq(ToSet(Alphabet)) /\ s \in Seq(ToSet(Alphabet))
      /\ Len(b) \in Nat /\ Len(s) \in Nat
  BY TextType DEF Texts
<1>2. /\ c \in Seq(ToSet(Alphabet)) /\ Len(c) = Len(b) + 1
      /\ \A q \in 1..Len(b) : c[q] = b[q]
  BY <1>1
<1> HIDE DEF c
<1>3. /\ d \in Seq(ToSet(Alphabet)) /\ Len(d) = Len(c) + Len(s)
      /\ \A q \in 1..Len(c) : d[q] = c[q]
      /\ \A p \in 1..Len(s) : d[Len(c) + p] = s[p]
  <2>1. d \in Seq(ToSet(Alphabet)) /\ Len(d) = Len(c) + Len(s)
    BY <1>1, <1>2
  <2>2. Len(c) \in Nat
    BY <1>1, <1>2
  <2>3. ASSUME NEW q \in 1..Len(c) PROVE d[q] = c[q]
    BY <1>1, <1>2, <2>2
  <2>4. ASSUME NEW p \in 1..Len(s) PROVE d[Len(c) + p] = s[p]
    BY <1>1, <1>2, <2>2
  <2> QED
    BY <2>1, <2>3, <2>4
<1> HIDE DEF d
<1>4. \A p \in 1..Len(s) : Len(c) + p \in 1..Len(d)
  BY <1>1, <1>2, <1>3
<1>5. Within(s, d)
  BY <1>3, <1>4 DEF Within
<1>6. \A q \in 1..Len(b) : q \in 1..Len(d) /\ d[q] = b[q]
  BY <1>1, <1>2, <1>3
<1>7. \A t : Within(t, b) => Within(t, d)
  BY <1>6 DEF Within
<1> QED
  BY <1>3, <1>5, <1>7 DEF c, d, Texts

(***************************************************************************)
(* The files joined by newlines: every symbol of a file is in there.       *)
(***************************************************************************)
LEMMA BlobIs ==
  ASSUME files \in Seq(Texts), files # << >>
  PROVE  blob \in Texts /\ \A k \in 1..Len(files) : Within(files[k], blob)
<1> DEFINE N == Len(files)
           D == 1..N
           f == JoinFrom
<1>1. N \in Nat \ {0} /\ DOMAIN files = D /\ \A k \in D : files[k] \in Texts
  BY EmptySeq
<1>2. Newline \in ToSet(Alphabet)
  BY SymbolAssumption
<1>3. \E g : FilesJoined(g)
  <2> DEFINE m == [k \in D |-> k]
             leaf == {1}
             base == [k \in D |-> files[1]]
             next == [k \in D |-> IF k = 1 THEN 1 ELSE k - 1]
             op == [k \in D |-> [v \in Texts |-> v \o <<Newline>> \o files[k]]]
  <2>1. /\ m \in [D -> 0..N] /\ leaf \in SUBSET D /\ base \in [D -> Texts] /\ next \in [D -> D]
        /\ \A k \in D \ leaf : m[next[k]] < m[k]
    BY <1>1
  <2>2. op \in [D -> [Texts -> Texts]]
    <3>1. \A k \in D, v \in Texts : v \o <<Newline>> \o files[k] \in Texts
      BY <1>1, <1>2, WithinJoin
    <3> QED
      BY <3>1
  <2>3. PICK g \in [D -> Texts] :
          \A k \in D : g[k] = IF k \in leaf THEN base[k] ELSE op[k][g[next[k]]]
    <3> HIDE DEF m, leaf, base, next, op, D
    <3>1. Descends(D, Texts, N, m, leaf, base, next, op)
      BY <1>1, <2>1, <2>2 DEF Descends
    <3>2. \E g \in [D -> Texts] : Solves(g, D, leaf, base, next, op)
      BY <3>1, Recursion
    <3> QED
      BY <3>2 DEF Solves
  <2>4. ASSUME NEW k \in D
        PROVE g[k] = IF k = 1 THEN files[1] ELSE g[k - 1] \o <<Newline>> \o files[k]
    <3>1. CASE k = 1
      BY <2>3, <3>1
    <3>2. CASE k # 1
      <4>1. k \notin leaf /\ next[k] = k - 1 /\ k - 1 \in D
        BY <1>1, <3>2
      <4>2. g[k - 1] \in Texts /\ g[k] = op[k][g[k - 1]]
        BY <2>3, <4>1
      <4> QED
        BY <3>2, <4>2
    <3> QED
      BY <3>1, <3>2
  <2>5. g = [k \in D |-> IF k = 1 THEN files[1] ELSE g[k - 1] \o <<Newline>> \o files[k]]
    BY <2>3, <2>4
  <2> QED
    BY <1>1, <2>5 DEF FilesJoined
<1>4. FilesJoined(f)
  BY <1>3 DEF JoinFrom
<1>5. \A k \in D : f[k] = IF k = 1 THEN files[1] ELSE f[k - 1] \o <<Newline>> \o files[k]
  <2> HIDE DEF f
  <2> QED
    BY <1>1, <1>4 DEF FilesJoined
<1> HIDE DEF f
<1> DEFINE T == {k \in 0..N : k # 0 => f[k] \in Texts /\ \A j \in 1..k : Within(files[j], f[k])}
<1>6. ASSUME NEW k \in 0..N, k \in T /\ k < N PROVE k + 1 \in T
  <2>1. CASE k = 0
    <3>1. f[1] = files[1] /\ 1 \in D
      BY <1>1, <1>5
    <3>2. Within(files[1], f[1])
      BY <3>1 DEF Within
    <3> QED
      BY <1>1, <2>1, <3>1, <3>2
  <2>2. CASE k # 0
    <3>1. k \in D /\ k + 1 \in D /\ k + 1 - 1 = k /\ k + 1 # 1
      BY <1>1, <1>6, <2>2
    <3> DEFINE l == k + 1
    <3>l. l \in D /\ l - 1 = k /\ l # 1
      BY <3>1
    <3> HIDE DEF l
    <3>m. f[l] = f[k] \o <<Newline>> \o files[l]
      BY <1>5, <3>l
    <3>2. f[k + 1] = f[k] \o <<Newline>> \o files[k + 1]
      BY <3>m DEF l
    <3>3. f[k] \in Texts /\ files[k + 1] \in Texts /\ \A j \in 1..k : Within(files[j], f[k])
      BY <1>1, <1>6, <2>2, <3>1
    <3>4. /\ f[k + 1] \in Texts /\ Within(files[k + 1], f[k + 1])
          /\ \A j \in 1..k : Within(files[j], f[k + 1])
      BY <1>2, <3>2, <3>3, WithinJoin
    <3>5. \A j \in 1..(k + 1) : j \in 1..k \/ j = k + 1
      BY <3>1
    <3>6. \A j \in 1..(k + 1) : Within(files[j], f[k + 1])
      BY <3>4, <3>5
    <3> QED
      BY <3>1, <3>4, <3>6
  <2> QED
    BY <2>1, <2>2
<1>7. \A k \in 0..N : k \in T
  <2>1. 0 \in T
    BY <1>1
  <2> HIDE DEF T
  <2> QED
    BY <1>1, <1>6, <2>1, Forwards
<1>8. N \in T /\ N # 0
  BY <1>1, <1>7
<1> QED
  BY <1>8, BlobIsJoinFrom DEF f

CountRec(f, s, x) ==
  f = [k \in 1..(Len(s) + 1) |->
        IF k + Len(x) - 1 > Len(s) THEN 0
        ELSE IF hasPrefixAt(s, k, x) THEN 1 + f[k + Len(x)] ELSE f[k + 1]]

CountFrom(s, x) == CHOOSE f : CountRec(f, s, x)

LEMMA CountIsFrom == ASSUME NEW s, NEW x PROVE Count(s, x) = CountFrom(s, x)[1]
  BY DEF Count, CountFrom, CountRec

LEMMA CountIs ==
  ASSUME NEW s \in Texts, NEW x \in Texts, Len(x) > 0
  PROVE  Count(s, x) \in Nat
<1> DEFINE N == Len(s)
           w == Len(x)
           D == 1..(N + 1)
           f == CountFrom(s, x)
           Is(k) == hasPrefixAt(s, k, x)
<1>1. N \in Nat /\ w \in Nat \ {0}
  BY TextType
<1> HIDE DEF N, w, Is
<1>2. ASSUME NEW k \in D, ~(k + w - 1 > N) PROVE k + w \in D /\ k + 1 \in D /\ k < k + w /\ k < k + 1
  BY <1>1, <1>2
<1>3. \E g : g = [k \in D |-> IF k + w - 1 > N THEN 0
                              ELSE IF Is(k) THEN 1 + g[k + w] ELSE g[k + 1]]
  <2> DEFINE m == [k \in D |-> N + 1 - k]
             leaf == {k \in D : k + w - 1 > N}
             base == [k \in D |-> 0]
             next == [k \in D |-> IF k + w - 1 > N THEN k ELSE IF Is(k) THEN k + w ELSE k + 1]
             op == [k \in D |-> [v \in Nat |-> IF Is(k) THEN 1 + v ELSE v]]
  <2>1. m \in [D -> 0..N] /\ leaf \in SUBSET D /\ base \in [D -> Nat] /\ next \in [D -> D]
    BY <1>1, <1>2
  <2>2. op \in [D -> [Nat -> Nat]]
    OBVIOUS
  <2>3. \A k \in D \ leaf : m[next[k]] < m[k]
    <3>1. ASSUME NEW k \in D \ leaf PROVE m[next[k]] < m[k]
      <4>1. k \in D /\ ~(k + w - 1 > N)
        OBVIOUS
      <4>2. next[k] \in D /\ k < next[k]
        BY <1>2, <4>1
      <4>3. m[k] = N + 1 - k /\ m[next[k]] = N + 1 - next[k]
        BY <4>1, <4>2
      <4> HIDE DEF m, next
      <4> QED
        BY <1>1, <4>1, <4>2, <4>3
    <3> QED
      BY <3>1
  <2>4. PICK g \in [D -> Nat] :
          \A k \in D : g[k] = IF k \in leaf THEN base[k] ELSE op[k][g[next[k]]]
    <3> HIDE DEF m, leaf, base, next, op, D
    <3>1. Descends(D, Nat, N, m, leaf, base, next, op)
      BY <1>1, <2>1, <2>2, <2>3 DEF Descends
    <3>2. \E g \in [D -> Nat] : Solves(g, D, leaf, base, next, op)
      BY <3>1, Recursion
    <3> QED
      BY <3>2 DEF Solves
  <2>5. ASSUME NEW k \in D
        PROVE g[k] = IF k + w - 1 > N THEN 0 ELSE IF Is(k) THEN 1 + g[k + w] ELSE g[k + 1]
    <3>1. CASE k + w - 1 > N
      BY <2>4, <3>1
    <3>2. CASE ~(k + w - 1 > N)
      <4>1. k \notin leaf /\ next[k] = (IF Is(k) THEN k + w ELSE k + 1) /\ next[k] \in D
        BY <1>2, <3>2
      <4>2. g[next[k]] \in Nat /\ g[k] = op[k][g[next[k]]]
        BY <2>4, <4>1
      <4>3. g[k] = IF Is(k) THEN 1 + g[next[k]] ELSE g[next[k]]
        BY <4>2
      <4> QED
        BY <3>2, <4>1, <4>3
    <3> QED
      BY <3>1, <3>2
  <2>6. g = [k \in D |-> IF k + w - 1 > N THEN 0 ELSE IF Is(k) THEN 1 + g[k + w] ELSE g[k + 1]]
    BY <2>4, <2>5
  <2> QED
    BY <2>6
<1>4. \E g : CountRec(g, s, x)
  BY <1>3 DEF CountRec, N, w, Is
<1>5. CountRec(f, s, x)
  BY <1>4 DEF CountFrom
<1> HIDE DEF f
<1>6. \A k \in D : f[k] = IF k + w - 1 > N THEN 0 ELSE IF Is(k) THEN 1 + f[k + w] ELSE f[k + 1]
  BY <1>5 DEF CountRec, N, w, Is
<1> DEFINE T == {k \in D : f[k] \in Nat}
<1>7. ASSUME NEW k \in D, \A l \in D : k < l => l \in T PROVE k \in T
  <2>1. CASE k + w - 1 > N
    BY <1>6, <2>1
  <2>2. CASE ~(k + w - 1 > N)
    <3>1. f[k + w] \in Nat /\ f[k + 1] \in Nat
      BY <1>2, <1>7, <2>2
    <3>2. f[k] = IF Is(k) THEN 1 + f[k + w] ELSE f[k + 1]
      BY <1>6, <2>2
    <3> QED
      BY <3>1, <3>2
  <2> QED
    BY <2>1, <2>2
<1>8. \A k \in D : k \in T
  <2> HIDE DEF T
  <2> QED
    BY <1>1, <1>7, Backwards
<1>9. f[1] \in Nat
  BY <1>1, <1>8
<1> QED
  BY <1>9, CountIsFrom DEF f

-----------------------------------------------------------------------------
(* The candidates. *)

LEMMA ImageIsFinite ==
  ASSUME NEW A, IsFiniteSet(A), NEW f
  PROVE  IsFiniteSet({f[a] : a \in A})
<1> DEFINE g == [a \in A |-> f[a]]
           B == {f[a] : a \in A}
<1>1. g \in Surjection(A, B)
  BY DEF Surjection
<1> HIDE DEF g, B
<1>2. IsFiniteSet(B)
  BY <1>1, FS_Surjection
<1> QED
  BY <1>2 DEF B

LEMMA WordEndIs ==
  ASSUME NEW s \in Texts, NEW k \in WordStarts(s)
  PROVE  WordEnd(s, k) \in k..Len(s)
<1> DEFINE Wd == Letters \cup Digits
           stops == {j \in Nat : j >= k /\ (j + 1 > Len(s) \/ s[j + 1] \notin Wd)}
<1>1. Len(s) \in Nat /\ k \in 1..Len(s) /\ s[k] \in Wd
  BY TextType DEF WordStarts
<1>2. stops \subseteq Nat /\ Len(s) \in stops
  BY <1>1
<1>3. PICK e \in stops : \A j \in stops : e <= j
  <2> HIDE DEF stops
  <2> QED
    BY <1>2, LeastNumber
<1>4. e \in k..Len(s) /\ (e = Len(s) \/ s[e + 1] \notin Wd)
  BY <1>1, <1>2, <1>3
<1>5. ASSUME NEW l \in k..e PROVE s[l] \in Wd
  <2>1. CASE l = k
    BY <1>1, <2>1
  <2>2. CASE l # k
    <3>1. l - 1 \in Nat /\ l - 1 >= k /\ ~(e <= l - 1) /\ l - 1 + 1 = l
      BY <1>1, <1>4, <2>2
    <3>2. l - 1 \notin stops
      BY <1>3, <3>1
    <3> QED
      BY <3>1, <3>2
  <2> QED
    BY <2>1, <2>2
<1> HIDE DEF stops
<1>6. \E d \in k..Len(s) : /\ \A l \in k..d : s[l] \in Wd
                           /\ d = Len(s) \/ s[d + 1] \notin Wd
  BY <1>4, <1>5
<1> QED
  BY <1>6 DEF WordEnd

LEMMA WordsAre ==
  ASSUME files \in Seq(Texts)
  PROVE  IsFiniteSet(words) /\ words \subseteq Texts
<1> DEFINE D == DOMAIN files
           In(n) == {<<n, k>> : k \in WordStarts(files[n])}
           all == {Word(u) : u \in Uses}
<1>1. D = 1..Len(files) /\ Len(files) \in Nat /\ \A n \in D : files[n] \in Texts
  OBVIOUS
<1>2. IsFiniteSet(D)
  BY <1>1, FS_Interval
<1>3. ASSUME NEW n \in D PROVE IsFiniteSet(In(n))
  <2> DEFINE A == WordStarts(files[n])
             f == [k \in A |-> <<n, k>>]
  <2>1. A \in SUBSET (1..Len(files[n])) /\ Len(files[n]) \in Nat
    BY <1>1, TextType DEF WordStarts
  <2>3. In(n) = {f[k] : k \in A}
    OBVIOUS
  <2> HIDE DEF A, f, In
  <2>4. IsFiniteSet(1..Len(files[n]))
    BY <2>1, FS_Interval
  <2>2. IsFiniteSet(A)
    BY <2>1, <2>4, FS_Subset
  <2> QED
    BY <2>2, <2>3, ImageIsFinite
<1>4. IsFiniteSet({In(n) : n \in D})
  <2> DEFINE f == [n \in D |-> In(n)]
  <2>1. {In(n) : n \in D} = {f[n] : n \in D}
    OBVIOUS
  <2> HIDE DEF f, In, D
  <2> QED
    BY <1>2, <2>1, ImageIsFinite
<1>5. IsFiniteSet(Uses)
  <2>1. Uses = UNION {In(n) : n \in D}
    BY DEF Uses
  <2>2. \A V \in {In(n) : n \in D} : IsFiniteSet(V)
    BY <1>3
  <2> HIDE DEF In, D
  <2> QED
    BY <1>4, <2>1, <2>2, FS_UNION
<1>6. IsFiniteSet(all)
  <2> DEFINE f == [u \in Uses |-> Word(u)]
  <2>1. all = {f[u] : u \in Uses}
    OBVIOUS
  <2> HIDE DEF f, all
  <2> QED
    BY <1>5, <2>1, ImageIsFinite
<1>7. ASSUME NEW u \in Uses PROVE Word(u) \in Texts
  <2>1. PICK n \in D : u \in In(n)
    BY DEF Uses
  <2>2. u[1] = n /\ u[2] \in WordStarts(files[n]) /\ files[n] \in Texts
    BY <1>1, <2>1
  <2>3. WordEnd(files[n], u[2]) \in u[2]..Len(files[n])
    BY <2>2, WordEndIs
  <2>4. u[2] \in 1..Len(files[n]) /\ Len(files[n]) \in Nat
    BY <2>2, TextType DEF WordStarts
  <2>5. SubSeq(files[n], u[2], WordEnd(files[n], u[2])) \in Seq(ToSet(Alphabet))
    <3> DEFINE e == WordEnd(files[n], u[2])
               b == u[2]
               t == files[n]
    <3>1. t \in Seq(ToSet(Alphabet)) /\ b \in 1..Len(t) /\ e \in b..Len(t)
      BY <2>2, <2>3, <2>4 DEF Texts
    <3> HIDE DEF e, b, t
    <3>2. SubSeq(t, b, e) \in Seq(ToSet(Alphabet))
      BY <3>1
    <3> QED
      BY <3>2 DEF e, b, t
  <2> QED
    BY <2>2, <2>5 DEF Word, Texts
<1>8. words \in SUBSET all
  BY DEF words
<1>9. all \subseteq Texts
  BY <1>7
<1> HIDE DEF all
<1>10. IsFiniteSet(words)
  BY <1>6, <1>8, FS_Subset
<1> QED
  BY <1>8, <1>9, <1>10

LEMMA CandidatesAre ==
  ASSUME files \in Seq(Texts)
  PROVE  IsFiniteSet(AllCandidates) /\ AllCandidates \subseteq Texts
<1> DEFINE spaced == {w \o <<Space>> : w \in words}
           f == [w \in words |-> w \o <<Space>>]
<1>1. IsFiniteSet(words) /\ words \subseteq Texts
  BY WordsAre
<1>2. spaced = {f[w] : w \in words}
  OBVIOUS
<1>3. spaced \subseteq Texts
  <2>1. Space \in ToSet(Alphabet)
    BY SymbolAssumption
  <2>2. ASSUME NEW w \in words PROVE w \o <<Space>> \in Texts
    <3>1. w \in Seq(ToSet(Alphabet))
      BY <1>1 DEF Texts
    <3>2. w \o <<Space>> \in Seq(ToSet(Alphabet))
      BY <2>1, <3>1
    <3> QED
      BY <3>2 DEF Texts
  <2> QED
    BY <2>2
<1>4. AllCandidates = Candidates \cup words \cup spaced
  BY DEF AllCandidates
<1>5. IsFiniteSet(Candidates) /\ Candidates \subseteq Texts
  BY OptionAssumption
<1> HIDE DEF spaced, f
<1>6. IsFiniteSet(spaced)
  BY <1>1, <1>2, ImageIsFinite
<1>7. IsFiniteSet(Candidates \cup words)
  BY <1>1, <1>5, FS_Union
<1>8. IsFiniteSet(AllCandidates)
  BY <1>4, <1>6, <1>7, FS_Union
<1> QED
  BY <1>1, <1>3, <1>4, <1>5, <1>8

\* The tokenizer counts.
Counted == \A s \in Texts : Tokens(s) \in Nat

\* The parts of selected.
Cost(symbols) ==
  IF format = "tce1" THEN Tokens(<<symbols[1]>> \o <<symbols[2]>>) ELSE Tokens(<<symbols[2]>>)

Gain(symbols, c) == Count(blob, c) * (Tokens(c) - Cost(symbols))

Scores(symbols) ==
  {c \in AllCandidates : /\ ByteLen(c) >= 2 /\ ~Occurs(c, <<symbols[1]>>)
                         /\ Count(blob, c) >= 2 /\ Gain(symbols, c) > 0}

Better(symbols, c, d) ==
  \/ Gain(symbols, c) > Gain(symbols, d)
  \/ Gain(symbols, c) = Gain(symbols, d) /\ ByteLen(c) > ByteLen(d)
  \/ Gain(symbols, c) = Gain(symbols, d) /\ ByteLen(c) = ByteLen(d) /\ Before(c, d)

Ranking(symbols) == {p \in Scores(symbols) \X Scores(symbols) : Better(symbols, p[1], p[2])}

Sorted(symbols) == InOrder(Scores(symbols), Ranking(symbols))

LEMMA SelectedIsBeginning ==
  ASSUME NEW symbols
  PROVE  selected(symbols) = SubSeq(Sorted(symbols), 1, Min({Len(Sorted(symbols)), dictSize}))
  BY DEF selected, Sorted, Ranking, Better, Scores, Gain, Cost

LEMMA ScoresAre ==
  ASSUME Counted, files \in Seq(Texts), files # << >>, NEW symbols, SymbolsFit(symbols)
  PROVE  /\ IsFiniteSet(Scores(symbols))
         /\ \A c \in Scores(symbols) : /\ c \in Texts /\ ~Occurs(c, <<symbols[1]>>) /\ Len(c) > 0
                                       /\ Gain(symbols, c) \in Int /\ ByteLen(c) \in Nat
<1> DEFINE A == AllCandidates
           Z == Scores(symbols)
<1>1. IsFiniteSet(A) /\ A \subseteq Texts
  BY CandidatesAre
<1>2. Z \in SUBSET A
  BY DEF Scores
<1>3. \A c \in Z : ByteLen(c) >= 2 /\ ~Occurs(c, <<symbols[1]>>)
  BY DEF Scores
<1> HIDE DEF A, Z
<1>4. IsFiniteSet(Z)
  BY <1>1, <1>2, FS_Subset
<1>5. Cost(symbols) \in Nat
  <2>1. symbols[1] \in ToSet(Alphabet) /\ symbols[2] \in ToSet(Alphabet)
    <3>1. 1 \in 1..Len(symbols) /\ 2 \in 1..Len(symbols)
      BY TextType DEF SymbolsFit
    <3> QED
      BY <3>1, TextType DEF SymbolsFit
  <2>2. <<symbols[2]>> \in Texts /\ <<symbols[1]>> \o <<symbols[2]>> \in Texts
    BY <2>1 DEF Texts
  <2> QED
    BY <2>2 DEF Cost, Counted
<1>6. ASSUME NEW c \in Z
      PROVE /\ c \in Texts /\ ~Occurs(c, <<symbols[1]>>) /\ Len(c) > 0
            /\ Gain(symbols, c) \in Int /\ ByteLen(c) \in Nat
  <2>1. c \in Texts /\ ByteLen(c) \in Nat /\ ByteLen(c) >= 2 /\ ~Occurs(c, <<symbols[1]>>)
    BY <1>1, <1>2, <1>3, ByteLenType
  <2>2. Len(c) > 0
    <3>1. CASE Len(c) = 0
      <4>1. DOMAIN c = {}
        BY <2>1, <3>1, TextType
      <4>2. {k \in DOMAIN c : c[k] \in Wide} = {}
        BY <4>1
      <4>3. ByteLen(c) = 0
        BY <3>1, <4>2, FS_EmptySet DEF ByteLen
      <4> QED
        BY <2>1, <4>3
    <3> QED
      BY <2>1, <3>1, TextType
  <2>3. Count(blob, c) \in Nat
    BY <2>1, <2>2, BlobIs, CountIs
  <2>4. Tokens(c) \in Nat
    BY <2>1 DEF Counted
  <2>5. Gain(symbols, c) \in Int
    BY <1>5, <2>3, <2>4 DEF Gain
  <2> QED
    BY <2>1, <2>2, <2>5
<1> QED
  BY <1>4, <1>6 DEF Z

LEMMA RankingIsStrict ==
  ASSUME Counted, files \in Seq(Texts), files # << >>, NEW symbols, SymbolsFit(symbols)
  PROVE  StrictOrder(Scores(symbols), Ranking(symbols))
<1> DEFINE Z == Scores(symbols)
           R == Ranking(symbols)
           g == [c \in Z |-> Gain(symbols, c)]
           b == [c \in Z |-> ByteLen(c)]
<1>1. \A c \in Z : c \in Texts /\ g[c] \in Int /\ b[c] \in Nat
  BY ScoresAre
<1>2. \A c, d \in Z : <<c, d>> \in R <=> \/ g[c] > g[d]
                                         \/ g[c] = g[d] /\ b[c] > b[d]
                                         \/ g[c] = g[d] /\ b[c] = b[d] /\ Before(c, d)
  BY DEF Ranking, Better
<1> HIDE DEF Z, R, g, b
<1>3. \A c \in Z : <<c, c>> \notin R
  BY <1>1, <1>2, BeforeStrict
<1>4. ASSUME NEW c \in Z, NEW d \in Z, c # d PROVE <<c, d>> \in R \/ <<d, c>> \in R
  <2>1. Before(c, d) \/ Before(d, c)
    BY <1>1, <1>4, BeforeTotal
  <2>2. g[c] \in Int /\ g[d] \in Int /\ b[c] \in Int /\ b[d] \in Int
    BY <1>1
  <2> QED
    BY <1>2, <2>1, <2>2
<1>5. ASSUME NEW c \in Z, NEW d \in Z, NEW e \in Z, <<c, d>> \in R, <<d, e>> \in R
      PROVE <<c, e>> \in R
  <2>1. Before(c, d) /\ Before(d, e) => Before(c, e)
    BY <1>1, BeforeTransitive
  <2>2. /\ g[c] \in Int /\ g[d] \in Int /\ g[e] \in Int
        /\ b[c] \in Int /\ b[d] \in Int /\ b[e] \in Int
    BY <1>1
  <2> QED
    BY <1>2, <1>5, <2>1, <2>2
<1>6. StrictOrder(Z, R)
  BY <1>3, <1>4, <1>5 DEF StrictOrder
<1> QED
  BY <1>6 DEF Z, R

(***************************************************************************)
(* The values: different texts without the escape, no more than asked for. *)
(***************************************************************************)
ValuesFit(vals, symbols) ==
  /\ vals \in Seq(Texts) /\ IsInjective(vals)
  /\ \A k \in 1..Len(vals) : ~Occurs(vals[k], <<symbols[1]>>) /\ Len(vals[k]) > 0

LEMMA ValuesAre ==
  ASSUME Counted, files \in Seq(Texts), files # << >>, dictSize \in Nat \ {0},
         NEW symbols, SymbolsFit(symbols)
  PROVE  ValuesFit(selected(symbols), symbols)
<1> DEFINE Z == Scores(symbols)
           R == Ranking(symbols)
           q == Sorted(symbols)
           n == Cardinality(Z)
           m == Min({Len(q), dictSize})
<1>1. /\ IsFiniteSet(Z) /\ StrictOrder(Z, R)
      /\ \A c \in Z : c \in Texts /\ ~Occurs(c, <<symbols[1]>>) /\ Len(c) > 0
  BY ScoresAre, RankingIsStrict
<1>2. q = InOrder(Z, R)
  BY DEF Sorted
<1>3. selected(symbols) = SubSeq(q, 1, m)
  BY SelectedIsBeginning
<1> HIDE DEF Z, R, q
<1>4. n \in Nat /\ q \in [1..n -> Z] /\ \A k, l \in 1..n : q[k] = q[l] => k = l
  BY <1>1, <1>2, InOrderIs
<1> HIDE DEF n
<1>5. q \in Seq(Z) /\ Len(q) = n
  BY <1>4
<1>6. q \in Seq(Texts) /\ IsInjective(q) /\ \A k \in 1..Len(q) : q[k] \in Z
  <2>1. q \in [1..n -> Texts] /\ DOMAIN q = 1..n
    BY <1>1, <1>4
  <2>2. q \in Seq(Texts)
    BY <1>4, <2>1
  <2>3. IsInjective(q)
    BY <1>4, <2>1 DEF IsInjective
  <2> QED
    BY <1>4, <1>5, <2>2, <2>3
<1>7. m \in 0..Len(q)
  BY <1>4, <1>5, MinOfTwo
<1> HIDE DEF m
<1> DEFINE v == SubSeq(q, 1, m)
<1>8. /\ v \in Seq(Texts) /\ Len(v) = m /\ IsInjective(v)
      /\ \A k \in 1..m : v[k] = q[k] /\ k \in 1..Len(q)
  BY <1>6, <1>7, BeginningIs
<1> HIDE DEF v
<1>9. \A k \in 1..Len(v) : ~Occurs(v[k], <<symbols[1]>>) /\ Len(v[k]) > 0
  BY <1>1, <1>6, <1>8
<1> QED
  BY <1>3, <1>8, <1>9 DEF v, ValuesFit

-----------------------------------------------------------------------------
(* The configuration. *)

LEMMA MinOfThree ==
  ASSUME NEW a \in Nat, NEW b \in Nat, NEW c \in Nat
  PROVE  /\ Min({a, b, c}) \in Nat
         /\ Min({a, b, c}) <= a /\ Min({a, b, c}) <= b /\ Min({a, b, c}) <= c
         /\ (Min({a, b, c}) = a \/ Min({a, b, c}) = b \/ Min({a, b, c}) = c)
<1>1. \E n \in {a, b, c} : \A k \in {a, b, c} : n <= k
  OBVIOUS
<1> QED
  BY <1>1 DEF Min

Permutes(order, n) ==
  /\ order \in [1..n -> 1..n]
  /\ \A k, l \in 1..n : order[k] = order[l] => k = l
  /\ \A k \in 1..n : \E l \in 1..n : order[l] = k

\* The entries are the first n pairs, in some order.
PairsUp(entries, vals, cs, n) ==
  \E order : /\ Permutes(order, n)
             /\ entries = [k \in 1..n |-> [code |-> cs[order[k]], value |-> vals[order[k]]]]

LEMMA PairedIs ==
  ASSUME NEW vals, NEW n \in Nat, NEW cs \in Seq(Texts), IsInjective(cs), n <= Len(cs)
  PROVE  PairsUp(Paired(vals, cs, n), vals, cs, n)
<1> DEFINE R == {p \in (1..n) \X (1..n) : Before(cs[p[1]], cs[p[2]])}
           order == InOrder(1..n, R)
<1>1. \A k \in 1..n : cs[k] \in Texts /\ k \in DOMAIN cs
  OBVIOUS
<1>2. \A k, l \in 1..n : cs[k] = cs[l] => k = l
  BY <1>1 DEF IsInjective
<1>3. \A k, l \in 1..n : <<k, l>> \in R <=> Before(cs[k], cs[l])
  OBVIOUS
<1>4. Paired(vals, cs, n) = [k \in 1..n |-> [code |-> cs[order[k]], value |-> vals[order[k]]]]
  BY DEF Paired
<1> HIDE DEF R
<1>5. StrictOrder(1..n, R)
  <2>1. \A k \in 1..n : <<k, k>> \notin R
    BY <1>1, <1>3, BeforeStrict
  <2>2. ASSUME NEW k \in 1..n, NEW l \in 1..n, NEW m \in 1..n, <<k, l>> \in R, <<l, m>> \in R
        PROVE <<k, m>> \in R
    <3>1. Before(cs[k], cs[l]) /\ Before(cs[l], cs[m])
      BY <1>3, <2>2
    <3>2. Before(cs[k], cs[m])
      BY <1>1, <3>1, BeforeTransitive
    <3> QED
      BY <1>3, <3>2
  <2>3. ASSUME NEW k \in 1..n, NEW l \in 1..n, k # l PROVE <<k, l>> \in R \/ <<l, k>> \in R
    <3>1. cs[k] # cs[l]
      BY <1>2, <2>3
    <3>2. Before(cs[k], cs[l]) \/ Before(cs[l], cs[k])
      BY <1>1, <3>1, BeforeTotal
    <3> QED
      BY <1>3, <3>2
  <2> QED
    BY <2>1, <2>2, <2>3 DEF StrictOrder
<1>6. IsFiniteSet(1..n) /\ Cardinality(1..n) = n
  BY FS_Interval
<1>7. Permutes(order, n)
  <2>1. /\ order \in [1..n -> 1..n]
        /\ \A k, l \in 1..n : order[k] = order[l] => k = l
        /\ \A x \in 1..n : \E k \in 1..n : order[k] = x
    BY <1>5, <1>6, InOrderIs
  <2> HIDE DEF order
  <2> QED
    BY <2>1 DEF Permutes
<1> HIDE DEF order
<1> QED
  BY <1>4, <1>7 DEF PairsUp

\* Codes of one symbol, all different, none of them the escape.
CodesFit(cs, x) ==
  /\ cs \in Seq(Texts) /\ IsInjective(cs)
  /\ \A k \in 1..Len(cs) : Len(cs[k]) = 1 /\ cs[k][1] # x

ValuesWithout(vals, x) ==
  /\ vals \in Seq(Texts) /\ IsInjective(vals)
  /\ \A k \in 1..Len(vals) : ~Occurs(vals[k], <<x>>) /\ Len(vals[k]) > 0

\* A dictionary that pairs the first n of the values with the first n of the codes.
Dictionary(cfg, vals, version, x, cs, n) ==
  /\ CodecType(ToSet(Alphabet), cfg) /\ Reversible(cfg)
  /\ cfg.version = version /\ cfg.escape = <<x>>
  /\ Len(cfg.entries) = n
  /\ \A k, l \in 1..n : cfg.entries[k].code = cfg.entries[l].code => k = l
  /\ {e.value : e \in EntrySet(cfg)} = {vals[k] : k \in 1..n}
  /\ {e.code : e \in EntrySet(cfg)} = {cs[k] : k \in 1..n}

(***************************************************************************)
(* Whatever the order, pairs of such codes and values are a dictionary     *)
(* whose encoding is reversible.                                           *)
(***************************************************************************)
LEMMA PairsAreDictionary ==
  ASSUME NEW x \in ToSet(Alphabet), NEW cs, CodesFit(cs, x), NEW vals, ValuesWithout(vals, x),
         NEW n \in Nat, n <= Len(cs), n <= Len(vals), NEW version \in Versions,
         NEW entries, PairsUp(entries, vals, cs, n),
         NEW cfg, cfg = [version |-> version, escape |-> <<x>>, entries |-> entries]
  PROVE  Dictionary(cfg, vals, version, x, cs, n)
<1>1. PICK order : /\ Permutes(order, n)
                   /\ entries = [k \in 1..n |-> [code |-> cs[order[k]], value |-> vals[order[k]]]]
  BY DEF PairsUp
<1>2. ASSUME NEW k \in 1..n
      PROVE  /\ order[k] \in 1..n /\ entries[k].code = cs[order[k]]
             /\ entries[k].value = vals[order[k]]
             /\ entries[k] = [code |-> entries[k].code, value |-> entries[k].value]
  <2>1. entries[k] = [code |-> cs[order[k]], value |-> vals[order[k]]]
    BY <1>1
  <2>2. order[k] \in 1..n
    BY <1>1 DEF Permutes
  <2> QED
    BY <2>1, <2>2
<1>2c. \A l \in 1..n : \E k \in 1..n : order[k] = l
  BY <1>1 DEF Permutes
<1>3. \A l \in 1..n : cs[l] \in Texts /\ Len(cs[l]) = 1 /\ cs[l][1] # x /\ l \in DOMAIN cs
  BY DEF CodesFit
<1>4. \A l \in 1..n : vals[l] \in Texts /\ ~Occurs(vals[l], <<x>>) /\ l \in DOMAIN vals
  BY DEF ValuesWithout
<1>5. ASSUME NEW k \in 1..n PROVE entries[k] \in [code : Texts, value : Texts]
  <2>1. entries[k].code \in Texts /\ entries[k].value \in Texts
    BY <1>2, <1>3, <1>4
  <2>2. entries[k] = [code |-> entries[k].code, value |-> entries[k].value]
    BY <1>2
  <2> QED
    BY <2>1, <2>2
<1>6. entries \in Seq([code : Texts, value : Texts]) /\ Len(entries) = n
  <2> DEFINE T == [code : Texts, value : Texts]
             g == [k \in 1..n |-> [code |-> cs[order[k]], value |-> vals[order[k]]]]
  <2>1. entries = g
    BY <1>1
  <2>2. \A k \in 1..n : g[k] \in T
    BY <1>5, <2>1
  <2> HIDE DEF T
  <2>3. g \in [1..n -> T]
    BY <2>2
  <2> HIDE DEF g
  <2>4. g \in Seq(T) /\ Len(g) = n
    BY <2>3
  <2> QED
    BY <2>1, <2>4 DEF T
<1>7. cfg.version = version /\ cfg.escape = <<x>> /\ cfg.entries = entries
  OBVIOUS
<1>8. EntrySet(cfg) = {entries[k] : k \in 1..n}
  BY <1>6, <1>7 DEF EntrySet
<1>9. CodecType(ToSet(Alphabet), cfg)
  <2>1. <<x>> \in Seq(ToSet(Alphabet))
    OBVIOUS
  <2> QED
    BY <1>6, <1>7, <2>1 DEF CodecType, Texts
<1>10. ASSUME NEW k \in 1..n, NEW l \in 1..n, entries[k].code = entries[l].code PROVE k = l
  <2>1. cs[order[k]] = cs[order[l]] /\ order[k] \in DOMAIN cs /\ order[l] \in DOMAIN cs
    BY <1>2, <1>3, <1>10
  <2>2. order[k] = order[l]
    BY <2>1 DEF CodesFit, IsInjective
  <2> QED
    BY <1>1, <2>2 DEF Permutes
<1>11. ASSUME NEW k \in 1..n, NEW l \in 1..n, entries[k].value = entries[l].value PROVE k = l
  <2>1. vals[order[k]] = vals[order[l]] /\ order[k] \in DOMAIN vals /\ order[l] \in DOMAIN vals
    BY <1>2, <1>4, <1>11
  <2>2. order[k] = order[l]
    BY <2>1 DEF ValuesWithout, IsInjective
  <2> QED
    BY <1>1, <2>2 DEF Permutes
<1>12. Accepted(cfg)
  <2>1. cfg.version \in Versions /\ Len(cfg.escape) = 1
    BY <1>7
  <2>2. ASSUME NEW k \in 1..n, NEW i \in 1..Len(entries[k].value)
        PROVE ~hasPrefixAt(entries[k].value, i, <<x>>)
    <3>1. entries[k].value \in Texts /\ ~Occurs(entries[k].value, <<x>>)
      BY <1>2, <1>4
    <3>2. i \in DOMAIN entries[k].value
      BY <3>1, TextType
    <3> QED
      BY <3>1, <3>2 DEF Occurs
  <2>3. ASSUME NEW k \in 1..n PROVE Len(entries[k].code) > 0
    <3>1. entries[k].code = cs[order[k]] /\ order[k] \in 1..n
      BY <1>2
    <3>2. Len(cs[order[k]]) = 1
      BY <1>3, <3>1
    <3> QED
      BY <3>1, <3>2
  <2>4. \A k \in 1..n : \A l \in 1..(k - 1) :
          l \in 1..n /\ entries[l].value # entries[k].value /\ entries[l].code # entries[k].code
    <3>1. ASSUME NEW k \in 1..n, NEW l \in 1..(k - 1)
          PROVE l \in 1..n /\ entries[l].value # entries[k].value /\ entries[l].code # entries[k].code
      <4>1. l \in 1..n /\ l # k
        OBVIOUS
      <4> QED
        BY <1>10, <1>11, <4>1
    <3> QED
      BY <3>1
  <2> QED
    BY <1>6, <1>7, <2>1, <2>2, <2>3, <2>4 DEF Accepted
<1>13. ASSUME NEW e \in EntrySet(cfg) PROVE Len(e.code) = 1 /\ e.code[1] # x
  <2>1. PICK k \in 1..n : e = entries[k]
    BY <1>8
  <2>2. e.code = cs[order[k]] /\ order[k] \in 1..n
    BY <1>2, <2>1
  <2> QED
    BY <1>3, <2>2
<1>14. ASSUME NEW d \in EntrySet(cfg), NEW e \in EntrySet(cfg), hasPrefixAt(e.code, 1, d.code)
       PROVE d = e
  <2>1. PICK k \in 1..n, l \in 1..n : d = entries[k] /\ e = entries[l]
    BY <1>8
  <2>2. d.code \in Texts /\ e.code \in Texts /\ Len(d.code) = 1 /\ Len(e.code) = 1
    BY <1>5, <1>13, <2>1
  <2>3. e.code[1 + 1 - 1] = d.code[1]
    BY <1>14, <2>2 DEF hasPrefixAt
  <2>4. d.code = e.code
    BY <2>2, <2>3, SeqEqual DEF Texts
  <2> QED
    BY <1>10, <2>1, <2>4
<1>15. Reversible(cfg)
  <2>1. Len(cfg.escape) = 1 /\ cfg.escape[1] = x
    BY <1>7
  <2> QED
    BY <1>12, <1>13, <1>14, <2>1 DEF Reversible
<1>16. {e.value : e \in EntrySet(cfg)} = {vals[k] : k \in 1..n}
  <2>1. ASSUME NEW e \in EntrySet(cfg) PROVE e.value \in {vals[k] : k \in 1..n}
    <3>1. PICK k \in 1..n : e = entries[k]
      BY <1>8
    <3>2. e.value = vals[order[k]] /\ order[k] \in 1..n
      BY <1>2, <3>1
    <3> QED
      BY <3>2
  <2>2. ASSUME NEW l \in 1..n PROVE \E e \in EntrySet(cfg) : e.value = vals[l]
    <3>1. PICK k \in 1..n : order[k] = l
      BY <1>2c
    <3>2. entries[k] \in EntrySet(cfg) /\ entries[k].value = vals[l]
      BY <1>2, <1>8, <3>1
    <3> QED
      BY <3>2
  <2>3. \A v : v \in {e.value : e \in EntrySet(cfg)} <=> v \in {vals[k] : k \in 1..n}
    BY <2>1, <2>2
  <2> QED
    BY <2>3
<1>17. {e.code : e \in EntrySet(cfg)} = {cs[k] : k \in 1..n}
  <2>1. ASSUME NEW e \in EntrySet(cfg) PROVE e.code \in {cs[k] : k \in 1..n}
    <3>1. PICK k \in 1..n : e = entries[k]
      BY <1>8
    <3>2. e.code = cs[order[k]] /\ order[k] \in 1..n
      BY <1>2, <3>1
    <3> QED
      BY <3>2
  <2>2. ASSUME NEW l \in 1..n PROVE \E e \in EntrySet(cfg) : e.code = cs[l]
    <3>1. PICK k \in 1..n : order[k] = l
      BY <1>2c
    <3>2. entries[k] \in EntrySet(cfg) /\ entries[k].code = cs[l]
      BY <1>2, <1>8, <3>1
    <3> QED
      BY <3>2
  <2>3. \A v : v \in {e.code : e \in EntrySet(cfg)} <=> v \in {cs[k] : k \in 1..n}
    BY <2>1, <2>2
  <2> QED
    BY <2>3
<1> QED
  BY <1>6, <1>7, <1>9, <1>10, <1>15, <1>16, <1>17 DEF Dictionary

(***************************************************************************)
(* BuildConfig makes such a dictionary of as many pairs as there are, up   *)
(* to the limit.  That it takes the codes of tce1 when it is given none    *)
(* does no harm: then there is no value either.                            *)
(***************************************************************************)
LEMMA BuildIs ==
  ASSUME NEW x \in ToSet(Alphabet), NEW cs, CodesFit(cs, x), NEW vals, ValuesWithout(vals, x),
         cs # << >> \/ vals = << >>, NEW limit \in Nat, NEW version \in Versions
  PROVE  Dictionary(BuildConfig(vals, version, <<x>>, cs, limit),
                    vals, version, x, cs, Min({limit, Len(cs), Len(vals)}))
<1>1. Len(cs) \in Nat /\ Len(vals) \in Nat /\ cs \in Seq(Texts) /\ IsInjective(cs)
  BY DEF CodesFit, ValuesWithout
<1>2. CASE cs # << >>
  <2> DEFINE n == Min({limit, Len(cs), Len(vals)})
             entries == Paired(vals, cs, n)
  <2>1. BuildConfig(vals, version, <<x>>, cs, limit)
          = [version |-> version, escape |-> <<x>>, entries |-> entries]
    BY <1>2 DEF BuildConfig
  <2>2. n \in Nat /\ n <= Len(cs) /\ n <= Len(vals)
    BY <1>1, MinOfThree
  <2> HIDE DEF n
  <2>3. PairsUp(entries, vals, cs, n)
    BY <1>1, <2>2, PairedIs
  <2> HIDE DEF entries
  <2> DEFINE cfg == BuildConfig(vals, version, <<x>>, cs, limit)
  <2>4. cfg = [version |-> version, escape |-> <<x>>, entries |-> entries]
    BY <2>1
  <2> HIDE DEF cfg
  <2>5. Dictionary(cfg, vals, version, x, cs, n)
    BY <2>2, <2>3, <2>4, PairsAreDictionary
  <2> QED
    BY <2>5 DEF n, cfg
<1>3. CASE cs = << >>
  <2> DEFINE all == [k \in DOMAIN CodeAlphabet |-> <<CodeAlphabet[k]>>]
             n == Min({limit, Len(all), Len(vals)})
             entries == Paired(vals, all, 0)
  <2>1. /\ CodeAlphabet \in Seq(ToSet(Alphabet)) /\ IsInjective(CodeAlphabet)
        /\ DOMAIN CodeAlphabet = 1..Len(CodeAlphabet) /\ Len(CodeAlphabet) \in Nat
    BY SymbolAssumption
  <2>2. all \in Seq(Texts) /\ Len(all) \in Nat /\ IsInjective(all)
    <3>1. ASSUME NEW k \in 1..Len(CodeAlphabet) PROVE <<CodeAlphabet[k]>> \in Texts
      BY <2>1 DEF Texts
    <3>2. all \in [1..Len(CodeAlphabet) -> Texts]
      BY <2>1, <3>1
    <3>3. \A k, l \in DOMAIN CodeAlphabet : all[k] = all[l] => k = l
      <4>1. ASSUME NEW k \in DOMAIN CodeAlphabet, NEW l \in DOMAIN CodeAlphabet, all[k] = all[l]
            PROVE k = l
        <5>1. CodeAlphabet[k] = CodeAlphabet[l]
          BY <4>1
        <5> QED
          BY <2>1, <5>1 DEF IsInjective
      <4> QED
        BY <4>1
    <3> QED
      BY <2>1, <3>2, <3>3 DEF IsInjective
  <2>3. vals = << >> /\ Len(vals) = 0 /\ Len(cs) = 0
    BY <1>3
  <2>4. BuildConfig(vals, version, <<x>>, cs, limit)
          = [version |-> version, escape |-> <<x>>, entries |-> Paired(vals, all, n)]
    BY <1>3 DEF BuildConfig
  <2> HIDE DEF all
  <2>5. n = 0 /\ Min({limit, Len(cs), Len(vals)}) = 0
    BY <2>2, <2>3, MinOfThree
  <2> HIDE DEF n
  <2>6. PairsUp(entries, vals, all, 0)
    BY <2>2, PairedIs
  <2> HIDE DEF entries
  <2>7. PairsUp(entries, vals, cs, 0)
    <3>1. PICK order : /\ Permutes(order, 0)
                       /\ entries = [k \in 1..0 |-> [code |-> all[order[k]], value |-> vals[order[k]]]]
      BY <2>6 DEF PairsUp
    <3>2. entries = [k \in 1..0 |-> [code |-> cs[order[k]], value |-> vals[order[k]]]]
      BY <3>1
    <3> QED
      BY <3>1, <3>2 DEF PairsUp
  <2> DEFINE cfg == BuildConfig(vals, version, <<x>>, cs, limit)
  <2>8. cfg = [version |-> version, escape |-> <<x>>, entries |-> entries]
    BY <2>4, <2>5 DEF entries
  <2> HIDE DEF cfg
  <2>9. Dictionary(cfg, vals, version, x, cs, 0)
    BY <2>3, <2>7, <2>8, PairsAreDictionary
  <2> QED
    BY <2>5, <2>9 DEF cfg
<1> QED
  BY <1>2, <1>3

-----------------------------------------------------------------------------
(* A tce2 dictionary and the files that were scanned. *)

Scanned(y) == \E j \in 1..Len(files) : \E p \in 1..Len(files[j]) : files[j][p] = y

LEMMA FreshIsNotScanned ==
  ASSUME files \in Seq(Texts), files # << >>, NEW y \in ToSet(Alphabet), ~Occurs(blob, <<y>>)
  PROVE  ~Scanned(y)
<1> SUFFICES ASSUME NEW j \in 1..Len(files), NEW p \in 1..Len(files[j]), files[j][p] = y
             PROVE FALSE
  BY DEF Scanned
<1>1. blob \in Texts /\ Within(files[j], blob)
  BY BlobIs
<1>2. PICK q \in 1..Len(blob) : blob[q] = y
  BY <1>1 DEF Within
<1>3. hasPrefixAt(blob, q, <<y>>)
  <2>1. Len(<<y>>) = 1 /\ <<y>>[1] = y /\ Len(blob) \in Nat
    BY <1>1, TextType
  <2> QED
    BY <1>2, <2>1 DEF hasPrefixAt
<1>4. q \in DOMAIN blob
  BY <1>1, <1>2, TextType
<1> QED
  BY <1>3, <1>4 DEF Occurs

\* Neither the escape nor a code is in the text.
Unused(c, s) ==
  \A p \in 1..Len(s) : s[p] # c.escape[1] /\ \A e \in EntrySet(c) : s[p] # e.code[1]

LEMMA NothingEscaped ==
  ASSUME NEW S, NEW c, CodecType(S, c), Reversible(c), c.version = "tce2", NEW s \in Seq(S),
         Unused(c, s)
  PROVE  Encode(c, s) \in Seq(S \ {c.escape[1]})
<1> DEFINE x == c.escape[1]
           R == S \ {x}
<1>1. ASSUME NEW p \in 1..Len(s) PROVE EncodeStep(c, s, p).out \in Seq(R)
  <2> DEFINE t == EncodeStep(c, s, p)
  <2>1. s[p] # x /\ \A e \in EntrySet(c) : e.code # <<s[p]>>
    <3>1. \A e \in EntrySet(c) : e.code = <<s[p]>> => e.code[1] = s[p]
      OBVIOUS
    <3> QED
      BY <3>1 DEF Unused
  <2>2. \/ \E e \in EntrySet(c) : t = Take(Len(e.value), e.code)
        \/ t = Take(1, <<s[p]>>)
    <3>1. c.version # "tce1"
      OBVIOUS
    <3>2. \/ s[p] = x /\ t = Take(1, <<x, x>>)
          \/ /\ s[p] # x /\ c.version = "tce2"
             /\ \E e \in EntrySet(c) : e.code = <<s[p]>> /\ t = Take(1, <<x>> \o e.code)
          \/ /\ s[p] # x
             /\ \E e \in EntrySet(c) :
                  /\ Len(e.value) > 0 /\ hasPrefixAt(s, p, e.value)
                  /\ t = Take(Len(e.value), IF c.version = "tce1" THEN <<x>> \o e.code ELSE e.code)
          \/ /\ s[p] # x /\ t = Take(1, <<s[p]>>)
             /\ c.version = "tce2" => CodeMatch(c, s, p) = {}
      BY EncodeStepCases DEF t
    <3> HIDE DEF t, x
    <3> QED
      BY <2>1, <3>1, <3>2
  <2> HIDE DEF t
  <2>3. ASSUME NEW e \in EntrySet(c), t = Take(Len(e.value), e.code) PROVE t.out \in Seq(R)
    <3>1. Len(e.code) = 1 /\ e.code[1] # x
      BY DEF Reversible
    <3>2. e.code \in Seq(S)
      BY EntryType
    <3>3. e.code[1] \in R
      BY <3>1, <3>2, ElementOfSeq
    <3>4. e.code \in Seq(R)
      <4> DEFINE f == e.code
      <4>1. f \in Seq(S) /\ Len(f) = 1 /\ f[1] \in R
        BY <3>1, <3>2, <3>3
      <4> HIDE DEF f, R
      <4> DEFINE g == <<f[1]>>
      <4>2. g \in Seq(R) /\ g \in Seq(S)
        BY <4>1 DEF R
      <4>3. Len(g) = 1 /\ g[1] = f[1]
        OBVIOUS
      <4> HIDE DEF g
      <4>4. \A k \in 1..Len(f) : f[k] = g[k]
        BY <4>1, <4>3
      <4>5. f = g
        BY <4>1, <4>2, <4>3, <4>4, SeqEqual
      <4> QED
        BY <4>2, <4>5 DEF f
    <3>5. t.out = e.code
      BY <2>3 DEF Take
    <3> QED
      BY <3>4, <3>5
  <2>4. ASSUME t = Take(1, <<s[p]>>) PROVE t.out \in Seq(R)
    <3>1. s[p] \in R
      BY <2>1, ElementOfSeq
    <3>2. t.out = <<s[p]>>
      BY <2>4 DEF Take
    <3> HIDE DEF R
    <3> QED
      BY <3>1, <3>2
  <2> QED
    BY <2>2, <2>3, <2>4 DEF t
<1>2. Accepted(c)
  BY DEF Reversible
<1> HIDE DEF R
<1>3. Encode(c, s) \in Seq(R)
  BY <1>1, <1>2, EncodeStaysIn
<1> QED
  BY <1>3 DEF R

-----------------------------------------------------------------------------
(* What Select leaves behind. *)

LEMMA InjectiveIs ==
  ASSUME NEW f, NEW D, DOMAIN f = D, \A k, l \in D : f[k] = f[l] => k = l
  PROVE  IsInjective(f)
  BY DEF IsInjective

\* The codes of a Result are those of its config.
CodesOf(cfg) == [k \in DOMAIN cfg.entries |-> cfg.entries[k].code]

TakenFrom(own, cs) == \A k \in 1..Len(own) : \E l \in 1..Len(cs) : own[k] = cs[l]

LEMMA CodesOfDictionary ==
  ASSUME NEW x, NEW cs, CodesFit(cs, x), NEW n \in Nat, n <= Len(cs),
         NEW vals, NEW version, NEW cfg, Dictionary(cfg, vals, version, x, cs, n)
  PROVE  /\ CodesFit(CodesOf(cfg), x) /\ Len(CodesOf(cfg)) = n
         /\ Dictionary(cfg, vals, version, x, CodesOf(cfg), n)
         /\ TakenFrom(CodesOf(cfg), cs)
<1> DEFINE own == CodesOf(cfg)
<1>1. /\ cfg.entries \in Seq([code : Texts, value : Texts]) /\ Len(cfg.entries) = n
      /\ \A k, l \in 1..n : cfg.entries[k].code = cfg.entries[l].code => k = l
  BY DEF Dictionary, CodecType, Texts
<1>2. DOMAIN cfg.entries = 1..n
  BY <1>1
<1>3. own = [k \in 1..n |-> cfg.entries[k].code]
  BY <1>2 DEF CodesOf
<1> HIDE DEF own
<1>4. ASSUME NEW k \in 1..n PROVE own[k] = cfg.entries[k].code /\ own[k] \in Texts
  <2>1. cfg.entries[k] \in [code : Texts, value : Texts]
    BY <1>1, ElementOfSeq
  <2> QED
    BY <1>3, <2>1
<1>5. own \in Seq(Texts) /\ Len(own) = n /\ DOMAIN own = 1..n
  <2>1. own \in [1..n -> Texts]
    BY <1>3, <1>4
  <2> QED
    BY <2>1
<1>6. EntrySet(cfg) = {cfg.entries[k] : k \in 1..n}
  BY <1>1 DEF EntrySet
<1>7. {e.code : e \in EntrySet(cfg)} = {cs[l] : l \in 1..n}
  BY DEF Dictionary
<1>8. ASSUME NEW k \in 1..n PROVE \E l \in 1..n : own[k] = cs[l]
  <2>1. cfg.entries[k].code \in {e.code : e \in EntrySet(cfg)}
    BY <1>6
  <2>2. own[k] \in {cs[l] : l \in 1..n}
    BY <1>4, <1>7, <2>1
  <2> QED
    BY <2>2
<1>9. {e.code : e \in EntrySet(cfg)} = {own[k] : k \in 1..n}
  <2>1. ASSUME NEW e \in EntrySet(cfg) PROVE e.code \in {own[k] : k \in 1..n}
    <3>1. PICK k \in 1..n : e = cfg.entries[k]
      BY <1>6
    <3> QED
      BY <1>4, <3>1
  <2>2. ASSUME NEW k \in 1..n PROVE \E e \in EntrySet(cfg) : e.code = own[k]
    <3>1. cfg.entries[k] \in EntrySet(cfg) /\ cfg.entries[k].code = own[k]
      BY <1>4, <1>6
    <3> QED
      BY <3>1
  <2>3. \A v : v \in {e.code : e \in EntrySet(cfg)} <=> v \in {own[k] : k \in 1..n}
    BY <2>1, <2>2
  <2> QED
    BY <2>3
<1>10. CodesFit(own, x)
  <2>1. \A l \in 1..Len(cs) : Len(cs[l]) = 1 /\ cs[l][1] # x
    BY DEF CodesFit
  <2>2. Len(cs) \in Nat
    BY DEF CodesFit
  <2>3. ASSUME NEW k \in 1..n PROVE Len(own[k]) = 1 /\ own[k][1] # x
    <3>1. PICK l \in 1..n : own[k] = cs[l]
      BY <1>8
    <3>2. l \in 1..Len(cs)
      BY <2>2
    <3> QED
      BY <2>1, <3>1, <3>2
  <2>4. ASSUME NEW k \in 1..n, NEW l \in 1..n, own[k] = own[l] PROVE k = l
    BY <1>1, <1>4, <2>4
  <2>5. IsInjective(own)
    BY <1>5, <2>4, InjectiveIs
  <2> QED
    BY <1>5, <2>3, <2>5 DEF CodesFit
<1>11. Dictionary(cfg, vals, version, x, own, n)
  BY <1>9 DEF Dictionary
<1>12. ASSUME NEW k \in 1..Len(own) PROVE \E l \in 1..Len(cs) : own[k] = cs[l]
  <2>1. PICK l \in 1..n : own[k] = cs[l]
    BY <1>5, <1>8
  <2>2. l \in 1..Len(cs)
    BY DEF CodesFit
  <2> QED
    BY <2>1, <2>2
<1> QED
  BY <1>5, <1>10, <1>11, <1>12 DEF own, TakenFrom

\* The codes are the symbols after the escape.
LEMMA SymbolCodes ==
  ASSUME NEW symbols, SymbolsFit(symbols),
         NEW cs, cs = [k \in 1..(Len(symbols) - 1) |-> <<symbols[k + 1]>>]
  PROVE  /\ symbols[1] \in ToSet(Alphabet) /\ CodesFit(cs, symbols[1]) /\ Len(cs) \in Nat \ {0}
         /\ \A k \in 1..Len(cs) : k + 1 \in 1..Len(symbols) /\ cs[k][1] = symbols[k + 1]
<1> DEFINE n == Len(symbols) - 1
<1>1. /\ symbols \in Texts /\ Len(symbols) \in Nat /\ n \in Nat \ {0} /\ DOMAIN symbols = 1..(n + 1)
      /\ IsInjective(symbols) /\ \A k \in 1..(n + 1) : symbols[k] \in ToSet(Alphabet)
  BY TextType DEF SymbolsFit
<1>2. cs = [k \in 1..n |-> <<symbols[k + 1]>>]
  OBVIOUS
<1>3. n + 1 = Len(symbols)
  BY <1>1
<1> HIDE DEF n
<1>4. ASSUME NEW k \in 1..n
      PROVE /\ k + 1 \in 1..(n + 1) /\ cs[k] = <<symbols[k + 1]>> /\ cs[k] \in Texts
            /\ Len(cs[k]) = 1 /\ cs[k][1] = symbols[k + 1]
  <2>1. k + 1 \in 1..(n + 1)
    BY <1>1
  <2>2. cs[k] = <<symbols[k + 1]>>
    BY <1>2
  <2>3. symbols[k + 1] \in ToSet(Alphabet)
    BY <1>1, <2>1
  <2>4. <<symbols[k + 1]>> \in Texts
    BY <2>3 DEF Texts
  <2>5. Len(cs[k]) = 1 /\ cs[k][1] = symbols[k + 1]
    BY <2>2
  <2>6. cs[k] \in Texts
    BY <2>2, <2>4
  <2> QED
    BY <2>1, <2>2, <2>5, <2>6
<1>5. cs \in Seq(Texts) /\ Len(cs) = n /\ DOMAIN cs = 1..n
  <2>1. cs \in [1..n -> Texts]
    BY <1>2, <1>4
  <2> QED
    BY <1>1, <2>1
<1>6. ASSUME NEW k \in 1..n, NEW l \in 1..n, cs[k] = cs[l] PROVE k = l
  <2>1. symbols[k + 1] = symbols[l + 1] /\ k + 1 \in DOMAIN symbols /\ l + 1 \in DOMAIN symbols
    BY <1>1, <1>4, <1>6
  <2>2. k + 1 = l + 1
    BY <1>1, <2>1 DEF IsInjective
  <2> QED
    BY <2>2
<1>7. ASSUME NEW k \in 1..n PROVE cs[k][1] # symbols[1]
  <2>1. k + 1 \in DOMAIN symbols /\ 1 \in DOMAIN symbols /\ k + 1 # 1
    BY <1>1, <1>4
  <2>2. symbols[k + 1] # symbols[1]
    BY <1>1, <2>1 DEF IsInjective
  <2> QED
    BY <1>4, <2>2
<1>8. CodesFit(cs, symbols[1])
  <2>1. IsInjective(cs)
    <3>1. \A k, l \in 1..n : cs[k] = cs[l] => k = l
      BY <1>6
    <3>2. DOMAIN cs = 1..n
      BY <1>5
    <3> QED
      BY <3>1, <3>2, InjectiveIs
  <2>2. \A k \in 1..n : Len(cs[k]) = 1 /\ cs[k][1] # symbols[1]
    BY <1>4, <1>7
  <2> QED
    BY <1>5, <2>1, <2>2 DEF CodesFit
<1>9. symbols[1] \in ToSet(Alphabet)
  BY <1>1
<1> QED
  BY <1>1, <1>3, <1>4, <1>5, <1>8, <1>9

\* What Save and the mount need to know of the Result.
Chosen(x) ==
  /\ measured.escape = <<x>>
  /\ ValuesWithout(values, x) /\ CodesFit(codes, x)
  /\ Len(codes) <= Len(values) /\ (codes = << >> => values = << >>)
  /\ Dictionary(measured, values, format, x, codes, Len(codes))
  /\ format = "tce2" => ~Scanned(x) /\ \A k \in 1..Len(codes) : ~Scanned(codes[k][1])

Kept(x) == phase \in {"load", "ready"} => Dictionary(saved, values, format, x, codes, Len(codes))

\* What the exploration needs to know of its variables.
ExploreInv ==
  /\ ScanType /\ dictSize \in Nat \ {0} /\ format \in Versions
  /\ phase \in {"scan", "select", "save", "load", "ready", "failed"}
  /\ phase = "select" => files # << >>
  /\ phase \notin {"load", "ready"} => saved = NoConfig
  /\ phase \in {"save", "load", "ready"} =>
       \E x \in ToSet(Alphabet) : Chosen(x) /\ Kept(x)

LEMMA SelectChooses ==
  ASSUME Counted, files \in Seq(Texts), files # << >>, dictSize \in Nat \ {0}, format \in Versions,
         Select, phase' # "failed"
  PROVE  \E x \in ToSet(Alphabet) : Chosen(x)'
<1> DEFINE symbols == selectSymbols
           vals == selected(symbols)
           cs == [k \in 1..(Len(symbols) - 1) |-> <<symbols[k + 1]>>]
           cfg == BuildConfig(vals, format, <<symbols[1]>>, cs, dictSize)
           own == CodesOf(cfg)
           n == Min({dictSize, Len(cs), Len(vals)})
<1>1. /\ symbols # << >> /\ measured' = cfg /\ values' = vals /\ codes' = own
      /\ files' = files /\ format' = format
  BY DEF Select, CodesOf
<1> HIDE DEF own
<1>2. SymbolsFit(symbols)
  BY <1>1, SymbolsAre
<1> HIDE DEF symbols
<1>3. ValuesFit(vals, symbols)
  BY <1>2, ValuesAre
<1>4. /\ symbols[1] \in ToSet(Alphabet) /\ CodesFit(cs, symbols[1]) /\ Len(cs) \in Nat \ {0}
      /\ \A k \in 1..Len(cs) : k + 1 \in 1..Len(symbols) /\ cs[k][1] = symbols[k + 1]
  BY <1>2, SymbolCodes
<1> HIDE DEF vals, cs
<1>5. PICK x \in ToSet(Alphabet) : x = symbols[1]
  BY <1>4
<1>6. ValuesWithout(vals, x) /\ CodesFit(cs, x)
  BY <1>3, <1>4, <1>5 DEF ValuesFit, ValuesWithout
<1>7. ASSUME format = "tce2" PROVE ~Scanned(x) /\ \A l \in 1..Len(cs) : ~Scanned(cs[l][1])
  <2>1. ASSUME NEW k \in 1..Len(symbols) PROVE ~Scanned(symbols[k])
    <3>1. symbols[k] \in ToSet(Alphabet) /\ ~Occurs(blob, <<symbols[k]>>)
      BY <1>2, <1>7, TextType DEF SymbolsFit
    <3> QED
      BY <3>1, FreshIsNotScanned
  <2>2. 1 \in 1..Len(symbols)
    BY <1>2, TextType DEF SymbolsFit
  <2> QED
    BY <1>4, <1>5, <2>1, <2>2
<1>8. cs # << >> /\ Len(cs) \in Nat \ {0} /\ Len(vals) \in Nat
  BY <1>4, <1>6 DEF ValuesWithout
<1>9. n \in Nat /\ n <= Len(cs) /\ n <= Len(vals) /\ (n = 0 => Len(vals) = 0)
  BY <1>8, MinOfThree
<1>10. Dictionary(cfg, vals, format, x, cs, n)
  BY <1>5, <1>6, <1>8, BuildIs
<1> HIDE DEF cfg, n
<1>11. /\ CodesFit(own, x) /\ Len(own) = n
       /\ Dictionary(cfg, vals, format, x, own, n)
       /\ TakenFrom(own, cs)
  BY <1>6, <1>9, <1>10, CodesOfDictionary DEF own
<1>12. cfg.escape = <<x>>
  BY <1>10 DEF Dictionary
<1>13. own = << >> => vals = << >>
  <2>1. own = << >> => n = 0
    BY <1>11
  <2>2. Len(vals) = 0 => vals = << >>
    BY <1>6 DEF ValuesWithout
  <2> QED
    BY <1>9, <2>1, <2>2
<1>14. ASSUME format = "tce2" PROVE ~Scanned(x) /\ \A k \in 1..Len(own) : ~Scanned(own[k][1])
  <2>1. ASSUME NEW k \in 1..Len(own) PROVE ~Scanned(own[k][1])
    <3>1. PICK l \in 1..Len(cs) : own[k] = cs[l]
      BY <1>11 DEF TakenFrom
    <3> QED
      BY <1>7, <1>14, <3>1
  <2> QED
    BY <1>7, <1>14, <2>1
<1>15. \A y : Scanned(y)' <=> Scanned(y)
  BY <1>1 DEF Scanned
<1>16. Chosen(x)'
  <2>1. measured'.escape = <<x>> /\ ValuesWithout(values', x) /\ CodesFit(codes', x)
    BY <1>1, <1>6, <1>11, <1>12
  <2>2. Len(codes') <= Len(values') /\ (codes' = << >> => values' = << >>)
    BY <1>1, <1>9, <1>11, <1>13
  <2>3. Dictionary(measured', values', format', x, codes', Len(codes'))
    BY <1>1, <1>11
  <2>4. ASSUME format' = "tce2"
        PROVE  ~Scanned(x)' /\ \A k \in 1..Len(codes') : (~Scanned(codes[k][1]))'
    <3>1. ~Scanned(x) /\ \A k \in 1..Len(own) : ~Scanned(own[k][1])
      BY <1>1, <1>14, <2>4
    <3> QED
      BY <1>1, <3>1 DEF Scanned
  <2> QED
    BY <2>1, <2>2, <2>3, <2>4 DEF Chosen
<1> QED
  BY <1>5, <1>16

LEMMA SaveKeeps ==
  ASSUME format \in Versions, Save, NEW x \in ToSet(Alphabet), Chosen(x)
  PROVE  Dictionary(saved', values, format, x, codes, Len(codes))
<1>1. saved' = BuildConfig(values, format, <<x>>, codes, Len(values))
  BY DEF Save, Chosen
<1>2. /\ ValuesWithout(values, x) /\ CodesFit(codes, x) /\ Len(codes) <= Len(values)
      /\ (codes # << >> \/ values = << >>)
  BY DEF Chosen
<1>3. Len(values) \in Nat /\ Len(codes) \in Nat
  BY <1>2 DEF ValuesWithout, CodesFit
<1>4. Dictionary(saved', values, format, x, codes, Min({Len(values), Len(codes), Len(values)}))
  BY <1>1, <1>2, <1>3, BuildIs
<1>5. Min({Len(values), Len(codes), Len(values)}) = Len(codes)
  BY <1>2, <1>3, MinOfThree
<1> QED
  BY <1>4, <1>5

LEMMA ExploreInit == ASSUME Init PROVE ExploreInv
<1>1. ScanType
  BY ScanInit
<1> QED
  BY <1>1, OptionAssumption DEF Init, ExploreInv

LEMMA ExploreStep ==
  ASSUME Counted, ExploreInv, ScanType', [Next]_vars
  PROVE  ExploreInv'
<1> USE DEF ExploreInv
<1>1. ASSUME phase = "scan", UNCHANGED <<format, dictSize, phase, saved>> PROVE ExploreInv'
  BY <1>1
<1>2. CASE ScanSkip \/ ScanRead
  BY <1>1, <1>2 DEF ScanSkip, ScanRead
<1>3. CASE ScanFails \/ ScanEnd
  BY <1>3 DEF ScanFails, ScanEnd
<1>4. CASE Select
  <2>1. /\ UNCHANGED <<format, dictSize, files, saved>> /\ phase = "select"
        /\ phase' \in {"save", "failed"}
    BY <1>4 DEF Select
  <2>2. CASE phase' = "failed"
    BY <2>1, <2>2
  <2>3. CASE phase' = "save"
    <3>1. files \in Seq(Texts) /\ files # << >>
      BY <2>1 DEF ScanType
    <3>2. PICK x \in ToSet(Alphabet) : Chosen(x)'
      BY <1>4, <2>3, <3>1, SelectChooses
    <3>3. Kept(x)'
      BY <2>3 DEF Kept
    <3>4. \E y \in ToSet(Alphabet) : Chosen(y)' /\ Kept(y)'
      BY <3>2, <3>3
    <3> QED
      BY <2>1, <2>3, <3>4
  <2> QED
    BY <2>1, <2>2, <2>3
<1>5. CASE Save
  <2>1. /\ UNCHANGED <<format, dictSize, files, values, codes, measured>> /\ phase = "save"
        /\ phase' = "load"
    BY <1>5 DEF Save
  <2>2. PICK x \in ToSet(Alphabet) : Chosen(x)
    BY <2>1
  <2>3. Chosen(x)'
    BY <2>1, <2>2 DEF Chosen, Scanned
  <2>4. Kept(x)'
    BY <1>5, <2>1, <2>2, SaveKeeps DEF Kept
  <2>5. \E y \in ToSet(Alphabet) : Chosen(y)' /\ Kept(y)'
    BY <2>3, <2>4
  <2> QED
    BY <2>1, <2>5
<1>6. CASE Load
  <2>1. /\ UNCHANGED <<format, dictSize, files, values, codes, measured, saved>> /\ phase = "load"
        /\ phase' = IF Accepted(saved) THEN "ready" ELSE "failed"
    BY <1>6 DEF Load
  <2>2. PICK x \in ToSet(Alphabet) : Chosen(x) /\ Kept(x)
    BY <2>1
  <2>3. Accepted(saved)
    BY <2>1, <2>2 DEF Kept, Dictionary, Reversible
  <2>4. phase' = "ready"
    BY <2>1, <2>3
  <2>5. Chosen(x)' /\ Kept(x)'
    BY <2>1, <2>2, <2>4 DEF Chosen, Kept, Scanned
  <2>6. \E y \in ToSet(Alphabet) : Chosen(y)' /\ Kept(y)'
    BY <2>5
  <2> QED
    BY <2>1, <2>4, <2>6
<1>7. ASSUME NEW e \in Edits, Edit(e[1], e[2]) PROVE ExploreInv'
  BY <1>1, <1>7 DEF Edit
<1>8. CASE UNCHANGED vars
  <2>1. UNCHANGED <<format, dictSize, phase, files, values, codes, measured, saved>>
    BY <1>8 DEF vars
  <2>2. \A x : Chosen(x)' <=> Chosen(x)
    BY <2>1 DEF Chosen, Scanned
  <2>3. \A x : Kept(x)' <=> Kept(x)
    BY <2>1 DEF Kept
  <2> QED
    BY <2>1, <2>2, <2>3
<1> QED
  BY <1>2, <1>3, <1>4, <1>5, <1>6, <1>7, <1>8 DEF Next

LEMMA SavedIsKept ==
  ASSUME ExploreInv, saved # NoConfig
  PROVE  /\ phase \in {"load", "ready"}
         /\ \E x \in ToSet(Alphabet) :
              Chosen(x) /\ Dictionary(saved, values, format, x, codes, Len(codes))
  BY DEF ExploreInv, Kept

LEMMA ReversibleFromInv == ASSUME ExploreInv PROVE GeneratedIsReversible
<1> SUFFICES ASSUME saved # NoConfig PROVE phase # "failed" /\ Reversible(saved)
  BY DEF GeneratedIsReversible
<1> QED
  BY SavedIsKept DEF Dictionary

LEMMA MeasuredFromInv == ASSUME ExploreInv PROVE SavedAsMeasured
<1> SUFFICES ASSUME saved # NoConfig
             PROVE  /\ {e.value : e \in EntrySet(saved)} = {e.value : e \in EntrySet(measured)}
                    /\ {e.code : e \in EntrySet(saved)} = {e.code : e \in EntrySet(measured)}
                    /\ Len(saved.entries) = Len(measured.entries)
  BY DEF SavedAsMeasured
<1>1. PICK x \in ToSet(Alphabet) :
        Chosen(x) /\ Dictionary(saved, values, format, x, codes, Len(codes))
  BY SavedIsKept
<1>2. Dictionary(measured, values, format, x, codes, Len(codes))
  BY <1>1 DEF Chosen
<1> QED
  BY <1>1, <1>2 DEF Dictionary

LEMMA NoEscapeFromInv == ASSUME ExploreInv PROVE ScannedNeedNoEscape
<1> SUFFICES ASSUME saved # NoConfig, format = "tce2", NEW k \in DOMAIN files
             PROVE  ~Occurs(Encode(saved, files[k]), saved.escape)
  BY DEF ScannedNeedNoEscape
<1> DEFINE s == files[k]
<1>1. PICK x \in ToSet(Alphabet) :
        Chosen(x) /\ Dictionary(saved, values, format, x, codes, Len(codes))
  BY SavedIsKept
<1>2. k \in 1..Len(files) /\ s \in Seq(ToSet(Alphabet))
  BY DEF ExploreInv, ScanType, Texts
<1>3. /\ CodecType(ToSet(Alphabet), saved) /\ Reversible(saved) /\ saved.version = "tce2"
      /\ saved.escape[1] = x
  BY <1>1 DEF Dictionary
<1>4. ASSUME NEW p \in 1..Len(s), NEW e \in EntrySet(saved) PROVE s[p] # e.code[1]
  <2>1. e.code \in {codes[l] : l \in 1..Len(codes)}
    BY <1>1 DEF Dictionary
  <2>2. PICK l \in 1..Len(codes) : e.code = codes[l]
    BY <2>1
  <2>3. ~Scanned(codes[l][1])
    BY <1>1 DEF Chosen
  <2> QED
    BY <1>2, <2>2, <2>3 DEF Scanned
<1>5. ASSUME NEW p \in 1..Len(s) PROVE s[p] # x
  <2>1. ~Scanned(x)
    BY <1>1 DEF Chosen
  <2> QED
    BY <1>2, <2>1 DEF Scanned
<1>6. Unused(saved, s)
  BY <1>3, <1>4, <1>5 DEF Unused
<1> HIDE DEF s
<1>7. Encode(saved, s) \in Seq(ToSet(Alphabet) \ {x})
  BY <1>2, <1>3, <1>6, NothingEscaped
<1>8. Len(saved.escape) = 1
  BY <1>3 DEF Reversible
<1> DEFINE out == Encode(saved, s)
<1> HIDE DEF out
<1>9. ASSUME NEW q \in DOMAIN out PROVE ~hasPrefixAt(out, q, saved.escape)
  <2>1. q \in 1..Len(out) /\ out[q] # x
    BY <1>7, <1>9, ElementOfSeq DEF out
  <2>2. hasPrefixAt(out, q, saved.escape) => out[q + 1 - 1] = saved.escape[1]
    BY <1>8 DEF hasPrefixAt
  <2>3. q + 1 - 1 = q
    BY <2>1
  <2> QED
    BY <1>3, <2>1, <2>2, <2>3
<1>10. ~Occurs(out, saved.escape)
  BY <1>9 DEF Occurs
<1> QED
  BY <1>10 DEF s, out

LEMMA ExploreHolds == ASSUME Counted PROVE Spec => []ExploreInv
<1> DEFINE IInv == ScanType /\ ScanBounded /\ ExploreInv
<1>1. Init => IInv
  BY ScanInit, ExploreInit
<1>2. IInv /\ [Next]_vars => IInv'
  BY ScanStep, ExploreStep
<1>3. IInv => ExploreInv
  OBVIOUS
<1> HIDE DEF IInv
<1> QED
  BY <1>1, <1>2, <1>3, PTL DEF Spec

(***************************************************************************)
(* For every tree, walk, list of rules, size, format, list of symbols and  *)
(* tokenizer that counts: the config.json that explore writes is accepted  *)
(* when the tree is mounted, and its encoding is reversible, which New     *)
(* does not check.                                                         *)
(***************************************************************************)
THEOREM ExploreIsReversible == ASSUME Counted PROVE Spec => []GeneratedIsReversible
<1>1. ExploreInv => GeneratedIsReversible
  BY ReversibleFromInv
<1> QED
  BY <1>1, ExploreHolds, PTL

(***************************************************************************)
(* And it has the values, and the codes, of the dictionary whose savings   *)
(* BuildDictionary measured, although it is built anew from the Result.    *)
(***************************************************************************)
THEOREM ExploreSavesWhatItMeasured == ASSUME Counted PROVE Spec => []SavedAsMeasured
<1>1. ExploreInv => SavedAsMeasured
  BY MeasuredFromInv
<1> QED
  BY <1>1, ExploreHolds, PTL

(***************************************************************************)
(* And under a tce2 dictionary, whatever the tree and the symbols it is    *)
(* chosen from, no text that was scanned is served with an escape: escape  *)
(* and codes are new to all of them (explorer.go:482-515, codec.go:193-    *)
(* 219).  This is about symbols, and bounds neither bytes nor tokens.      *)
(***************************************************************************)
THEOREM ExploreEscapesNothing == ASSUME Counted PROVE Spec => []ScannedNeedNoEscape
<1>1. ExploreInv => ScannedNeedNoEscape
  BY NoEscapeFromInv
<1> QED
  BY <1>1, ExploreHolds, PTL

\* Reading a text back through the saved config.
SavedRoundTrip ==
  saved # NoConfig =>
    \A s \in Texts : Decode(saved, Encode(saved, s)) = [err |-> "ok", content |-> s]

(***************************************************************************)
(* From the repository to the mount: through the config that explore       *)
(* writes every text, scanned or not, comes back as it was                 *)
(* (explorer.go:58-369, codec.go:119-247).                                 *)
(***************************************************************************)
THEOREM ExploreRoundTrips == ASSUME Counted PROVE Spec => []SavedRoundTrip
<1>1. ASSUME ExploreInv PROVE SavedRoundTrip
  <2> SUFFICES ASSUME saved # NoConfig, NEW s \in Texts
               PROVE  Decode(saved, Encode(saved, s)) = [err |-> "ok", content |-> s]
    BY DEF SavedRoundTrip
  <2>1. CodecType(ToSet(Alphabet), saved) /\ Reversible(saved)
    BY <1>1, SavedIsKept DEF Dictionary
  <2>2. s \in Seq(ToSet(Alphabet))
    BY DEF Texts
  <2> QED
    BY <2>1, <2>2, DecodeUndoesEncode
<1>2. ExploreInv => SavedRoundTrip
  BY <1>1
<1> QED
  BY <1>2, ExploreHolds, PTL
=============================================================================
