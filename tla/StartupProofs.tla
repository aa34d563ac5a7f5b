---------------------------- MODULE StartupProofs ----------------------------
(***************************************************************************)
(* Proofs of the properties of Startup, for every set of processes, every  *)
(* document and every bound.                                               *)
(***************************************************************************)
EXTENDS Startup, TLAPS

-----------------------------------------------------------------------------
(***************************************************************************)
(* The inductive invariant.                                                *)
(***************************************************************************)

\* A whole document, and perhaps the rest of a longer one after it: what
\* overlapping writes leave that are never cut short.
Begins(s) ==
  Len(s) > 0 => /\ s[1][3] \in 1..Len(s)
                /\ \A k \in 1..s[1][3] : s[k] = <<s[1][1], k, s[1][3]>>

\* The first cells of a document: what writes leave that never overlap.
Partial(s) ==
  Len(s) > 0 => /\ Len(s) <= s[1][3]
                /\ \A k \in 1..Len(s) : s[k] = <<s[1][1], k, s[1][3]>>

Mixed == {"cut", "overlap"} \subseteq faults

AloneInv == Spared({"overlap"}) => \A p, q \in RunningProcs : p = q

FilesInv ==
  /\ Spared({"cut"}) => \A f \in Files : Begins(text[f])
  /\ Spared({"overlap"}) => \A f \in Files : Partial(text[f])
  /\ Spared({"overlap"}) => \A p \in Procs : opened[p] => text[FileOf(pc[p])] = Empty

MemInv ==
  \A p \in Procs :
    /\ ~Mixed => Whole(mem[p].settings)
    /\ ~Mixed /\ pc[p] = "mounted" => Whole(mem[p].config)
    /\ Spared({"cut", "overlap"}) => Whole(mem[p].list)
    /\ pc[p] \in {"config", "instructions"} =>
         \E d \in Dictionaries : /\ mem[p].config = DictionaryDoc(d)
                                 /\ d.settings = mem[p].settings /\ d.list = mem[p].list

\* What a command on its own has read is still what is on disk, and what it
\* has found missing is still missing.
ReadInv ==
  Spared({"overlap"}) => \A p \in Procs :
    /\ pc[p] = "readSettings" => "settings" \in there
    /\ pc[p] = "defaults" => "settings" \notin there
    /\ pc[p] \in {"settings", "list"} /\ ~opened[p] => FileOf(pc[p]) \notin there
    /\ pc[p] \in {"stat", "defaults", "settings"} => mem[p].settings = SettingsDoc(DefaultSettings)
    /\ pc[p] \in {"statList", "list", "readList", "statConfig", "build", "config", "instructions"}
         => "settings" \in there /\ mem[p].settings = text["settings"]
    /\ pc[p] \in {"statConfig", "build", "config", "instructions"}
         => mem[p].list = text["candidates"] \/ Len(text["candidates"]) = 0
    /\ pc[p] = "instructions" => "config" \in there /\ mem[p].config = text["config"]
    /\ pc[p] = "load" /\ cmd[p] # "codec" => "config" \in there
    /\ pc[p] = "statConfig" => cmd[p] = "run"
    /\ pc[p] = "load" => cmd[p] \in {"run", "codec"}

SoundInv ==
  Spared({"crash", "cut", "overlap"}) =>
    /\ \A f \in there : Whole(text[f]) \/ \E p \in Procs : opened[p] /\ FileOf(pc[p]) = f
    /\ \A p \in Procs : pc[p] = "unreadable" => cmd[p] = "codec"

DescribesInv ==
  faults = {} /\ "config" \in there =>
    \/ text["instructions"] = text["config"]
    \/ \E p \in Procs : pc[p] = "instructions" \/ (pc[p] = "config" /\ opened[p])

IInv == TypeOK /\ AloneInv /\ FilesInv /\ MemInv /\ ReadInv /\ SoundInv /\ DescribesInv

-----------------------------------------------------------------------------
(***************************************************************************)
(* Documents and what os.WriteFile makes of them.                          *)
(***************************************************************************)
LEMMA DocType ==
  ASSUME NEW S, NEW v \in S, NEW n \in Nat \ {0}
  PROVE  /\ Doc(v, n) \in Seq(S \X Nat \X Nat)
         /\ Len(Doc(v, n)) = n
         /\ \A k \in 1..n : Doc(v, n)[k] = <<v, k, n>>
<1>1. \A k \in 1..n : <<v, k, n>> \in S \X Nat \X Nat
  OBVIOUS
<1>2. Doc(v, n) \in [1..n -> S \X Nat \X Nat]
  BY <1>1 DEF Doc
<1>3. Doc(v, n) \in Seq(S \X Nat \X Nat) /\ Len(Doc(v, n)) = n
  BY <1>2
<1>4. QED
  BY <1>3 DEF Doc

LEMMA DocWhole ==
  ASSUME NEW S, NEW v \in S, NEW n \in Nat \ {0}
  PROVE  Whole(Doc(v, n)) /\ Begins(Doc(v, n)) /\ Partial(Doc(v, n))
<1> DEFINE s == Doc(v, n)
<1>1. Len(s) = n /\ \A k \in 1..n : s[k] = <<v, k, n>>
  BY DocType
<1>2. s[1] = <<v, 1, n>>
  BY <1>1
<1>3. s[1][1] = v /\ s[1][3] = n
  BY <1>2
<1> HIDE DEF s
<1>4. s = Doc(v, n)
  BY DEF s
<1>5. QED
  BY <1>1, <1>3, <1>4 DEF Whole, Begins, Partial, s

\* The cells of a text, taken apart.
LEMMA CellsOf ==
  ASSUME NEW S, NEW s \in Seq(S \X Nat \X Nat)
  PROVE  /\ Len(s) \in Nat
         /\ s = [k \in 1..Len(s) |-> s[k]]
         /\ \A k \in 1..Len(s) : s[k][1] \in S /\ s[k][2] \in Nat /\ s[k][3] \in Nat
<1>1. \A k \in 1..Len(s) : s[k] \in S \X Nat \X Nat
  OBVIOUS
<1>2. QED
  BY <1>1

LEMMA SameDoc ==
  ASSUME NEW S, NEW s \in Seq(S \X Nat \X Nat), Len(s) > 0, Len(s) = s[1][3],
         \A k \in 1..Len(s) : s[k] = <<s[1][1], k, s[1][3]>>
  PROVE  Whole(s)
<1>1. s = [k \in 1..Len(s) |-> s[k]] /\ Len(s) \in Nat
  BY CellsOf
<1>2. s = [k \in 1..Len(s) |-> <<s[1][1], k, s[1][3]>>]
  BY <1>1
<1>3. s = Doc(s[1][1], s[1][3])
  BY <1>2 DEF Doc
<1>4. QED
  BY <1>3 DEF Whole

\* Where writes do not overlap, or are not cut short, only a whole document
\* parses.
LEMMA ReadableIsWhole ==
  ASSUME NEW S, NEW s \in Seq(S \X Nat \X Nat), Readable(s), Begins(s) \/ Partial(s)
  PROVE  Whole(s)
<1> DEFINE n == s[1][3]
<1>1. Len(s) \in Nat /\ Len(s) > 0 /\ n \in Nat
  BY CellsOf DEF Readable
<1>2. \A k \in 1..Len(s) : s[k][2] = s[k][3] <=> k = Len(s)
  BY DEF Readable
<1>3. CASE Begins(s)
  <2>1. n \in 1..Len(s) /\ \A k \in 1..n : s[k] = <<s[1][1], k, n>>
    BY <1>1, <1>3 DEF Begins
  <2>2. s[n] = <<s[1][1], n, n>>
    BY <2>1, <1>1
  <2>3. s[n][2] = n /\ s[n][3] = n
    BY <2>2
  <2>4. n = Len(s)
    BY <1>2, <2>1, <2>3
  <2>5. QED
    BY <1>1, <2>1, <2>4, SameDoc
<1>4. CASE Partial(s)
  <2>1. Len(s) <= n /\ \A k \in 1..Len(s) : s[k] = <<s[1][1], k, n>>
    BY <1>1, <1>4 DEF Partial
  <2>2. s[Len(s)] = <<s[1][1], Len(s), n>> /\ Len(s) \in 1..Len(s)
    BY <2>1, <1>1
  <2>3. s[Len(s)][2] = Len(s) /\ s[Len(s)][3] = n
    BY <2>2
  <2>4. n = Len(s)
    BY <1>2, <2>2, <2>3
  <2>5. QED
    BY <1>1, <2>1, <2>4, SameDoc
<1>5. QED
  BY <1>3, <1>4

LEMMA WholeIsReadable ==
  ASSUME NEW S, NEW s \in Seq(S \X Nat \X Nat), Whole(s)
  PROVE  Readable(s) /\ Begins(s) /\ Partial(s)
<1> DEFINE v == s[1][1]
           n == s[1][3]
<1>1. Len(s) \in Nat /\ Len(s) > 0 /\ 1 \in 1..Len(s)
  BY CellsOf DEF Whole
<1>2. v \in S /\ n \in Nat
  BY <1>1, CellsOf
<1>3. s = Doc(v, n)
  BY DEF Whole
<1> HIDE DEF v, n
<1>4. DOMAIN s = 1..n /\ DOMAIN s = 1..Len(s)
  BY <1>3, <1>2 DEF Doc
<1>5. Len(s) = n
  BY <1>4, <1>1, <1>2
<1>6. \A k \in 1..n : s[k] = <<v, k, n>>
  BY <1>3 DEF Doc
<1>7. \A k \in 1..n : s[k][2] = k /\ s[k][3] = n
  BY <1>6
<1>8. Readable(s)
  BY <1>1, <1>5, <1>7 DEF Readable
<1>9. QED
  BY <1>1, <1>2, <1>5, <1>6, <1>8 DEF Begins, Partial, v, n

LEMMA BothAreWhole ==
  ASSUME NEW S, NEW s \in Seq(S \X Nat \X Nat), Begins(s), Partial(s), Len(s) > 0
  PROVE  Whole(s)
<1>1. Len(s) \in Nat /\ s[1][3] \in Nat
  BY CellsOf
<1>2. Len(s) = s[1][3]
  BY <1>1 DEF Begins, Partial
<1>3. QED
  BY <1>2, SameDoc DEF Partial

LEMMA EmptyText == Begins(Empty) /\ Partial(Empty)
BY DEF Begins, Partial, Empty

LEMMA WriteType ==
  ASSUME NEW T, NEW old \in Seq(T), NEW s \in Seq(T)
  PROVE  WriteAtStart(old, s) \in Seq(T)
<1>1. LongerLen(s, old) \in Nat
  BY DEF LongerLen
<1>2. \A i \in 1..LongerLen(s, old) : (IF i <= Len(s) THEN s[i] ELSE old[i]) \in T
  BY DEF LongerLen
<1>3. QED
  BY <1>1, <1>2 DEF WriteAtStart

LEMMA WriteEmpty ==
  ASSUME NEW T, NEW s \in Seq(T)
  PROVE  WriteAtStart(Empty, s) = s
<1>1. LongerLen(s, Empty) = Len(s)
  BY DEF LongerLen, Empty
<1>2. WriteAtStart(Empty, s) = [i \in 1..Len(s) |-> s[i]]
  BY <1>1 DEF WriteAtStart
<1>3. QED
  BY <1>2

LEMMA WriteBegins ==
  ASSUME NEW S, NEW v \in S, NEW n \in Nat \ {0}, NEW T, NEW old \in Seq(T)
  PROVE  Begins(WriteAtStart(old, Doc(v, n)))
<1> DEFINE w == WriteAtStart(old, Doc(v, n))
           m == LongerLen(Doc(v, n), old)
<1>1. Len(Doc(v, n)) = n /\ \A k \in 1..n : Doc(v, n)[k] = <<v, k, n>>
  BY DocType
<1>2. m \in Nat /\ n <= m
  BY <1>1 DEF LongerLen
<1>3. w = [i \in 1..m |-> IF i <= n THEN Doc(v, n)[i] ELSE old[i]]
  BY <1>1 DEF WriteAtStart
<1> HIDE DEF w, m
<1>4. Len(w) = m
  BY <1>2, <1>3
<1>5. \A k \in 1..n : w[k] = <<v, k, n>>
  BY <1>1, <1>2, <1>3
<1>6. w[1] = <<v, 1, n>>
  BY <1>5
<1>7. w[1][1] = v /\ w[1][3] = n
  BY <1>6
<1>8. Begins(w)
  BY <1>2, <1>4, <1>5, <1>7 DEF Begins
<1>9. QED
  BY <1>8 DEF w

LEMMA FirstCells ==
  ASSUME NEW S, NEW v \in S, NEW n \in Nat \ {0}, NEW k \in 0..(n - 1)
  PROVE  /\ FirstBytes(Doc(v, n), k) \in Seq(S \X Nat \X Nat)
         /\ Partial(FirstBytes(Doc(v, n), k))
<1> DEFINE s == FirstBytes(Doc(v, n), k)
<1>1. /\ Doc(v, n) \in Seq(S \X Nat \X Nat) /\ Len(Doc(v, n)) = n
      /\ \A i \in 1..n : Doc(v, n)[i] = <<v, i, n>>
  BY DocType
<1>2. s \in Seq(S \X Nat \X Nat) /\ Len(s) = k /\ \A i \in 1..k : s[i] = Doc(v, n)[i]
  BY <1>1 DEF FirstBytes
<1>3. \A i \in 1..k : s[i] = <<v, i, n>>
  BY <1>1, <1>2
<1> HIDE DEF s
<1>4. Len(s) > 0 => s[1] = <<v, 1, n>>
  BY <1>2, <1>3
<1>5. Len(s) > 0 => s[1][1] = v /\ s[1][3] = n
  BY <1>4
<1>6. Partial(s)
  BY <1>2, <1>3, <1>5 DEF Partial
<1>7. QED
  BY <1>2, <1>6 DEF s

-----------------------------------------------------------------------------
(***************************************************************************)
(* Type correctness.                                                       *)
(***************************************************************************)
TextsOf(f) == IF f \in {"settings", "candidates"} THEN Seq(UserCells) ELSE Seq(DictionaryCells)

TextOK ==
  /\ text \in [Files -> Seq(UserCells) \cup Seq(DictionaryCells)]
  /\ \A f \in Files : text[f] \in TextsOf(f)

LEMMA TextTypes == TypeOK => TextOK
BY DEF TypeOK, TextOK, TextsOf, Files

LEMMA PutText ==
  ASSUME TextOK, NEW f \in Files, NEW w \in TextsOf(f), text' = [text EXCEPT ![f] = w]
  PROVE  /\ TextOK'
         /\ text'[f] = w /\ \A g \in Files \ {f} : text'[g] = text[g]
         /\ text'["settings"] \in Seq(UserCells) /\ text'["candidates"] \in Seq(UserCells)
         /\ text'["config"] \in Seq(DictionaryCells)
         /\ text'["instructions"] \in Seq(DictionaryCells)
<1>1. w \in Seq(UserCells) \cup Seq(DictionaryCells)
  BY DEF TextsOf
<1>2. text' \in [Files -> Seq(UserCells) \cup Seq(DictionaryCells)]
  BY <1>1 DEF TextOK
<1>3. text'[f] = w /\ \A g \in Files \ {f} : text'[g] = text[g]
  BY DEF TextOK
<1>4. \A g \in Files : text'[g] \in TextsOf(g)
  BY <1>3 DEF TextOK
<1>5. TextOK'
  BY <1>2, <1>4 DEF TextOK, TextsOf
<1>6. QED
  BY <1>3, <1>4, <1>5 DEF TextsOf, Files

LEMMA UserDocs ==
  /\ \A u \in Settings : /\ SettingsDoc(u) \in Seq(UserCells) /\ Whole(SettingsDoc(u))
                           /\ Begins(SettingsDoc(u)) /\ Partial(SettingsDoc(u))
  /\ \A u \in Lists : /\ ListDoc(u) \in Seq(UserCells) /\ Whole(ListDoc(u))
                        /\ Begins(ListDoc(u)) /\ Partial(ListDoc(u))
<1>1. ASSUME NEW u \in Settings \cup Lists
      PROVE  /\ Doc(u, Cells[u]) \in Seq(UserCells) /\ Whole(Doc(u, Cells[u]))
             /\ Begins(Doc(u, Cells[u])) /\ Partial(Doc(u, Cells[u]))
  <2>1. Cells[u] \in Nat \ {0}
    BY CellsAssumption
  <2>2. QED
    BY <2>1, DocType, DocWhole DEF UserCells
<1>2. QED
  BY <1>1 DEF SettingsDoc, ListDoc

LEMMA DictionaryDocs ==
  ASSUME NEW d \in Dictionaries
  PROVE  /\ DictionaryDoc(d) \in Seq(DictionaryCells) /\ Whole(DictionaryDoc(d))
         /\ Begins(DictionaryDoc(d)) /\ Partial(DictionaryDoc(d))
         /\ DictionaryDoc(d)[1][1] = d
<1>1. Cells[d.tree] \in Nat \ {0}
  BY CellsAssumption DEF Dictionaries
<1> DEFINE n == Cells[d.tree]
<1> HIDE DEF n
<1>a. n \in Nat \ {0} /\ DictionaryDoc(d) = Doc(d, n)
  BY <1>1 DEF DictionaryDoc, n
<1>b. \A k \in 1..n : Doc(d, n)[k] = <<d, k, n>>
  BY <1>a, DocType
<1>2. DictionaryDoc(d)[1] = <<d, 1, n>>
  BY <1>a, <1>b
<1>3. DictionaryDoc(d)[1][1] = d
  BY <1>2
<1>4. QED
  BY <1>1, <1>3, DocType, DocWhole DEF DictionaryDoc, DictionaryCells

LEMMA DefaultsInside == DefaultSettings \in Settings /\ DefaultList \in Lists
BY DEF Settings, Lists

LEMMA FreshType ==
  /\ Fresh \in [settings : Seq(UserCells), list : Seq(UserCells), config : Seq(DictionaryCells)]
  /\ Whole(Fresh.settings) /\ Whole(Fresh.list)
<1>1. Empty \in Seq(DictionaryCells)
  BY DEF Empty
<1>2. QED
  BY <1>1, UserDocs, DefaultsInside DEF Fresh

LEMMA StageFile ==
  \A stage \in WriteStages : FileOf(stage) \in Files
BY DEF WriteStages, FileOf, Files

(***************************************************************************)
(* What an open process is about to write is one whole document.           *)
(***************************************************************************)
LEMMA PayloadDoc ==
  ASSUME TypeOK, MemInv, NEW p \in Procs, pc[p] \in WriteStages
  PROVE  /\ Payload(p) \in TextsOf(FileOf(pc[p])) /\ Whole(Payload(p))
         /\ \E S : \E v \in S, n \in Nat \ {0} :
              /\ Payload(p) = Doc(v, n) /\ Seq(S \X Nat \X Nat) = TextsOf(FileOf(pc[p]))
<1>1. CASE pc[p] \in {"defaults", "list"}
  <2>1. Payload(p) = ListDoc(DefaultList) /\ FileOf(pc[p]) = "candidates"
    BY <1>1 DEF Payload, FileOf
  <2>2. Cells[DefaultList] \in Nat \ {0} /\ DefaultList \in Settings \cup Lists
    BY CellsAssumption, DefaultsInside
  <2>3. QED
    BY <2>1, <2>2, UserDocs, DefaultsInside DEF TextsOf, ListDoc, UserCells
<1>2. CASE pc[p] = "settings"
  <2>1. Payload(p) = SettingsDoc(DefaultSettings) /\ FileOf(pc[p]) = "settings"
    BY <1>2 DEF Payload, FileOf
  <2>2. Cells[DefaultSettings] \in Nat \ {0} /\ DefaultSettings \in Settings \cup Lists
    BY CellsAssumption, DefaultsInside
  <2>3. QED
    BY <2>1, <2>2, UserDocs, DefaultsInside DEF TextsOf, SettingsDoc, UserCells
<1>3. CASE pc[p] \in {"config", "instructions"}
  <2>1. Payload(p) = mem[p].config
    BY <1>3 DEF Payload
  <2>2. FileOf(pc[p]) \in {"config", "instructions"}
    BY <1>3 DEF FileOf
  <2>3. PICK d \in Dictionaries : mem[p].config = DictionaryDoc(d)
    BY <1>3 DEF MemInv
  <2>4. Cells[d.tree] \in Nat \ {0}
    BY CellsAssumption DEF Dictionaries
  <2>5. TextsOf(FileOf(pc[p])) = Seq(DictionaryCells)
    BY <2>2 DEF TextsOf
  <2>6. QED
    BY <2>1, <2>3, <2>4, <2>5, DictionaryDocs DEF DictionaryDoc, DictionaryCells
<1>4. QED
  BY <1>1, <1>2, <1>3 DEF WriteStages

\* The text a write leaves.
LEMMA WrittenType ==
  ASSUME TypeOK, MemInv, NEW p \in Procs, pc[p] \in WriteStages
  PROVE  /\ WriteAtStart(text[FileOf(pc[p])], Payload(p)) \in TextsOf(FileOf(pc[p]))
         /\ Begins(WriteAtStart(text[FileOf(pc[p])], Payload(p)))
         /\ text[FileOf(pc[p])] = Empty
              => WriteAtStart(text[FileOf(pc[p])], Payload(p)) = Payload(p)
<1> DEFINE f == FileOf(pc[p])
<1>1. PICK S : \E v \in S, n \in Nat \ {0} :
        Payload(p) = Doc(v, n) /\ Seq(S \X Nat \X Nat) = TextsOf(f)
  BY PayloadDoc
<1>2. PICK v \in S, n \in Nat \ {0} : Payload(p) = Doc(v, n)
  BY <1>1
<1>3. text[f] \in Seq(S \X Nat \X Nat) /\ Payload(p) \in Seq(S \X Nat \X Nat)
  BY <1>1, PayloadDoc, TextTypes, StageFile DEF TextOK
<1>4. QED
  BY <1>1, <1>2, <1>3, WriteType, WriteBegins, WriteEmpty

\* The text a write cut short leaves.
LEMMA CutType ==
  ASSUME TypeOK, MemInv, NEW p \in Procs, pc[p] \in WriteStages,
         NEW k \in 0..(Len(Payload(p)) - 1)
  PROVE  /\ WriteAtStart(text[FileOf(pc[p])], FirstBytes(Payload(p), k)) \in TextsOf(FileOf(pc[p]))
         /\ text[FileOf(pc[p])] = Empty
              => Partial(WriteAtStart(text[FileOf(pc[p])], FirstBytes(Payload(p), k)))
<1> DEFINE f == FileOf(pc[p])
           part == FirstBytes(Payload(p), k)
<1>1. PICK S : \E v \in S, n \in Nat \ {0} :
        Payload(p) = Doc(v, n) /\ Seq(S \X Nat \X Nat) = TextsOf(f)
  BY PayloadDoc
<1>2. PICK v \in S, n \in Nat \ {0} : Payload(p) = Doc(v, n)
  BY <1>1
<1>3. k \in 0..(n - 1)
  BY <1>2, DocType
<1>4. part \in Seq(S \X Nat \X Nat) /\ Partial(part)
  BY <1>2, <1>3, FirstCells
<1>5. text[f] \in Seq(S \X Nat \X Nat)
  BY <1>1, TextTypes, StageFile DEF TextOK
<1>6. QED
  BY <1>1, <1>4, <1>5, WriteType, WriteEmpty

LEMMA TypeInit == Init => TypeOK
<1> SUFFICES ASSUME Init PROVE TypeOK
  OBVIOUS
<1>1. Empty \in Seq(UserCells) /\ Empty \in Seq(DictionaryCells)
  BY DEF Empty
<1>2. mem \in [Procs -> [settings : Seq(UserCells), list : Seq(UserCells),
                        config : Seq(DictionaryCells)]]
  BY FreshType DEF Init
<1>3. QED
  BY <1>1, <1>2, BoundsAssumption DEF Init, TypeOK, Files, Running, Ended, WriteStages, Commands

LEMMA TypeStep ==
  ASSUME TypeOK, MemInv, NEW p \in Procs, Step(p)
  PROVE  TypeOK'
<1> DEFINE M == [settings : Seq(UserCells), list : Seq(UserCells), config : Seq(DictionaryCells)]
<1> USE DEF Go, FilesUnchanged, Quiet
<1>1. ASSUME mem' \in [Procs -> M], FilesUnchanged, UNCHANGED <<cmd, starts, edits>>,
             NEW stage \in Running \cup Ended, Go(p, stage),
             ~opened[p], UNCHANGED opened, faults' \subseteq {"crash", "cut", "refused", "overlap"}
      PROVE  TypeOK'
  <2>1. pc' \in [Procs -> Running \cup Ended]
    BY <1>1 DEF TypeOK
  <2>2. \A q \in Procs : opened'[q] => pc'[q] \in WriteStages /\ FileOf(pc'[q]) \in there'
    BY <1>1 DEF TypeOK
  <2>3. QED
    BY <1>1, <2>1, <2>2 DEF TypeOK
<1>2. ASSUME pc[p] \notin WriteStages
      PROVE  ~opened[p]
  BY <1>2 DEF TypeOK
<1>3. ASSUME NEW m \in M, mem' = [mem EXCEPT ![p] = m]
      PROVE  mem' \in [Procs -> M]
  BY <1>3 DEF TypeOK
<1>4. mem \in [Procs -> M] /\ mem[p] \in M /\ faults \subseteq {"crash", "cut", "refused", "overlap"}
  BY DEF TypeOK
<1>5. Fresh \in M
  BY FreshType
<1>6. /\ text["settings"] \in Seq(UserCells) /\ text["candidates"] \in Seq(UserCells)
      /\ text["config"] \in Seq(DictionaryCells)
  BY DEF TypeOK
<1>7. CASE StatSettings(p)
  <2>1. PICK stage \in Running \cup Ended : Go(p, stage)
    BY <1>7 DEF StatSettings, Running, Ended, WriteStages
  <2>2. QED
    BY <1>1, <1>2, <1>4, <1>7, <2>1 DEF StatSettings, WriteStages
<1>8. CASE ReadSettings(p)
  <2>1. PICK stage \in Running \cup Ended : Go(p, stage)
    BY <1>8 DEF ReadSettings, Running, Ended, WriteStages, Exit
  <2>2. mem' \in [Procs -> M]
    <3>1. CASE Readable(text["settings"])
      <4>1. mem' = [mem EXCEPT ![p].settings = text["settings"]]
        BY <1>8, <3>1 DEF ReadSettings
      <4>2. QED
        BY <1>4, <1>6, <4>1
    <3>2. CASE ~Readable(text["settings"])
      BY <1>3, <1>5, <1>8, <3>2 DEF ReadSettings, Exit
    <3>3. QED
      BY <3>1, <3>2
  <2>3. QED
    BY <1>1, <1>2, <1>4, <1>8, <2>1, <2>2 DEF ReadSettings, WriteStages
<1>9. CASE StatList(p)
  <2>1. PICK stage \in Running \cup Ended : Go(p, stage)
    BY <1>9 DEF StatList, Running, Ended, WriteStages
  <2>2. QED
    BY <1>1, <1>2, <1>4, <1>9, <2>1 DEF StatList, WriteStages
<1>10. CASE ReadList(p)
  <2>1. PICK stage \in Running \cup Ended : Go(p, stage)
    BY <1>10 DEF ReadList, Running, Ended, WriteStages
  <2>2. mem' \in [Procs -> M]
    BY <1>4, <1>6, <1>10, UserDocs, DefaultsInside DEF ReadList
  <2>3. QED
    BY <1>1, <1>2, <1>4, <1>10, <2>1, <2>2 DEF ReadList, WriteStages
<1>11. CASE StatConfig(p)
  <2>1. PICK stage \in Running \cup Ended : Go(p, stage)
    BY <1>11 DEF StatConfig, Running, Ended, WriteStages
  <2>2. QED
    BY <1>1, <1>2, <1>4, <1>11, <2>1 DEF StatConfig, WriteStages
<1>12. CASE Build(p)
  <2>1. PICK stage \in Running \cup Ended : Go(p, stage)
    BY <1>12 DEF Build, Running, Ended, WriteStages
  <2>2. PICK t \in Trees : mem' = [mem EXCEPT ![p].config =
                 DictionaryDoc([settings |-> mem[p].settings, list |-> mem[p].list, tree |-> t])]
    BY <1>12 DEF Build
  <2>3. [settings |-> mem[p].settings, list |-> mem[p].list, tree |-> t] \in Dictionaries
    BY <1>4 DEF Dictionaries
  <2>4. mem' \in [Procs -> M]
    BY <1>4, <2>2, <2>3, DictionaryDocs
  <2>5. QED
    BY <1>1, <1>2, <1>4, <1>12, <2>1, <2>4 DEF Build, WriteStages
<1>13. CASE Load(p)
  <2>1. PICK stage \in Running \cup Ended : Go(p, stage)
    BY <1>13 DEF Load, Running, Ended, WriteStages, Exit
  <2>2. mem' \in [Procs -> M]
    <3>1. CASE Readable(text["config"])
      <4>1. mem' = [mem EXCEPT ![p].config = text["config"]]
        BY <1>13, <3>1 DEF Load
      <4>2. QED
        BY <1>4, <1>6, <4>1
    <3>2. CASE ~Readable(text["config"])
      BY <1>3, <1>5, <1>13, <3>2 DEF Load, Exit
    <3>3. QED
      BY <3>1, <3>2
  <2>3. QED
    BY <1>1, <1>2, <1>4, <1>13, <2>1, <2>2 DEF Load, WriteStages
<1>14. CASE Refuse(p)
  <2>1. mem' \in [Procs -> M]
    BY <1>3, <1>5, <1>14 DEF Refuse, Exit
  <2>2. "refused" \in Running \cup Ended
    BY DEF Ended
  <2>3. QED
    BY <1>1, <1>4, <1>14, <2>1, <2>2 DEF Refuse, Exit
<1>15. CASE Crash(p)
  <2>1. mem' \in [Procs -> M]
    BY <1>3, <1>5, <1>15 DEF Crash, Exit
  <2>2. QED
    BY <2>1, <1>15 DEF Crash, Exit, TypeOK, Ended
<1>16. CASE Truncate(p)
  <2> DEFINE f == FileOf(pc[p])
  <2>1. f \in Files /\ Empty \in TextsOf(f)
    BY <1>16, StageFile DEF Truncate, TextsOf, Empty
  <2>2. text' = [text EXCEPT ![f] = Empty]
    BY <1>16 DEF Truncate
  <2>3. /\ text' \in [Files -> Seq(UserCells) \cup Seq(DictionaryCells)]
        /\ text'[f] = Empty /\ \A g \in Files \ {f} : text'[g] = text[g]
        /\ text'["settings"] \in Seq(UserCells) /\ text'["candidates"] \in Seq(UserCells)
        /\ text'["config"] \in Seq(DictionaryCells)
        /\ text'["instructions"] \in Seq(DictionaryCells)
    BY <2>1, <2>2, PutText, TextTypes DEF TextOK
  <2>4. there' \subseteq Files /\ \A g \in Files \ there' : text'[g] = Empty
    BY <1>16, <2>1, <2>3 DEF Truncate, TypeOK
  <2>5. opened' \in [Procs -> BOOLEAN] /\ \A q \in Procs : opened'[q] => pc'[q] \in WriteStages /\ FileOf(pc'[q]) \in there'
    BY <1>16 DEF Truncate, TypeOK
  <2>6. QED
    BY <1>16, <2>3, <2>4, <2>5 DEF Truncate, TypeOK
<1>17. ASSUME opened[p], NEW w \in TextsOf(FileOf(pc[p])),
              text' = [text EXCEPT ![FileOf(pc[p])] = w], UNCHANGED <<there, cmd, starts, edits>>,
              NEW stage \in Running \cup Ended, Go(p, stage), mem' \in [Procs -> M],
              opened' = [opened EXCEPT ![p] = FALSE],
              faults' \subseteq {"crash", "cut", "refused", "overlap"}
       PROVE  TypeOK'
  <2> DEFINE f == FileOf(pc[p])
  <2>1. f \in Files
    BY <1>17, StageFile DEF TypeOK
  <2>3. /\ text' \in [Files -> Seq(UserCells) \cup Seq(DictionaryCells)]
        /\ \A g \in Files \ {f} : text'[g] = text[g]
        /\ text'["settings"] \in Seq(UserCells) /\ text'["candidates"] \in Seq(UserCells)
        /\ text'["config"] \in Seq(DictionaryCells)
        /\ text'["instructions"] \in Seq(DictionaryCells)
    BY <1>17, <2>1, PutText, TextTypes DEF TextOK
  <2>4. \A g \in Files \ there : text'[g] = Empty
    BY <1>17, <2>3 DEF TypeOK
  <2>5. opened' \in [Procs -> BOOLEAN] /\ \A q \in Procs : opened'[q] => pc'[q] \in WriteStages /\ FileOf(pc'[q]) \in there'
    BY <1>17 DEF TypeOK
  <2>6. QED
    BY <1>17, <2>3, <2>4, <2>5 DEF TypeOK
<1>18. CASE Write(p)
  <2>1. /\ opened[p] /\ pc[p] \in WriteStages
        /\ text' = [text EXCEPT ![FileOf(pc[p])] = WriteAtStart(text[FileOf(pc[p])], Payload(p))]
    BY <1>18 DEF Write, TypeOK
  <2>2. WriteAtStart(text[FileOf(pc[p])], Payload(p)) \in TextsOf(FileOf(pc[p]))
    BY <2>1, WrittenType
  <2>3. NextStage(p) \in Running \cup Ended
    BY DEF NextStage, Running, Ended, WriteStages
  <2>4. QED
    BY <1>4, <1>17, <1>18, <2>1, <2>2, <2>3 DEF Write
<1>19. CASE CutShort(p)
  <2>1. PICK k \in 0..(Len(Payload(p)) - 1) : text' =
          [text EXCEPT ![FileOf(pc[p])] = WriteAtStart(text[FileOf(pc[p])], FirstBytes(Payload(p), k))]
    BY <1>19 DEF CutShort
  <2>2. opened[p] /\ pc[p] \in WriteStages
    BY <1>19 DEF CutShort, TypeOK
  <2>3. WriteAtStart(text[FileOf(pc[p])], FirstBytes(Payload(p), k)) \in TextsOf(FileOf(pc[p]))
    BY <2>2, CutType
  <2>4. mem' \in [Procs -> M] /\ "refused" \in Running \cup Ended
    BY <1>3, <1>5, <1>19 DEF CutShort, Exit, Ended
  <2>5. QED
    BY <1>4, <1>17, <1>19, <2>1, <2>2, <2>3, <2>4 DEF CutShort, Exit
<1>20. QED
  BY <1>7, <1>8, <1>9, <1>10, <1>11, <1>12, <1>13, <1>14, <1>15, <1>16, <1>18, <1>19 DEF Step

LEMMA TypeUser ==
  ASSUME TypeOK, User
  PROVE  TypeOK'
<1>1. Overlap \subseteq {"crash", "cut", "refused", "overlap"}
  BY DEF Overlap
<1>2. ASSUME NEW p \in Procs, NEW c \in Commands, Start(p, c) PROVE TypeOK'
  <2>1. mem' \in [Procs -> [settings : Seq(UserCells), list : Seq(UserCells),
                            config : Seq(DictionaryCells)]]
    BY <1>2, FreshType DEF Start, TypeOK
  <2>2. ~opened[p]
    BY <1>2 DEF Start, TypeOK, WriteStages, Ended
  <2>3. pc' \in [Procs -> Running \cup Ended]
    BY <1>2 DEF Start, Go, TypeOK, Running
  <2>4. \A q \in Procs : opened'[q] => pc'[q] \in WriteStages /\ FileOf(pc'[q]) \in there'
    BY <1>2, <2>2 DEF Start, Go, FilesUnchanged, TypeOK
  <2>5. starts' \in 0..MaxStarts
    BY <1>2, BoundsAssumption DEF Start, TypeOK
  <2>6. cmd' \in [Procs -> Commands]
    BY <1>2 DEF Start, TypeOK
  <2>7. QED
    BY <1>1, <1>2, <2>1, <2>3, <2>4, <2>5, <2>6 DEF Start, FilesUnchanged, TypeOK
<1>3. ASSUME NEW f \in Files, NEW s \in TextsOf(f), text' = [text EXCEPT ![f] = s],
             there' \subseteq Files, f \in there' \/ s = Empty,
             \A g \in Files \ {f} : g \in there' <=> g \in there,
             \A q \in Procs : opened[q] => FileOf(pc[q]) \in there',
             edits < MaxEdits, edits' = edits + 1, faults' = faults \cup Overlap,
             UNCHANGED <<pc, opened, cmd, mem, starts>>
      PROVE  TypeOK'
  <2>1. /\ text' \in [Files -> Seq(UserCells) \cup Seq(DictionaryCells)]
        /\ text'[f] = s /\ \A g \in Files \ {f} : text'[g] = text[g]
        /\ text'["settings"] \in Seq(UserCells) /\ text'["candidates"] \in Seq(UserCells)
        /\ text'["config"] \in Seq(DictionaryCells)
        /\ text'["instructions"] \in Seq(DictionaryCells)
    BY <1>3, PutText, TextTypes DEF TextOK
  <2>2. \A g \in Files \ there' : text'[g] = Empty
    BY <1>3, <2>1 DEF TypeOK
  <2>3. edits' \in 0..MaxEdits
    BY <1>3, BoundsAssumption DEF TypeOK
  <2>4. \A q \in Procs : opened'[q] => pc'[q] \in WriteStages /\ FileOf(pc'[q]) \in there'
    BY <1>3 DEF TypeOK
  <2>5. QED
    BY <1>1, <1>3, <2>1, <2>2, <2>3, <2>4 DEF TypeOK
<1>4. ASSUME NEW f \in Files, NEW s \in TextsOf(f), Edit(f, s) PROVE TypeOK'
  BY <1>3, <1>4 DEF Edit, TypeOK
<1>5. ASSUME NEW f \in Files, Remove(f) PROVE TypeOK'
  <2>1. Empty \in TextsOf(f)
    BY DEF TextsOf, Empty
  <2>2. \A q \in Procs : opened[q] => FileOf(pc[q]) \in there'
    BY <1>5 DEF Remove, TypeOK
  <2>3. QED
    BY <1>3, <1>5, <2>1, <2>2 DEF Remove, TypeOK
<1>6. QED
  BY <1>2, <1>4, <1>5, UserDocs DEF User, Files, TextsOf, Settings, Lists

-----------------------------------------------------------------------------
(***************************************************************************)
(* What every step leaves alone.                                           *)
(***************************************************************************)
LEMMA StepFrame ==
  ASSUME TypeOK, NEW p \in Procs, Step(p)
  PROVE  /\ pc[p] \in Running /\ cmd' = cmd /\ faults \subseteq faults'
         /\ \A q \in Procs \ {p} : pc'[q] = pc[q] /\ opened'[q] = opened[q] /\ mem'[q] = mem[q]
<1> USE DEF Go, Quiet, TypeOK
<1>1. CASE StatSettings(p)
  BY <1>1 DEF StatSettings, Running
<1>2. CASE ReadSettings(p)
  BY <1>2 DEF ReadSettings, Running, Exit
<1>3. CASE StatList(p)
  BY <1>3 DEF StatList, Running
<1>4. CASE ReadList(p)
  BY <1>4 DEF ReadList, Running
<1>5. CASE StatConfig(p)
  BY <1>5 DEF StatConfig, Running
<1>6. CASE Build(p)
  BY <1>6 DEF Build, Running
<1>7. CASE Load(p)
  BY <1>7 DEF Load, Running, Exit
<1>8. CASE Truncate(p)
  BY <1>8 DEF Truncate, Running
<1>9. CASE Write(p)
  BY <1>9 DEF Write, Running
<1>10. CASE CutShort(p)
  BY <1>10 DEF CutShort, Running, Exit
<1>11. CASE Refuse(p)
  BY <1>11 DEF Refuse, Exit
<1>12. CASE Crash(p)
  BY <1>12 DEF Crash, Exit
<1>13. QED
  BY <1>1, <1>2, <1>3, <1>4, <1>5, <1>6, <1>7, <1>8, <1>9, <1>10, <1>11, <1>12 DEF Step

LEMMA StepKinds ==
  ASSUME TypeOK, NEW p \in Procs, Step(p)
  PROVE  \/ /\ FilesUnchanged /\ opened' = opened /\ ~opened[p]
            /\ pc[p] \in WriteStages => "refused" \in faults'
         \/ Crash(p) \/ Truncate(p) \/ Write(p) \/ CutShort(p)
<1> USE DEF TypeOK, WriteStages
<1>1. CASE StatSettings(p) \/ ReadSettings(p) \/ StatList(p) \/ ReadList(p)
  BY <1>1 DEF StatSettings, ReadSettings, StatList, ReadList
<1>2. CASE StatConfig(p) \/ Build(p) \/ Load(p) \/ Refuse(p)
  BY <1>2 DEF StatConfig, Build, Load, Refuse
<1>3. QED
  BY <1>1, <1>2 DEF Step

LEMMA OpenIsRunning == TypeOK => \A p \in Procs : opened[p] => pc[p] \in Running
BY DEF TypeOK, Running

\* Where no commands overlap the user acts between them.
LEMMA UserFrame ==
  ASSUME TypeOK, User
  PROVE  /\ faults \subseteq faults' /\ opened' = opened
         /\ Spared({"overlap"})' => RunningProcs = {}
         /\ ("cut" \in faults' => "cut" \in faults) /\ ("crash" \in faults' => "crash" \in faults)
         /\ \/ \E p \in Procs, c \in Commands : Start(p, c)
            \/ /\ UNCHANGED <<pc, cmd, mem>>
               /\ \E f \in Files : \E s \in TextsOf(f) :
                    /\ text' = [text EXCEPT ![f] = s] /\ Begins(s) /\ Partial(s)
                    /\ \/ there' = there \cup {f} /\ Whole(s)
                       \/ there' = there \ {f} /\ s = Empty
                          /\ \A p \in Procs : opened[p] => FileOf(pc[p]) # f
                    /\ f # "instructions" /\ (f = "config" => s = Empty)
<1>1. \/ \E p \in Procs, c \in Commands : Start(p, c)
      \/ \E u \in UserSettings : Edit("settings", SettingsDoc(u))
      \/ \E u \in UserLists : Edit("candidates", ListDoc(u))
      \/ \E f \in {"settings", "candidates", "config"} : Remove(f)
  BY DEF User
<1>2. faults' = faults \cup Overlap /\ opened' = opened
  BY <1>1 DEF Start, Edit, Remove
<1>3. CASE \E p \in Procs, c \in Commands : Start(p, c)
  BY <1>2, <1>3 DEF Overlap, Spared
<1>4. ASSUME NEW f \in {"settings", "candidates"}, NEW s \in Seq(UserCells), Edit(f, s),
             Whole(s), Begins(s), Partial(s)
      PROVE  /\ UNCHANGED <<pc, cmd, mem>>
             /\ \E g \in Files : \E t \in TextsOf(g) :
                    /\ text' = [text EXCEPT ![g] = t] /\ Begins(t) /\ Partial(t)
                    /\ \/ there' = there \cup {g} /\ Whole(t)
                       \/ there' = there \ {g} /\ t = Empty
                          /\ \A p \in Procs : opened[p] => FileOf(pc[p]) # g
                    /\ g # "instructions" /\ (g = "config" => t = Empty)
  <2>1. f \in Files /\ s \in TextsOf(f)
    BY DEF Files, TextsOf
  <2>2. QED
    BY <1>4, <2>1 DEF Edit
<1>5. CASE \E u \in UserSettings : Edit("settings", SettingsDoc(u))
  BY <1>2, <1>4, <1>5, UserDocs DEF Overlap, Spared, Settings
<1>6. CASE \E u \in UserLists : Edit("candidates", ListDoc(u))
  BY <1>2, <1>4, <1>6, UserDocs DEF Overlap, Spared, Lists
<1>7. CASE \E f \in {"settings", "candidates", "config"} : Remove(f)
  <2>1. PICK f \in {"settings", "candidates", "config"} : Remove(f)
    BY <1>7
  <2>2. f \in Files /\ Empty \in TextsOf(f)
    BY DEF Files, TextsOf, Empty
  <2>3. QED
    BY <1>2, <2>1, <2>2, EmptyText DEF Overlap, Spared, Remove
<1>8. QED
  BY <1>1, <1>3, <1>5, <1>6, <1>7

LEMMA AloneStep ==
  ASSUME TypeOK, AloneInv, Next
  PROVE  AloneInv'
<1> SUFFICES ASSUME Spared({"overlap"})' PROVE \A p, q \in RunningProcs' : p = q
  BY DEF AloneInv
<1>1. ASSUME NEW p \in Procs, Step(p) PROVE \A q, r \in RunningProcs' : q = r
  <2>1. Spared({"overlap"}) /\ p \in RunningProcs
    BY <1>1, StepFrame DEF Spared, RunningProcs
  <2>2. \A q \in Procs \ {p} : q \notin RunningProcs
    BY <2>1 DEF AloneInv
  <2>3. \A q \in Procs \ {p} : q \notin RunningProcs'
    BY <1>1, <2>2, StepFrame DEF RunningProcs
  <2>4. QED
    BY <2>3 DEF RunningProcs
<1>2. ASSUME User PROVE \A q, r \in RunningProcs' : q = r
  <2>1. RunningProcs = {}
    BY <1>2, UserFrame
  <2>2. CASE \E p \in Procs, c \in Commands : Start(p, c)
    <3>1. PICK p \in Procs, c \in Commands : Start(p, c)
      BY <2>2
    <3>2. \A q \in Procs \ {p} : pc'[q] = pc[q]
      BY <3>1 DEF Start, Go, TypeOK
    <3>3. QED
      BY <2>1, <3>2 DEF RunningProcs
  <2>3. CASE pc' = pc
    BY <2>1, <2>3 DEF RunningProcs
  <2>4. QED
    BY <1>2, <2>2, <2>3, UserFrame
<1>3. QED
  BY <1>1, <1>2 DEF Next, Command

-----------------------------------------------------------------------------
(***************************************************************************)
(* What the files hold.                                                    *)
(***************************************************************************)
LEMMA PutAt ==
  ASSUME TypeOK, NEW f \in Files, NEW w, text' = [text EXCEPT ![f] = w]
  PROVE  text'[f] = w /\ \A g \in Files \ {f} : text'[g] = text[g]
BY DEF TypeOK

LEMMA FilesStep ==
  ASSUME TypeOK, AloneInv, FilesInv, MemInv, NEW p \in Procs, Step(p)
  PROVE  FilesInv'
<1> DEFINE f == FileOf(pc[p])
<1>1. \A some : Spared(some)' => Spared(some)
  BY StepFrame DEF Spared
<1>2. CASE FilesUnchanged /\ opened' = opened /\ ~opened[p]
  <2>1. \A q \in Procs : opened'[q] => opened[q] /\ pc'[q] = pc[q]
    BY <1>2, StepFrame
  <2>2. QED
    BY <1>1, <1>2, <2>1 DEF FilesInv, FilesUnchanged
<1>3. CASE Crash(p)
  <2>1. FilesUnchanged /\ \A q \in Procs : opened'[q] => opened[q] /\ pc'[q] = pc[q]
    BY <1>3, StepFrame DEF Crash, TypeOK
  <2>2. QED
    BY <1>1, <2>1 DEF FilesInv, FilesUnchanged
<1>4. CASE Truncate(p)
  <2>1. f \in Files /\ text' = [text EXCEPT ![f] = Empty] /\ pc' = pc
    BY <1>4, StageFile DEF Truncate
  <2>2. text'[f] = Empty /\ \A g \in Files \ {f} : text'[g] = text[g]
    BY <2>1, PutAt
  <2>3. Spared({"overlap"}) => \A q \in Procs \ {p} : ~opened[q]
    BY StepFrame, OpenIsRunning DEF AloneInv, RunningProcs
  <2>4. \A q \in Procs \ {p} : opened'[q] = opened[q]
    BY StepFrame
  <2>5. \A g \in Files : Begins(text[g]) => Begins(text'[g])
    BY <2>2, EmptyText
  <2>6. \A g \in Files : Partial(text[g]) => Partial(text'[g])
    BY <2>2, EmptyText
  <2>7. QED
    BY <1>1, <2>1, <2>2, <2>3, <2>4, <2>5, <2>6 DEF FilesInv
<1>5. ASSUME opened[p], ~opened'[p] PROVE
        Spared({"overlap"})' => \A q \in Procs : ~opened'[q]
  BY <1>1, <1>5, StepFrame, OpenIsRunning DEF AloneInv, RunningProcs
<1>6. CASE Write(p)
  <2>1. f \in Files /\ opened[p] /\ pc[p] \in WriteStages /\ ~opened'[p]
    BY <1>6, StageFile DEF Write, TypeOK
  <2>2. text' = [text EXCEPT ![f] = WriteAtStart(text[f], Payload(p))]
    BY <1>6 DEF Write
  <2>3. /\ text'[f] = WriteAtStart(text[f], Payload(p))
        /\ \A g \in Files \ {f} : text'[g] = text[g]
    BY <2>1, <2>2, PutAt
  <2>4. Begins(text'[f])
    BY <2>1, <2>3, WrittenType
  <2>5. Spared({"overlap"}) => Partial(text'[f])
    <3> SUFFICES ASSUME Spared({"overlap"}) PROVE Partial(text'[f])
      OBVIOUS
    <3>1. text'[f] = Payload(p)
      BY <2>1, <2>3, WrittenType DEF FilesInv
    <3>2. PICK S : \E v \in S, n \in Nat \ {0} : Payload(p) = Doc(v, n)
      BY <2>1, PayloadDoc
    <3>3. QED
      BY <3>1, <3>2, DocWhole
  <2>6. QED
    BY <1>1, <1>5, <2>1, <2>3, <2>4, <2>5 DEF FilesInv
<1>7. CASE CutShort(p)
  <2>1. PICK k \in 0..(Len(Payload(p)) - 1) :
          text' = [text EXCEPT ![f] = WriteAtStart(text[f], FirstBytes(Payload(p), k))]
    BY <1>7 DEF CutShort
  <2>2. f \in Files /\ opened[p] /\ pc[p] \in WriteStages /\ ~opened'[p] /\ ~Spared({"cut"})'
    BY <1>7, StageFile DEF CutShort, TypeOK, Spared
  <2>3. /\ text'[f] = WriteAtStart(text[f], FirstBytes(Payload(p), k))
        /\ \A g \in Files \ {f} : text'[g] = text[g]
    BY <2>1, <2>2, PutAt
  <2>4. Spared({"overlap"}) => Partial(text'[f])
    BY <2>2, <2>3, CutType DEF FilesInv
  <2>5. QED
    BY <1>1, <1>5, <2>2, <2>3, <2>4 DEF FilesInv
<1>8. QED
  BY <1>2, <1>3, <1>4, <1>6, <1>7, StepKinds

LEMMA FilesUser ==
  ASSUME TypeOK, FilesInv, User
  PROVE  FilesInv'
<1>1. \A some : Spared(some)' => Spared(some)
  BY UserFrame DEF Spared
<1>2. Spared({"overlap"})' => \A q \in Procs : ~opened'[q]
  BY UserFrame, OpenIsRunning DEF RunningProcs
<1>3. CASE \E p \in Procs, c \in Commands : Start(p, c)
  <2>1. text' = text
    BY <1>3 DEF Start, FilesUnchanged
  <2>2. QED
    BY <1>1, <1>2, <2>1 DEF FilesInv
<1>4. CASE \E f \in Files : \E s \in TextsOf(f) :
             text' = [text EXCEPT ![f] = s] /\ Begins(s) /\ Partial(s)
  <2>0. PICK f \in Files : \E s \in TextsOf(f) :
          text' = [text EXCEPT ![f] = s] /\ Begins(s) /\ Partial(s)
    BY <1>4
  <2>1. PICK s \in TextsOf(f) : text' = [text EXCEPT ![f] = s] /\ Begins(s) /\ Partial(s)
    BY <2>0
  <2>2. text'[f] = s /\ \A g \in Files \ {f} : text'[g] = text[g]
    BY <2>1, PutAt
  <2>3. QED
    BY <1>1, <1>2, <2>1, <2>2 DEF FilesInv
<1>5. QED
  BY <1>3, <1>4, UserFrame

-----------------------------------------------------------------------------
(***************************************************************************)
(* What the processes hold.                                                *)
(***************************************************************************)
LEMMA FileWhole ==
  ASSUME TypeOK, FilesInv, NEW f \in Files
  PROVE  /\ ~Mixed /\ Readable(text[f]) => Whole(text[f])
         /\ Spared({"cut", "overlap"}) /\ Len(text[f]) > 0 => Whole(text[f])
<1>1. PICK S : text[f] \in Seq(S \X Nat \X Nat)
  BY TextTypes DEF TextOK, TextsOf, UserCells, DictionaryCells
<1>2. ~Mixed => Begins(text[f]) \/ Partial(text[f])
  BY DEF Mixed, FilesInv, Spared
<1>3. Spared({"cut", "overlap"}) => Begins(text[f]) /\ Partial(text[f])
  BY DEF FilesInv, Spared
<1>4. QED
  BY <1>1, <1>2, <1>3, ReadableIsWhole, BothAreWhole

LEMMA MemStep ==
  ASSUME TypeOK, FilesInv, MemInv, NEW p \in Procs, Step(p)
  PROVE  MemInv'
<1> DEFINE Held(q) ==
      /\ ~Mixed' => Whole(mem'[q].settings)
      /\ ~Mixed' /\ pc'[q] = "mounted" => Whole(mem'[q].config)
      /\ Spared({"cut", "overlap"})' => Whole(mem'[q].list)
      /\ pc'[q] \in {"config", "instructions"} =>
           \E d \in Dictionaries : /\ mem'[q].config = DictionaryDoc(d)
                                   /\ d.settings = mem'[q].settings /\ d.list = mem'[q].list
<1>1. (\A some : Spared(some)' => Spared(some)) /\ (~Mixed' => ~Mixed)
  BY StepFrame DEF Spared, Mixed
<1>2. \A q \in Procs \ {p} : Held(q)
  BY <1>1, StepFrame DEF MemInv
<1>3. ASSUME mem'[p] = mem[p], pc'[p] # "mounted",
             pc'[p] \in {"config", "instructions"} => pc[p] \in {"config", "instructions"}
      PROVE  Held(p)
  BY <1>1, <1>3 DEF MemInv
<1>4. ASSUME NEW how \in {"refused", "unreadable", "off"}, Exit(p, how) PROVE Held(p)
  BY <1>4, FreshType DEF Exit, Go, TypeOK
<1>5. "settings" \in Files /\ "candidates" \in Files /\ "config" \in Files
  BY DEF Files
<1>6. ASSUME StatSettings(p) PROVE Held(p)
  BY <1>3, <1>6 DEF StatSettings, Go, TypeOK
<1>7. ASSUME ReadSettings(p) PROVE Held(p)
  <2>1. CASE Readable(text["settings"])
    <3>1. pc'[p] = "statList" /\ mem' = [mem EXCEPT ![p].settings = text["settings"]]
      BY <1>7, <2>1 DEF ReadSettings, Go, TypeOK
    <3>2. mem'[p].settings = text["settings"] /\ mem'[p].list = mem[p].list
      BY <3>1 DEF TypeOK
    <3>3. QED
      BY <1>1, <1>5, <2>1, <3>1, <3>2, FileWhole DEF MemInv
  <2>2. CASE ~Readable(text["settings"])
    BY <1>4, <1>7, <2>2 DEF ReadSettings
  <2>3. QED
    BY <2>1, <2>2
<1>8. ASSUME StatList(p) PROVE Held(p)
  BY <1>3, <1>8 DEF StatList, Go, TypeOK
<1>9. ASSUME ReadList(p) PROVE Held(p)
  <2> DEFINE rows == IF Len(text["candidates"]) > 0 THEN text["candidates"] ELSE ListDoc(DefaultList)
  <2>1. pc'[p] \in {"statConfig", "build"} /\ mem' = [mem EXCEPT ![p].list = rows]
    BY <1>9 DEF ReadList, Go, TypeOK
  <2>2. Spared({"cut", "overlap"}) => Whole(rows)
    BY <1>5, FileWhole, UserDocs, DefaultsInside
  <2> HIDE DEF rows
  <2>3. mem'[p].list = rows /\ mem'[p].settings = mem[p].settings
    BY <2>1 DEF TypeOK
  <2>4. QED
    BY <1>1, <2>1, <2>2, <2>3 DEF MemInv
<1>10. ASSUME StatConfig(p) PROVE Held(p)
  BY <1>3, <1>10 DEF StatConfig, Go, TypeOK
<1>11. ASSUME Build(p) PROVE Held(p)
  <2>1. PICK t \in Trees : mem' = [mem EXCEPT ![p].config =
                 DictionaryDoc([settings |-> mem[p].settings, list |-> mem[p].list, tree |-> t])]
    BY <1>11 DEF Build
  <2> DEFINE d == [settings |-> mem[p].settings, list |-> mem[p].list, tree |-> t]
  <2>2. d \in Dictionaries /\ d.settings = mem[p].settings /\ d.list = mem[p].list
    BY DEF Dictionaries, TypeOK
  <2>3. mem' = [mem EXCEPT ![p].config = DictionaryDoc(d)]
    BY <2>1
  <2> HIDE DEF d
  <2>4. /\ mem'[p].config = DictionaryDoc(d)
        /\ mem'[p].settings = mem[p].settings /\ mem'[p].list = mem[p].list
    BY <2>3 DEF TypeOK
  <2>5. pc'[p] # "mounted"
    BY <1>11 DEF Build, Go, TypeOK
  <2>6. QED
    BY <1>1, <2>2, <2>4, <2>5 DEF MemInv
<1>12. ASSUME Load(p) PROVE Held(p)
  <2>1. CASE Readable(text["config"])
    <3>1. pc'[p] \in {"mounted", "done"} /\ mem' = [mem EXCEPT ![p].config = text["config"]]
      BY <1>12, <2>1 DEF Load, Go, TypeOK
    <3>2. /\ mem'[p].config = text["config"]
          /\ mem'[p].list = mem[p].list /\ mem'[p].settings = mem[p].settings
      BY <3>1 DEF TypeOK
    <3>3. QED
      BY <1>1, <1>5, <2>1, <3>1, <3>2, FileWhole DEF MemInv
  <2>2. CASE ~Readable(text["config"])
    BY <1>4, <1>12, <2>2 DEF Load
  <2>3. QED
    BY <2>1, <2>2
<1>13. ASSUME Truncate(p) PROVE Held(p)
  BY <1>3, <1>13 DEF Truncate, WriteStages
<1>14. ASSUME Write(p) PROVE Held(p)
  <2>1. pc'[p] = NextStage(p) /\ mem' = mem /\ pc[p] \in WriteStages
    BY <1>14 DEF Write, Go, TypeOK
  <2>2. QED
    BY <1>3, <2>1 DEF NextStage
<1>15. ASSUME CutShort(p) \/ Refuse(p) \/ Crash(p) PROVE Held(p)
  BY <1>4, <1>15 DEF CutShort, Refuse, Crash
<1>16. Held(p)
  BY <1>6, <1>7, <1>8, <1>9, <1>10, <1>11, <1>12, <1>13, <1>14, <1>15 DEF Step
<1>17. QED
  BY <1>2, <1>16 DEF MemInv

LEMMA MemUser ==
  ASSUME TypeOK, MemInv, User
  PROVE  MemInv'
<1>1. (\A some : Spared(some)' => Spared(some)) /\ (~Mixed' => ~Mixed)
  BY UserFrame DEF Spared, Mixed
<1>2. CASE \E p \in Procs, c \in Commands : Start(p, c)
  <2>1. PICK p \in Procs, c \in Commands : Start(p, c)
    BY <1>2
  <2>2. /\ mem'[p] = Fresh /\ pc'[p] \in {"load", "stat"}
        /\ \A q \in Procs \ {p} : mem'[q] = mem[q] /\ pc'[q] = pc[q]
    BY <2>1 DEF Start, Go, TypeOK
  <2>3. QED
    BY <1>1, <2>2, FreshType DEF MemInv
<1>3. CASE UNCHANGED <<pc, cmd, mem>>
  BY <1>1, <1>3 DEF MemInv
<1>4. QED
  BY <1>2, <1>3, UserFrame

-----------------------------------------------------------------------------
(***************************************************************************)
(* A command on its own.                                                   *)
(***************************************************************************)
LEMMA OthersIdle ==
  ASSUME TypeOK, AloneInv, NEW p \in Procs, Step(p), Spared({"overlap"})'
  PROVE  /\ Spared({"overlap"})
         /\ \A q \in Procs \ {p} : /\ pc[q] \notin Running /\ pc'[q] \notin Running
                                  /\ ~opened[q] /\ ~opened'[q]
<1>1. Spared({"overlap"})
  BY StepFrame DEF Spared
<1>2. QED
  BY <1>1, StepFrame, OpenIsRunning DEF AloneInv, RunningProcs

\* What a write puts in a file that its own process has truncated.
LEMMA WrittenAlone ==
  ASSUME TypeOK, FilesInv, MemInv, Spared({"overlap"}), NEW p \in Procs, Write(p)
  PROVE  /\ FileOf(pc[p]) \in Files /\ FileOf(pc[p]) \in there /\ pc[p] \in WriteStages
         /\ text'[FileOf(pc[p])] = Payload(p) /\ Whole(Payload(p))
         /\ \A g \in Files \ {FileOf(pc[p])} : text'[g] = text[g]
<1> DEFINE f == FileOf(pc[p])
<1>1. opened[p] /\ pc[p] \in WriteStages /\ f \in there /\ f \in Files
  BY StageFile DEF Write, TypeOK
<1>2. text' = [text EXCEPT ![f] = WriteAtStart(text[f], Payload(p))]
  BY DEF Write
<1>3. text[f] = Empty
  BY <1>1 DEF FilesInv
<1>4. QED
  BY <1>1, <1>2, <1>3, PutAt, WrittenType, PayloadDoc

LEMMA ReadStep ==
  ASSUME TypeOK, AloneInv, FilesInv, MemInv, ReadInv, NEW p \in Procs, Step(p)
  PROVE  ReadInv'
<1> SUFFICES ASSUME Spared({"overlap"})' PROVE ReadInv'
  BY DEF ReadInv
<1>0. Spared({"overlap"}) /\ \A q \in Procs \ {p} : pc'[q] \notin Running
  BY OthersIdle
<1> DEFINE Fits ==
    /\ pc'[p] = "readSettings" => "settings" \in there'
    /\ pc'[p] = "defaults" => "settings" \notin there'
    /\ pc'[p] \in {"settings", "list"} /\ ~opened'[p] => FileOf(pc'[p]) \notin there'
    /\ pc'[p] \in {"stat", "defaults", "settings"} => mem'[p].settings = SettingsDoc(DefaultSettings)
    /\ pc'[p] \in {"statList", "list", "readList", "statConfig", "build", "config", "instructions"}
         => "settings" \in there' /\ mem'[p].settings = text'["settings"]
    /\ pc'[p] \in {"statConfig", "build", "config", "instructions"}
         => mem'[p].list = text'["candidates"] \/ Len(text'["candidates"]) = 0
    /\ pc'[p] = "instructions" => "config" \in there' /\ mem'[p].config = text'["config"]
    /\ pc'[p] = "load" /\ cmd'[p] # "codec" => "config" \in there'
    /\ pc'[p] = "statConfig" => cmd'[p] = "run"
    /\ pc'[p] = "load" => cmd'[p] \in {"run", "codec"}
<1>1. ASSUME Fits PROVE ReadInv'
  BY <1>0, <1>1 DEF ReadInv, Running, WriteStages
<1>2. pc'[p] \notin Running => Fits
  BY DEF Running, WriteStages
<1>3. ASSUME StatSettings(p) PROVE Fits
  BY <1>0, <1>3 DEF StatSettings, Go, FilesUnchanged, ReadInv, TypeOK
<1>4. ASSUME ReadSettings(p) PROVE Fits
  <2>1. CASE Readable(text["settings"])
    <3>1. /\ pc[p] = "readSettings" /\ pc'[p] = "statList" /\ FilesUnchanged
          /\ mem'[p].settings = text["settings"]
      BY <1>4, <2>1 DEF ReadSettings, Go, TypeOK
    <3>2. QED
      BY <1>0, <3>1 DEF FilesUnchanged, ReadInv
  <2>2. CASE ~Readable(text["settings"])
    BY <1>2, <1>4, <2>2 DEF ReadSettings, Exit, Go, TypeOK, Running, WriteStages
  <2>3. QED
    BY <2>1, <2>2
<1>5. ASSUME StatList(p) PROVE Fits
  BY <1>0, <1>5 DEF StatList, Go, FilesUnchanged, ReadInv, TypeOK, FileOf
<1>6. ASSUME ReadList(p) PROVE Fits
  <2> DEFINE rows == IF Len(text["candidates"]) > 0 THEN text["candidates"] ELSE ListDoc(DefaultList)
  <2>1. /\ pc[p] = "readList" /\ pc'[p] \in {"statConfig", "build"} /\ FilesUnchanged
        /\ mem' = [mem EXCEPT ![p].list = rows] /\ cmd' = cmd /\ (pc'[p] = "statConfig" => cmd[p] = "run")
    BY <1>6 DEF ReadList, Go, TypeOK
  <2>2. rows = text["candidates"] \/ Len(text["candidates"]) = 0
    BY DEF TypeOK
  <2> HIDE DEF rows
  <2>3. mem'[p].list = rows /\ mem'[p].settings = mem[p].settings
    BY <2>1 DEF TypeOK
  <2>4. QED
    BY <1>0, <2>1, <2>2, <2>3 DEF FilesUnchanged, ReadInv
<1>7. ASSUME StatConfig(p) PROVE Fits
  BY <1>0, <1>7 DEF StatConfig, Go, FilesUnchanged, ReadInv, TypeOK
<1>8. ASSUME Build(p) PROVE Fits
  <2>1. /\ pc[p] = "build" /\ pc'[p] \in {"done", "config"} /\ FilesUnchanged
    BY <1>8 DEF Build, Go, TypeOK
  <2>2. PICK t \in Trees : mem' = [mem EXCEPT ![p].config =
                 DictionaryDoc([settings |-> mem[p].settings, list |-> mem[p].list, tree |-> t])]
    BY <1>8 DEF Build
  <2>3. mem'[p].list = mem[p].list /\ mem'[p].settings = mem[p].settings
    BY <2>2 DEF TypeOK
  <2>4. QED
    BY <1>0, <2>1, <2>3 DEF FilesUnchanged, ReadInv
<1>9. ASSUME Load(p) PROVE Fits
  BY <1>2, <1>9 DEF Load, Exit, Go, TypeOK, Running, WriteStages
<1>10. ASSUME Truncate(p) PROVE Fits
  <2> DEFINE f == FileOf(pc[p])
  <2>1. /\ f \in Files /\ text' = [text EXCEPT ![f] = Empty] /\ there' = there \cup {f}
        /\ pc[p] \in WriteStages /\ ~opened[p] /\ opened'[p] /\ UNCHANGED <<pc, cmd, mem>>
    BY <1>10, StageFile DEF Truncate, TypeOK
  <2>2. \A g \in Files \ {f} : text'[g] = text[g]
    BY <2>1, PutAt
  <2>3. pc[p] # "settings" => text'["settings"] = text["settings"]
    BY <2>1, <2>2 DEF WriteStages, FileOf, Files
  <2>4. pc[p] \in {"config", "instructions"} => text'["candidates"] = text["candidates"]
    BY <2>1, <2>2 DEF FileOf, Files
  <2>5. pc[p] = "instructions" => text'["config"] = text["config"]
    BY <2>1, <2>2 DEF FileOf, Files
  <2>6. pc[p] = "defaults" => f = "candidates"
    BY DEF FileOf
  <2>7. QED
    BY <1>0, <2>1, <2>3, <2>4, <2>5, <2>6 DEF ReadInv, WriteStages
<1>11. ASSUME Write(p) PROVE Fits
  <2> DEFINE f == FileOf(pc[p])
  <2>1. /\ f \in Files /\ f \in there /\ pc[p] \in WriteStages /\ text'[f] = Payload(p)
        /\ \A g \in Files \ {f} : text'[g] = text[g]
    BY <1>0, <1>11, WrittenAlone
  <2>2. /\ pc'[p] = NextStage(p) /\ UNCHANGED <<there, cmd, mem>>
    BY <1>11 DEF Write, Go, TypeOK
  <2>3. CASE pc[p] = "defaults"
    BY <1>0, <2>1, <2>2, <2>3 DEF NextStage, FileOf, ReadInv
  <2>4. CASE pc[p] = "settings"
    <3>1. f = "settings" /\ Payload(p) = SettingsDoc(DefaultSettings)
      BY <2>4 DEF FileOf, Payload
    <3>2. QED
      BY <1>0, <2>1, <2>2, <2>4, <3>1 DEF NextStage, ReadInv
  <2>5. CASE pc[p] = "list"
    <3>1. text'["settings"] = text["settings"]
      BY <2>1, <2>5 DEF FileOf, Files
    <3>2. QED
      BY <1>0, <2>1, <2>2, <2>5, <3>1 DEF NextStage, ReadInv
  <2>6. CASE pc[p] = "config"
    <3>1. f = "config" /\ Payload(p) = mem[p].config
      BY <2>6 DEF FileOf, Payload
    <3>2. text'["settings"] = text["settings"] /\ text'["candidates"] = text["candidates"]
      BY <2>1, <3>1 DEF Files
    <3>3. QED
      BY <1>0, <2>1, <2>2, <2>6, <3>1, <3>2 DEF NextStage, ReadInv
  <2>7. CASE pc[p] = "instructions"
    BY <1>0, <2>1, <2>2, <2>7 DEF NextStage, ReadInv
  <2>8. QED
    BY <2>1, <2>3, <2>4, <2>5, <2>6, <2>7 DEF WriteStages
<1>12. ASSUME CutShort(p) \/ Refuse(p) \/ Crash(p) PROVE Fits
  BY <1>2, <1>12 DEF CutShort, Refuse, Crash, Exit, Go, TypeOK, Running, WriteStages
<1>13. QED
  BY <1>1, <1>3, <1>4, <1>5, <1>6, <1>7, <1>8, <1>9, <1>10, <1>11, <1>12 DEF Step

LEMMA ReadUser ==
  ASSUME TypeOK, ReadInv, User
  PROVE  ReadInv'
<1> SUFFICES ASSUME Spared({"overlap"})' PROVE ReadInv'
  BY DEF ReadInv
<1>1. \A q \in Procs : pc[q] \notin Running
  BY UserFrame DEF RunningProcs
<1>2. CASE \E p \in Procs, c \in Commands : Start(p, c)
  <2>1. PICK p \in Procs, c \in Commands : Start(p, c)
    BY <1>2
  <2>2. /\ mem'[p] = Fresh /\ pc'[p] = (IF c = "codec" THEN "load" ELSE "stat") /\ cmd'[p] = c
        /\ \A q \in Procs \ {p} : pc'[q] = pc[q]
    BY <2>1 DEF Start, Go, TypeOK
  <2>3. Fresh.settings = SettingsDoc(DefaultSettings)
    BY DEF Fresh
  <2>4. QED
    BY <1>1, <2>2, <2>3 DEF ReadInv, Running, WriteStages
<1>3. CASE pc' = pc
  BY <1>1, <1>3 DEF ReadInv, Running, WriteStages
<1>4. QED
  BY <1>2, <1>3, UserFrame

\* Between the writes of a sound past a file is there whole or not at all.
LEMMA SoundStep ==
  ASSUME TypeOK, AloneInv, FilesInv, MemInv, ReadInv, SoundInv, NEW p \in Procs, Step(p)
  PROVE  SoundInv'
<1> SUFFICES ASSUME Spared({"crash", "cut", "overlap"})' PROVE SoundInv'
  BY DEF SoundInv
<1>1. Spared({"crash", "cut", "overlap"}) /\ Spared({"overlap"})'
  BY StepFrame DEF Spared
<1>2. \A q \in Procs \ {p} : ~opened[q] /\ pc'[q] = pc[q]
  BY <1>1, OthersIdle, StepFrame
<1>3. ASSUME ~opened[p], NEW f \in there PROVE Readable(text[f])
  <2>1. Whole(text[f])
    BY <1>1, <1>2, <1>3 DEF SoundInv
  <2>2. PICK S : text[f] \in Seq(S \X Nat \X Nat)
    BY TextTypes DEF TextOK, TextsOf, UserCells, DictionaryCells, TypeOK
  <2>3. QED
    BY <2>1, <2>2, WholeIsReadable
<1>4. pc'[p] = "unreadable" => cmd[p] = "codec"
  <2>1. CASE ReadSettings(p)
    <3>1. ~opened[p] /\ "settings" \in there
      BY <1>1, <2>1, OthersIdle DEF ReadSettings, TypeOK, WriteStages, ReadInv
    <3>2. QED
      BY <1>3, <2>1, <3>1 DEF ReadSettings, Go, TypeOK
  <2>2. CASE Load(p)
    <3>1. ~opened[p] /\ (cmd[p] # "codec" => "config" \in there)
      BY <1>1, <2>2, OthersIdle DEF Load, TypeOK, WriteStages, ReadInv
    <3>2. QED
      BY <1>3, <2>2, <3>1 DEF Load, Go, TypeOK
  <2>3. CASE StatSettings(p) \/ StatList(p) \/ ReadList(p) \/ StatConfig(p) \/ Build(p)
    BY <2>3 DEF StatSettings, StatList, ReadList, StatConfig, Build, Go, TypeOK
  <2>4. CASE Truncate(p)
    BY <2>4 DEF Truncate, WriteStages
  <2>5. CASE Write(p)
    BY <2>5 DEF Write, NextStage, Go, TypeOK
  <2>6. CASE CutShort(p) \/ Refuse(p) \/ Crash(p)
    BY <2>6 DEF CutShort, Refuse, Crash, Exit, Go, TypeOK
  <2>7. QED
    BY <2>1, <2>2, <2>3, <2>4, <2>5, <2>6 DEF Step
<1>5. \A q \in Procs : pc'[q] = "unreadable" => cmd'[q] = "codec"
  BY <1>1, <1>2, <1>4, StepFrame DEF SoundInv
<1>6. \A f \in there' : Whole(text'[f]) \/ \E q \in Procs : opened'[q] /\ FileOf(pc'[q]) = f
  <2>1. CASE FilesUnchanged /\ opened' = opened /\ ~opened[p]
    <3>1. \A f \in there : Whole(text[f])
      BY <1>1, <1>2, <2>1 DEF SoundInv
    <3>2. QED
      BY <2>1, <3>1 DEF FilesUnchanged
  <2>2. CASE Truncate(p)
    <3> DEFINE f == FileOf(pc[p])
    <3>1. /\ f \in Files /\ text' = [text EXCEPT ![f] = Empty] /\ there' = there \cup {f}
          /\ ~opened[p] /\ opened'[p] /\ pc' = pc
      BY <2>2, StageFile DEF Truncate, TypeOK
    <3>2. \A g \in there : Whole(text[g]) /\ g \in Files
      BY <1>1, <1>2, <3>1 DEF SoundInv, TypeOK
    <3>3. \A g \in Files \ {f} : text'[g] = text[g]
      BY <3>1, PutAt
    <3>4. QED
      BY <3>1, <3>2, <3>3
  <2>3. CASE Write(p)
    <3> DEFINE f == FileOf(pc[p])
    <3>1. /\ text'[f] = Payload(p) /\ Whole(Payload(p))
          /\ \A g \in Files \ {f} : text'[g] = text[g]
      BY <1>1, <2>3, WrittenAlone, OthersIdle
    <3>2. there' = there /\ there \subseteq Files
      BY <2>3 DEF Write, TypeOK
    <3>3. \A g \in there \ {f} : Whole(text[g])
      BY <1>1, <1>2 DEF SoundInv
    <3>4. QED
      BY <3>1, <3>2, <3>3
  <2>4. CASE Crash(p) \/ CutShort(p)
    BY <1>1, <2>4 DEF Crash, CutShort, Spared
  <2>5. QED
    BY <2>1, <2>2, <2>3, <2>4, StepKinds
<1>7. QED
  BY <1>5, <1>6 DEF SoundInv

LEMMA SoundUser ==
  ASSUME TypeOK, SoundInv, User
  PROVE  SoundInv'
<1> SUFFICES ASSUME Spared({"crash", "cut", "overlap"})' PROVE SoundInv'
  BY DEF SoundInv
<1>1. /\ Spared({"crash", "cut", "overlap"}) /\ \A q \in Procs : ~opened[q]
  <2>1. Spared({"overlap"})' /\ Spared({"crash", "cut", "overlap"})
    BY UserFrame DEF Spared
  <2>2. QED
    BY <2>1, UserFrame, OpenIsRunning DEF RunningProcs
<1>2. \A f \in there : Whole(text[f]) /\ f \in Files
  BY <1>1 DEF SoundInv, TypeOK
<1>3. CASE \E p \in Procs, c \in Commands : Start(p, c)
  <2>1. PICK p \in Procs, c \in Commands : Start(p, c)
    BY <1>3
  <2>2. /\ pc'[p] \in {"load", "stat"} /\ text' = text /\ there' = there
        /\ \A q \in Procs \ {p} : pc'[q] = pc[q] /\ cmd'[q] = cmd[q]
    BY <2>1 DEF Start, Go, FilesUnchanged, TypeOK
  <2>3. QED
    BY <1>1, <1>2, <2>2 DEF SoundInv
<1>4. CASE /\ UNCHANGED <<pc, cmd, mem>>
           /\ \E f \in Files : \E s \in TextsOf(f) :
                    /\ text' = [text EXCEPT ![f] = s]
                    /\ (there' = there \cup {f} /\ Whole(s)) \/ there' = there \ {f}
  <2>0. PICK f \in Files : \E s \in TextsOf(f) :
                    /\ text' = [text EXCEPT ![f] = s]
                    /\ (there' = there \cup {f} /\ Whole(s)) \/ there' = there \ {f}
    BY <1>4
  <2>1. PICK s \in TextsOf(f) :
                    /\ text' = [text EXCEPT ![f] = s]
                    /\ (there' = there \cup {f} /\ Whole(s)) \/ there' = there \ {f}
    BY <2>0
  <2>2. text'[f] = s /\ \A g \in Files \ {f} : text'[g] = text[g]
    BY <2>1, PutAt
  <2>3. \A g \in there' : Whole(text'[g])
    BY <1>2, <2>1, <2>2
  <2>4. QED
    BY <1>1, <1>4, <2>3 DEF SoundInv
<1>5. QED
  BY <1>3, <1>4, UserFrame

LEMMA DescribesStep ==
  ASSUME TypeOK, AloneInv, FilesInv, MemInv, ReadInv, DescribesInv, NEW p \in Procs, Step(p)
  PROVE  DescribesInv'
<1> SUFFICES ASSUME faults' = {}, "config" \in there' PROVE DescribesInv'
  BY DEF DescribesInv
<1> DEFINE f == FileOf(pc[p])
<1>1. faults = {} /\ Spared({"overlap"}) /\ Spared({"overlap"})'
  BY StepFrame DEF Spared
<1>2. \A q \in Procs \ {p} : pc[q] \notin Running
  BY <1>1, OthersIdle
<1>3. \A q \in Procs : pc[q] = "instructions" \/ pc[q] = "config" => q = p
  BY <1>2 DEF Running, WriteStages
<1>4. "config" \in there /\ pc[p] \notin {"config", "instructions"}
        => text["instructions"] = text["config"]
  BY <1>1, <1>3 DEF DescribesInv
<1>5. CASE /\ FilesUnchanged /\ opened' = opened /\ ~opened[p]
           /\ pc[p] \in WriteStages => "refused" \in faults'
  BY <1>4, <1>5 DEF FilesUnchanged, DescribesInv, WriteStages
<1>6. CASE Truncate(p)
  <2>1. /\ f \in Files /\ text' = [text EXCEPT ![f] = Empty] /\ there' = there \cup {f}
        /\ opened'[p] /\ pc' = pc /\ pc[p] \in WriteStages
    BY <1>6, StageFile DEF Truncate, TypeOK
  <2>2. CASE pc[p] \in {"config", "instructions"}
    BY <2>1, <2>2 DEF DescribesInv
  <2>3. CASE pc[p] \notin {"config", "instructions"}
    <3>1. f \in {"candidates", "settings"}
      BY <2>1, <2>3 DEF FileOf, WriteStages
    <3>2. text'["config"] = text["config"] /\ text'["instructions"] = text["instructions"]
      BY <2>1, <3>1, PutAt DEF Files
    <3>3. "config" \in there
      BY <2>1, <3>1
    <3>4. QED
      BY <1>4, <2>3, <3>2, <3>3 DEF DescribesInv
  <2>4. QED
    BY <2>2, <2>3
<1>7. CASE Write(p)
  <2>1. /\ f \in Files /\ pc[p] \in WriteStages /\ text'[f] = Payload(p)
        /\ \A g \in Files \ {f} : text'[g] = text[g]
    BY <1>1, <1>7, WrittenAlone
  <2>2. there' = there /\ pc'[p] = NextStage(p)
    BY <1>7 DEF Write, Go, TypeOK
  <2>3. CASE pc[p] = "config"
    BY <2>2, <2>3 DEF NextStage, DescribesInv
  <2>4. CASE pc[p] = "instructions"
    <3>1. f = "instructions" /\ Payload(p) = mem[p].config /\ mem[p].config = text["config"]
      BY <1>1, <2>4 DEF FileOf, Payload, ReadInv
    <3>2. QED
      BY <2>1, <3>1 DEF Files, DescribesInv
  <2>5. CASE pc[p] \notin {"config", "instructions"}
    <3>1. f \in {"candidates", "settings"}
      BY <2>1, <2>5 DEF FileOf, WriteStages
    <3>2. text'["config"] = text["config"] /\ text'["instructions"] = text["instructions"]
      BY <2>1, <3>1 DEF Files
    <3>3. QED
      BY <1>4, <2>2, <2>5, <3>2 DEF DescribesInv
  <2>6. QED
    BY <2>3, <2>4, <2>5
<1>8. CASE Crash(p) \/ CutShort(p)
  BY <1>8 DEF Crash, CutShort
<1>9. QED
  BY <1>5, <1>6, <1>7, <1>8, StepKinds

LEMMA DescribesUser ==
  ASSUME TypeOK, DescribesInv, User
  PROVE  DescribesInv'
<1> SUFFICES ASSUME faults' = {}, "config" \in there' PROVE DescribesInv'
  BY DEF DescribesInv
<1>1. faults = {} /\ Spared({"overlap"})'
  BY UserFrame DEF Spared
<1>2. \A q \in Procs : pc[q] \notin Running
  BY <1>1, UserFrame DEF RunningProcs
<1>3. "config" \in there => text["instructions"] = text["config"]
  BY <1>1, <1>2 DEF DescribesInv, Running, WriteStages
<1>4. CASE \E p \in Procs, c \in Commands : Start(p, c)
  BY <1>3, <1>4 DEF Start, FilesUnchanged, DescribesInv
<1>5. CASE \E f \in Files : \E s \in TextsOf(f) :
                    /\ text' = [text EXCEPT ![f] = s]
                    /\ (there' = there \cup {f} /\ Whole(s)) \/ there' = there \ {f}
                    /\ f # "instructions" /\ (f = "config" => s = Empty)
  <2>0. PICK f \in Files : \E s \in TextsOf(f) :
                    /\ text' = [text EXCEPT ![f] = s]
                    /\ (there' = there \cup {f} /\ Whole(s)) \/ there' = there \ {f}
                    /\ f # "instructions" /\ (f = "config" => s = Empty)
    BY <1>5
  <2>1. PICK s \in TextsOf(f) :
                    /\ text' = [text EXCEPT ![f] = s]
                    /\ (there' = there \cup {f} /\ Whole(s)) \/ there' = there \ {f}
                    /\ f # "instructions" /\ (f = "config" => s = Empty)
    BY <2>0
  <2>2. ~Whole(Empty)
    BY DEF Whole, Empty
  <2>3. f # "config" /\ "config" \in there
    BY <2>1, <2>2
  <2>4. text'["config"] = text["config"] /\ text'["instructions"] = text["instructions"]
    BY <2>1, <2>3, PutAt DEF Files
  <2>5. QED
    BY <1>3, <2>3, <2>4 DEF DescribesInv
<1>6. QED
  BY <1>4, <1>5, UserFrame

-----------------------------------------------------------------------------
(***************************************************************************)
(* The invariant is inductive.                                             *)
(***************************************************************************)
LEMMA IInvInit == Init => IInv
<1> SUFFICES ASSUME Init PROVE IInv
  OBVIOUS
<1>1. TypeOK
  BY TypeInit
<1>2. \A f \in Files : text[f] = Empty
  BY DEF Init
<1>3. FilesInv
  BY <1>2, EmptyText DEF FilesInv, Init
<1>4. MemInv
  BY FreshType DEF MemInv, Init
<1>5. AloneInv /\ ReadInv /\ SoundInv /\ DescribesInv
  BY DEF Init, AloneInv, ReadInv, SoundInv, DescribesInv, RunningProcs, Running, WriteStages
<1>6. QED
  BY <1>1, <1>3, <1>4, <1>5 DEF IInv

LEMMA IInvNext == IInv /\ [Next]_vars => IInv'
<1> SUFFICES ASSUME IInv, [Next]_vars PROVE IInv'
  OBVIOUS
<1> USE DEF IInv
<1>1. ASSUME NEW p \in Procs, Step(p) PROVE IInv'
  <2>1. Next
    BY <1>1 DEF Next, Command
  <2>2. QED
    BY <1>1, <2>1, TypeStep, AloneStep, FilesStep, MemStep, ReadStep, SoundStep, DescribesStep
<1>2. ASSUME User PROVE IInv'
  <2>1. Next
    BY <1>2 DEF Next
  <2>2. QED
    BY <1>2, <2>1, TypeUser, AloneStep, FilesUser, MemUser, ReadUser, SoundUser, DescribesUser
<1>3. ASSUME UNCHANGED vars PROVE IInv'
  BY <1>3 DEF vars, TypeOK, AloneInv, FilesInv, MemInv, ReadInv, SoundInv, DescribesInv,
              Spared, Mixed, RunningProcs
<1>4. QED
  BY <1>1, <1>2, <1>3 DEF Next, Command

-----------------------------------------------------------------------------
(***************************************************************************)
(* The theorems.                                                           *)
(***************************************************************************)
LEMMA IInvHolds == Spec => []IInv
BY IInvInit, IInvNext, PTL DEF Spec

(***************************************************************************)
(* Type correctness.                                                       *)
(***************************************************************************)
THEOREM TypeCorrect == Spec => []TypeOK
<1>1. IInv => TypeOK
  BY DEF IInv
<1>2. QED
  BY <1>1, IInvHolds, PTL

(***************************************************************************)
(* No mount runs on a part of a config or of a settings file, unless       *)
(* commands overlapped and a write was cut short.                          *)
(***************************************************************************)
THEOREM MountsUseWholeFiles == Spec => []MountsAreWhole
<1>1. IInv => MountsAreWhole
  BY DEF IInv, MemInv, Mixed, MountsAreWhole
<1>2. QED
  BY <1>1, IInvHolds, PTL

(***************************************************************************)
(* Only a crash, a full disk or an overlap makes a later start fail on a   *)
(* file.                                                                   *)
(***************************************************************************)
THEOREM StartsAreStoppedByDamage == Spec => []OnlyDamageStops
<1>1. IInv => OnlyDamageStops
  BY DEF IInv, SoundInv, OnlyDamageStops
<1>2. QED
  BY <1>1, IInvHolds, PTL

(***************************************************************************)
(* At rest, with nothing gone wrong, the instructions describe the config. *)
(***************************************************************************)
THEOREM InstructionsAgree == Spec => []InstructionsDescribeConfig
<1>1. IInv => InstructionsDescribeConfig
  BY DEF IInv, DescribesInv, InstructionsDescribeConfig, RunningProcs, Running, WriteStages
<1>2. QED
  BY <1>1, IInvHolds, PTL

(***************************************************************************)
(* Dictionaries are generated from whole settings and whole lists, also    *)
(* after crashes.                                                          *)
(***************************************************************************)
THEOREM DictionariesFromWholeFiles == Spec => []BuiltFromWholeFiles
<1>1. ASSUME IInv PROVE BuiltFromWholeFiles
  <2> SUFFICES ASSUME Spared({"cut", "overlap"}), NEW p \in Procs, pc[p] \in {"config", "instructions"}
               PROVE  Whole(mem[p].config[1][1].settings) /\ Whole(mem[p].config[1][1].list)
    BY DEF BuiltFromWholeFiles
  <2>1. PICK d \in Dictionaries : /\ mem[p].config = DictionaryDoc(d)
                                  /\ d.settings = mem[p].settings /\ d.list = mem[p].list
    BY <1>1 DEF IInv, MemInv
  <2>2. mem[p].config[1][1] = d
    BY <2>1, DictionaryDocs
  <2>3. Whole(mem[p].settings) /\ Whole(mem[p].list)
    BY <1>1 DEF IInv, MemInv, Mixed, Spared
  <2>4. QED
    BY <2>1, <2>2, <2>3
<1>2. QED
  BY <1>1, IInvHolds, PTL

(***************************************************************************)
(* An init that comes to its end, alone, leaves a config and instructions  *)
(* that agree with each other and with the user's files, whatever went     *)
(* wrong before.                                                           *)
(***************************************************************************)
LEMMA InitLast ==
  ASSUME IInv, Spared({"overlap"}), NEW q \in Procs, Step(q), NEW p \in Procs, InitDone(p)
  PROVE  q = p /\ pc[p] = "instructions" /\ Write(p)
<1> USE DEF IInv
<1>1. q = p /\ cmd[p] = "init" /\ pc'[p] = "done" /\ pc[p] # "done"
  BY StepFrame DEF InitDone
<1>2. CASE StatSettings(p) \/ StatList(p) \/ StatConfig(p) \/ ReadSettings(p) \/ ReadList(p) \/ Build(p)
  BY <1>1, <1>2 DEF StatSettings, StatList, StatConfig, ReadSettings, ReadList, Build, Exit, Go, TypeOK
<1>3. CASE Load(p)
  BY <1>1, <1>3 DEF Load, ReadInv
<1>4. CASE Truncate(p)
  BY <1>1, <1>4 DEF Truncate
<1>5. CASE CutShort(p) \/ Refuse(p) \/ Crash(p)
  BY <1>1, <1>5 DEF CutShort, Refuse, Crash, Exit, Go, TypeOK
<1>6. CASE Write(p)
  BY <1>1, <1>6 DEF Write, NextStage, Go, TypeOK, WriteStages
<1>7. QED
  BY <1>1, <1>2, <1>3, <1>4, <1>5, <1>6 DEF Step

THEOREM InitIsTheWayOut == Spec => InitRepairs
<1> DEFINE Repaired(p) ==
         /\ Whole(text'["config"]) /\ text'["instructions"] = text'["config"]
         /\ LET d == text'["config"][1][1]
            IN /\ d.settings = text'["settings"]
               /\ d.list = text'["candidates"] \/ Len(text'["candidates"]) = 0
<1>1. ASSUME IInv, Spared({"overlap"}), NEW q \in Procs, Step(q), NEW p \in Procs, InitDone(p)
      PROVE  Repaired(p)
  <2>1. pc[p] = "instructions" /\ Write(p)
    BY <1>1, InitLast
  <2>2. FileOf(pc[p]) = "instructions" /\ Payload(p) = mem[p].config
    BY <2>1 DEF FileOf, Payload
  <2>3. /\ text'["instructions"] = mem[p].config /\ Whole(mem[p].config)
        /\ \A g \in Files \ {"instructions"} : text'[g] = text[g]
    BY <1>1, <2>1, <2>2, WrittenAlone DEF IInv
  <2>4. /\ mem[p].config = text["config"] /\ mem[p].settings = text["settings"]
        /\ mem[p].list = text["candidates"] \/ Len(text["candidates"]) = 0
    BY <1>1, <2>1 DEF IInv, ReadInv
  <2>5. PICK d \in Dictionaries : /\ mem[p].config = DictionaryDoc(d)
                                  /\ d.settings = mem[p].settings /\ d.list = mem[p].list
    BY <1>1, <2>1 DEF IInv, MemInv
  <2>6. mem[p].config[1][1] = d
    BY <2>5, DictionaryDocs
  <2>7. /\ text'["config"] = text["config"] /\ text'["settings"] = text["settings"]
        /\ text'["candidates"] = text["candidates"]
    BY <2>3 DEF Files
  <2>8. QED
    BY <2>3, <2>4, <2>5, <2>6, <2>7
<1>2. ASSUME IInv, [Next]_vars, Spared({"overlap"}), NEW p \in Procs, InitDone(p)
      PROVE  Repaired(p)
  <2>1. CASE Command
    BY <1>1, <1>2, <2>1 DEF Command
  <2>2. CASE User
    <3>1. ASSUME NEW q \in Procs, NEW c \in Commands, Start(q, c) PROVE FALSE
      BY <1>2, <3>1 DEF Start, Go, InitDone, IInv, TypeOK
    <3>2. QED
      BY <1>2, <2>2, <3>1, UserFrame DEF IInv, InitDone
  <2>3. CASE UNCHANGED vars
    BY <1>2, <2>3 DEF vars, InitDone
  <2>4. QED
    BY <1>2, <2>1, <2>2, <2>3 DEF Next
<1>3. IInv /\ [Next]_vars =>
        [Spared({"overlap"}) => \A p \in Procs : InitDone(p) => Repaired(p)]_vars
  BY <1>2
<1>4. QED
  BY <1>3, IInvHolds, PTL DEF Spec, InitRepairs

(***************************************************************************)
(* Commands that run one at a time leave the user's files alone.           *)
(***************************************************************************)
THEOREM UsersFilesSurvive == Spec => UsersFilesKept
<1> DEFINE Kept ==
       /\ UsersSettings => text'["settings"] = text["settings"]
       /\ UsersList /\ "settings" \in there => text'["candidates"] = text["candidates"]
<1>1. ASSUME IInv, Spared({"overlap"}), NEW p \in Procs, Step(p) PROVE Kept
  <2> DEFINE f == FileOf(pc[p])
  <2>1. TypeOK /\ FilesInv /\ ReadInv
    BY <1>1 DEF IInv
  <2>2. (UsersSettings => text["settings"] # Empty) /\ (UsersList => text["candidates"] # Empty)
    BY UserDocs DEF UsersSettings, UsersList, Whole, Settings, Lists, Empty
  <2>3. ASSUME NEW w, text' = [text EXCEPT ![f] = w], f \in Files,
               f = "settings" => text["settings"] = Empty,
               f = "candidates" => text["candidates"] = Empty \/ "settings" \notin there
        PROVE  Kept
    <3>1. \A g \in Files \ {f} : text'[g] = text[g]
      BY <2>1, <2>3, PutAt
    <3>2. QED
      BY <2>2, <2>3, <3>1 DEF Files
  <2>4. CASE Truncate(p)
    <3>1. f \in Files /\ text' = [text EXCEPT ![f] = Empty] /\ pc[p] \in WriteStages /\ ~opened[p]
      BY <2>4, StageFile DEF Truncate
    <3>2. f = "settings" => pc[p] = "settings" /\ "settings" \notin there
      BY <1>1, <2>1, <3>1 DEF FileOf, ReadInv, WriteStages
    <3>3. f = "candidates" => "settings" \notin there \/ "candidates" \notin there
      BY <1>1, <2>1, <3>1 DEF FileOf, ReadInv, WriteStages
    <3>4. QED
      BY <2>1, <2>3, <3>1, <3>2, <3>3 DEF TypeOK
  <2>5. CASE Write(p) \/ CutShort(p)
    <3>1. opened[p] /\ pc[p] \in WriteStages /\ f \in Files
      BY <2>1, <2>5, StageFile DEF Write, CutShort, TypeOK
    <3>2. text[f] = Empty
      BY <1>1, <2>1, <3>1 DEF FilesInv
    <3>3. \E w : text' = [text EXCEPT ![f] = w]
      BY <2>5 DEF Write, CutShort
    <3>4. QED
      BY <2>3, <3>1, <3>2, <3>3
  <2>6. CASE FilesUnchanged
    BY <2>6 DEF FilesUnchanged
  <2>7. QED
    BY <1>1, <2>1, <2>4, <2>5, <2>6, StepKinds DEF Crash
<1>2. IInv /\ [Next]_vars => [Command /\ Spared({"overlap"}) => Kept]_vars
  BY <1>1 DEF Command
<1>3. QED
  BY <1>2, IInvHolds, PTL DEF Spec, UsersFilesKept
=============================================================================
