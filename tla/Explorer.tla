------------------------------ MODULE Explorer ------------------------------
(***************************************************************************)
(* From a repository to a dictionary: BuildDictionary and selectSymbols of *)
(* internal/explorer/explorer.go, BuildConfig of internal/codec, and the   *)
(* callers in cmd/llmfs/main.go that save the result for the mount to load.*)
(* A text is a sequence of symbols (runes); a path is a value; a skip      *)
(* pattern is the set of paths that matchSkipPattern accepts for it; the   *)
(* tokenizer is the operator Tokens.                                       *)
(***************************************************************************)
EXTENDS Codec, SequencesExt

CONSTANTS
  Alphabet,      \* the symbols in byte order, a sequence without repetitions
  Letters, Digits,   \* those a word is made of; it begins with a letter
  Wide,          \* those of two bytes; the others have one
  Space, Newline,
  Tilde,         \* the escape of tce1
  CodeAlphabet,  \* the codes of tce1, a sequence of symbols
  OneToken,      \* the symbols selectOneTokenSymbols looks at, by token id
  FewTokens,     \* the symbols U+00A1..U+2BFF of at most 3 tokens, by cost, then byte order
  Tokens(_),     \* how many tokens a text has
  Walk,          \* the files under the root in the order of WalkDir
  Above,         \* the directories above a file
  RuleOrder,     \* the skip patterns in byte order: records [negate, paths]
  Candidates,    \* settings.Candidates
  WordLength, WordUses, MaxWords,   \* 4, 3 and 1000 in the code
  MaxFiles, MaxTotalSize

\* What an instance starts from, and what its user edits.
CONSTANTS RuleLists, Formats, Sizes, Trees, Edits, NotText

\* A file is a text, or it is not UTF-8 or cannot be read.
Texts == Seq(ToSet(Alphabet))

ASSUME TextAssumption ==
  /\ \A t \in Trees : t \in [ToSet(Walk) -> {NotText} \cup Texts]
  /\ \A e \in Edits : e[2] \in {NotText} \cup Texts

\* Each list names a symbol once; "~" is none of TCE1CodeAlphabet.
ASSUME SymbolAssumption ==
  /\ Alphabet \in Seq(ToSet(Alphabet)) /\ {Space, Newline, Tilde} \subseteq ToSet(Alphabet)
  /\ \A list \in {CodeAlphabet, OneToken, FewTokens} :
       list \in Seq(ToSet(Alphabet)) /\ IsInjective(list)
  /\ CodeAlphabet # << >> /\ Tilde \notin ToSet(CodeAlphabet)

\* A size that is not positive gives way to the default of the format.
ASSUME OptionAssumption ==
  /\ Formats \subseteq Versions /\ Sizes \subseteq Nat \ {0}
  /\ IsFiniteSet(Candidates) /\ Candidates \subseteq Texts

ASSUME WalkAssumption == Walk \in Seq(ToSet(Walk)) /\ MaxFiles \in Nat /\ MaxTotalSize \in Nat

\* "!" is the first printable character: negations come first in byte order.
ASSUME RuleOrderAssumption ==
  \A k, l \in DOMAIN RuleOrder :
    RuleOrder[l].negate /\ ~RuleOrder[k].negate => l < k

VARIABLES
  written,    \* skip_paths as settings.json has them
  skipPaths,  \* settings.SkipPaths, as LoadOrInit returns them
  format, dictSize,
  tree,       \* what is in the files: a text, or NotText
  pos,        \* where the walk is
  files,      \* the texts read
  totalBytes, \* and how many bytes they have
  phase,      \* "scan", "select", "save", "load", "ready" or "failed"
  measured,   \* the Config BuildDictionary encodes the files with
  values, codes, \* Result.Entries and Result.Codes
  saved       \* the Config in config.json

vars == <<written, skipPaths, format, dictSize, tree, pos, files, totalBytes, phase, measured, values, codes, saved>>

NoConfig == [version |-> "none", escape |-> << >>, entries |-> << >>]

(***************************************************************************)
(* normalizeSet: the patterns without repetitions, in byte order.          *)
(***************************************************************************)
normalizeSet(rules) == SelectSeq(RuleOrder, LAMBDA r : r \in ToSet(rules))

\* shouldSkipPath: the last pattern that matches decides.
shouldSkipPath(p, rules) ==
  LET matching == {k \in DOMAIN rules : p \in rules[k].paths}
  IN /\ matching # {}
     /\ ~rules[Max(matching)].negate

\* WalkDir does not enter a directory that is skipped.
Skipped(p, rules) == \E q \in Above[p] \cup {p} : shouldSkipPath(q, rules)

ByteLen(s) == Len(s) + Cardinality({k \in DOMAIN s : s[k] \in Wide})

\* Faulty: only the number of files is limited.
FullByCount == Len(files) >= MaxFiles

Full == Len(files) >= MaxFiles \/ totalBytes >= MaxTotalSize

-----------------------------------------------------------------------------
(* The choice of entries: what is done with the texts that were read. *)

Rank(x) == CHOOSE k \in DOMAIN Alphabet : Alphabet[k] = x

\* Byte order of texts (Go's < on strings).
Before(s, t) ==
  \E k \in 0..Len(s) :
    /\ k < Len(t) /\ \A j \in 1..k : s[j] = t[j]
    /\ k = Len(s) \/ Rank(s[k + 1]) < Rank(t[k + 1])

\* sort.Slice: the elements of T in the order R, a set of pairs.
InOrder(T, R) ==
  LET rank(x) == Cardinality({y \in T : <<y, x>> \in R})
  IN [k \in 1..Cardinality(T) |-> CHOOSE x \in T : rank(x) = k - 1]

blob ==
  LET joined[k \in DOMAIN files] ==
        IF k = 1 THEN files[1] ELSE joined[k - 1] \o <<Newline>> \o files[k]
  IN joined[Len(files)]

\* strings.Contains and strings.Count.
Occurs(s, x) == \E k \in DOMAIN s : hasPrefixAt(s, k, x)

Count(s, x) ==
  LET from[k \in 1..(Len(s) + 1)] ==
        IF k + Len(x) - 1 > Len(s) THEN 0
        ELSE IF hasPrefixAt(s, k, x) THEN 1 + from[k + Len(x)] ELSE from[k + 1]
  IN from[1]

\* Where the matches of wordRe begin in s, and the one that begins at k.
WordEnd(s, k) == CHOOSE e \in k..Len(s) :
  /\ \A l \in k..e : s[l] \in Letters \cup Digits
  /\ e = Len(s) \/ s[e + 1] \notin Letters \cup Digits

WordStarts(s) == {k \in DOMAIN s :
  /\ s[k] \in Letters
  /\ \A l \in 1..(k - 1) :
       (\A m \in l..(k - 1) : s[m] \in Letters \cup Digits) => s[l] \in Digits
  /\ WordEnd(s, k) - k + 1 >= WordLength}

Uses == UNION {{<<n, k>> : k \in WordStarts(files[n])} : n \in DOMAIN files}
Word(u) == SubSeq(files[u[1]], u[2], WordEnd(files[u[1]], u[2]))
wordFreq(w) == Cardinality({u \in Uses : Word(u) = w})

\* The frequent words, those before which the fewest come.
words ==
  LET frequent == {w \in {Word(u) : u \in Uses} : wordFreq(w) >= WordUses}
      above(w) == {v \in frequent : \/ wordFreq(v) > wordFreq(w)
                                    \/ wordFreq(v) = wordFreq(w) /\ Before(v, w)}
  IN {w \in frequent : Cardinality(above(w)) < MaxWords}

AllCandidates == Candidates \cup words \cup {w \o <<Space>> : w \in words}

\* The symbols of a list that no scanned file holds.
Fresh(list) ==
  LET free == {k \in DOMAIN list : ~Occurs(blob, <<list[k]>>)}
      order == InOrder(free, {p \in free \X free : p[1] < p[2]})
  IN [j \in 1..Cardinality(free) |-> list[order[j]]]

\* Faulty: the codes begin with the escape.
selectSymbolsAgain ==
  LET one == Fresh(OneToken)
  IN IF format = "tce1" \/ Len(one) < dictSize + 1 THEN << >>
     ELSE <<one[1]>> \o SubSeq(one, 1, dictSize)

\* Faulty: symbols that occur in the files are taken too.
selectSymbolsAnywhere ==
  IF format = "tce1" \/ Len(OneToken) < dictSize + 1 THEN << >>
  ELSE SubSeq(OneToken, 1, dictSize + 1)

(***************************************************************************)
(* selectSymbols: the escape first, then the codes, as one sequence; fewer *)
(* than it needs is an error.  tce2 takes symbols no scanned file holds,   *)
(* of one token if there are enough, otherwise of up to three.             *)
(***************************************************************************)
selectSymbols ==
  LET need == dictSize + 1
      one == Fresh(OneToken)
      few == Fresh(FewTokens)
  IN IF format = "tce1"
     THEN <<Tilde>> \o SubSeq(CodeAlphabet, 1, Min({dictSize, Len(CodeAlphabet)}))
     ELSE IF Len(one) >= need THEN SubSeq(one, 1, need)
     ELSE IF Len(few) >= need THEN SubSeq(few, 1, need) ELSE << >>

\* The candidates worth a code, by what they gain, and the first dictSize.
selected(symbols) ==
  LET escape == <<symbols[1]>>
      cost == IF format = "tce1" THEN Tokens(escape \o <<symbols[2]>>) ELSE Tokens(<<symbols[2]>>)
      gain(c) == Count(blob, c) * (Tokens(c) - cost)
      scores == {c \in AllCandidates : /\ ByteLen(c) >= 2 /\ ~Occurs(c, escape)
                                       /\ Count(blob, c) >= 2 /\ gain(c) > 0}
      better(c, d) == \/ gain(c) > gain(d)
                      \/ gain(c) = gain(d) /\ ByteLen(c) > ByteLen(d)
                      \/ gain(c) = gain(d) /\ ByteLen(c) = ByteLen(d) /\ Before(c, d)
      sorted == InOrder(scores, {p \in scores \X scores : better(p[1], p[2])})
  IN SubSeq(sorted, 1, Min({Len(sorted), dictSize}))

\* The first n values and codes, paired and sorted by code.
Paired(vals, cs, n) ==
  LET order == InOrder(1..n, {p \in (1..n) \X (1..n) : Before(cs[p[1]], cs[p[2]])})
  IN [k \in 1..n |-> [code |-> cs[order[k]], value |-> vals[order[k]]]]

\* Faulty: the limit is missed by one.
BuildConfigShort(vals, version, escape, cs, limit) ==
  [version |-> version, escape |-> escape,
   entries |-> Paired(vals, cs, Min({limit - 1, Len(cs), Len(vals)}))]

\* BuildConfig: without codes it takes those of tce1.
BuildConfig(vals, version, escape, cs, limit) ==
  LET all == IF cs = << >> THEN [k \in DOMAIN CodeAlphabet |-> <<CodeAlphabet[k]>>] ELSE cs
  IN [version |-> version, escape |-> escape,
      entries |-> Paired(vals, all, Min({limit, Len(all), Len(vals)}))]

-----------------------------------------------------------------------------
Init ==
  /\ written \in RuleLists /\ skipPaths = normalizeSet(written)
  /\ format \in Formats /\ dictSize \in Sizes
  /\ tree \in Trees
  /\ pos = 1 /\ files = << >> /\ totalBytes = 0
  /\ phase = "scan"
  /\ measured = NoConfig /\ values = << >> /\ codes = << >> /\ saved = NoConfig

ScanSkip ==
  /\ phase = "scan" /\ pos <= Len(Walk)
  /\ Skipped(Walk[pos], skipPaths)
  /\ pos' = pos + 1
  /\ UNCHANGED <<written, skipPaths, format, dictSize, tree, files, totalBytes, phase, measured, values, codes, saved>>

\* A file is read; one that fails to, is not UTF-8 or has no bytes is passed over.
ScanRead ==
  /\ phase = "scan" /\ pos <= Len(Walk)
  /\ ~Skipped(Walk[pos], skipPaths) /\ ~Full
  /\ LET text == tree[Walk[pos]]
     IN IF text = NotText \/ text = << >> THEN UNCHANGED <<files, totalBytes>>
        ELSE files' = Append(files, text) /\ totalBytes' = totalBytes + ByteLen(text)
  /\ pos' = pos + 1
  /\ UNCHANGED <<written, skipPaths, format, dictSize, tree, phase, measured, values, codes, saved>>

\* A directory cannot be read: the walk is given up.
ScanFails ==
  /\ phase = "scan"
  /\ phase' = "failed"
  /\ UNCHANGED <<written, skipPaths, format, dictSize, tree, pos, files, totalBytes, measured, values, codes, saved>>

\* The walk ends, or stops at the first file beyond a limit.
ScanEnd ==
  /\ phase = "scan"
  /\ \/ pos > Len(Walk)
     \/ pos <= Len(Walk) /\ Full /\ ~Skipped(Walk[pos], skipPaths)
  /\ phase' = IF files = << >> THEN "failed" ELSE "select"
  /\ UNCHANGED <<written, skipPaths, format, dictSize, tree, pos, files, totalBytes, measured, values, codes, saved>>

(***************************************************************************)
(* The rest of BuildDictionary.  The codes of its Result are those of the  *)
(* entries sorted by code, its Entries stay in the order of gain.          *)
(***************************************************************************)
Select ==
  /\ phase = "select"
  /\ LET symbols == selectSymbols
         vals == selected(symbols)
         cs == [k \in 1..(Len(symbols) - 1) |-> <<symbols[k + 1]>>]
         cfg == BuildConfig(vals, format, <<symbols[1]>>, cs, dictSize)
     IN IF symbols # << >> /\ Accepted(cfg)
        THEN /\ measured' = cfg /\ values' = vals
             /\ codes' = [k \in DOMAIN cfg.entries |-> cfg.entries[k].code]
             /\ phase' = "save"
        ELSE phase' = "failed" /\ UNCHANGED <<measured, values, codes>>
  /\ UNCHANGED <<written, skipPaths, format, dictSize, tree, pos, files, totalBytes, saved>>

\* runExplore and ensureConfig build the config once more, from the Result.
Save ==
  /\ phase = "save"
  /\ saved' = BuildConfig(values, format, measured.escape, codes, Len(values))
  /\ phase' = "load"
  /\ UNCHANGED <<written, skipPaths, format, dictSize, tree, pos, files, totalBytes, measured, values, codes>>

\* LoadConfig, when the tree is mounted.
Load ==
  /\ phase = "load"
  /\ phase' = IF Accepted(saved) THEN "ready" ELSE "failed"
  /\ UNCHANGED <<written, skipPaths, format, dictSize, tree, pos, files, totalBytes, measured, values, codes, saved>>

\* The user goes on working while the tree is scanned.
Edit(p, text) ==
  /\ phase = "scan"
  /\ tree' = [tree EXCEPT ![p] = text]
  /\ UNCHANGED <<written, skipPaths, format, dictSize, pos, files, totalBytes, phase, measured, values, codes, saved>>

Next ==
  \/ ScanSkip \/ ScanRead \/ ScanFails \/ ScanEnd \/ Select \/ Save \/ Load
  \/ \E e \in Edits : Edit(e[1], e[2])

Spec == Init /\ [][Next]_vars

-----------------------------------------------------------------------------
(***************************************************************************)
(* What init saves, the mount loads, and the codec undoes: a generated     *)
(* dictionary meets every condition of CodecLoop's round trip, although    *)
(* New does not ask for them.                                              *)
(***************************************************************************)
GeneratedIsReversible == saved # NoConfig => phase # "failed" /\ Reversible(saved)

(***************************************************************************)
(* Under the tce2 dictionary that is loaded, no text that was scanned is   *)
(* served with an escape: escape and codes were sought in all of them,     *)
(* before the candidates were ranked, cut to size, paired and the config   *)
(* built twice.  (What a symbol costs in bytes or tokens is not bounded.)  *)
(***************************************************************************)
ScannedNeedNoEscape ==
  saved # NoConfig /\ format = "tce2" =>
    \A k \in DOMAIN files : ~Occurs(Encode(saved, files[k]), saved.escape)

(***************************************************************************)
(* The dictionary on disk is the one whose savings were measured, up to    *)
(* which code stands for which value: no value and no code is lost or      *)
(* gained when the config is built a second time from the Result.          *)
(***************************************************************************)
SavedAsMeasured ==
  saved # NoConfig =>
    /\ {e.value : e \in EntrySet(saved)} = {e.value : e \in EntrySet(measured)}
    /\ {e.code : e \in EntrySet(saved)} = {e.code : e \in EntrySet(measured)}
    /\ Len(saved.entries) = Len(measured.entries)

\* The scan stops within one file of its size limit, and never past the other.
ScanBounded ==
  /\ Len(files) <= MaxFiles
  /\ files # << >> => totalBytes - ByteLen(Last(files)) < MaxTotalSize

(***************************************************************************)
(* "gitignore-like path patterns [...] optional ! negate"                  *)
(* (docs/DEEP_DIVE.md:122): when the scan has gone through the tree and is *)
(* below its limits, it has read every text that the patterns, in the      *)
(* order of settings.json, leave in or put back.                           *)
(***************************************************************************)
NegationReincludes ==
  pos > Len(Walk) /\ ~Full =>
    \A p \in ToSet(Walk) :
      ~Skipped(p, written) /\ tree[p] \notin {NotText, << >>} => tree[p] \in ToSet(files)
=============================================================================
