------------------------ MODULE TransFileStoreProofs ------------------------
(***************************************************************************)
(* Theorems about the handles under the discipline Quiet, for every set of *)
(* names, files, handles, mounts and contents, and every pipeline: what a  *)
(* save leaves, what a clean buffer says, and that TransFile implements    *)
(* OverlayStore.                                                           *)
(***************************************************************************)
EXTENDS TransFileStore, TransFileProofs

(***************************************************************************)
(* Bytes.                                                                  *)
(***************************************************************************)
LEMMA WriteOnEmpty ==
  ASSUME NEW p, IsBytes(p)
  PROVE  WriteAtStart(Empty, p) = p
<1>1. Len(Empty) = 0
  BY DEF Empty
<1>2. LongerLen(p, Empty) = Len(p)
  BY <1>1 DEF LongerLen, IsBytes
<1>3. WriteAtStart(Empty, p) = [i \in 1..Len(p) |-> IF i <= Len(p) THEN p[i] ELSE Empty[i]]
  BY <1>2 DEF WriteAtStart
<1>4. WriteAtStart(Empty, p) = [i \in 1..Len(p) |-> p[i]]
  BY <1>3 DEF IsBytes
<1> QED
  BY <1>4 DEF IsBytes

\* A write ends within the buffer it makes, so it begins there.
LEMMA SpliceOffset ==
  ASSUME NEW b, NEW c, NEW off \in Nat, Len(b) \in Nat, Len(c) \in Nat
  PROVE  off \in 0..Len(Splice(b, off, c))
<1> DEFINE need == off + Len(c)
           size == IF need > Len(b) THEN need ELSE Len(b)
           F(i) == IF off < i /\ i <= need THEN c[i - off]
                   ELSE IF i <= Len(b) THEN b[i] ELSE Zero
<1>1. Splice(b, off, c) = [i \in 1..size |-> F(i)]
  BY DEF Splice
<1>2. size \in Nat /\ off <= size
  OBVIOUS
<1> HIDE DEF F, size
<1>3. Len([i \in 1..size |-> F(i)]) = size
  BY <1>2
<1> QED
  BY <1>1, <1>2, <1>3

(***************************************************************************)
(* What the store of the mapping says of a transformed file.               *)
(***************************************************************************)
LEMMA StoreLookup ==
  ASSUME TypeOK, NEW n \in Transformed
  PROVE  /\ StoreOf[n] = File(n)
         /\ StoreOf[n] = Missing <=> dir[n] = NoInode
         /\ RawOrEmpty(n) = IF StoreOf[n] = Missing THEN Empty ELSE StoreOf[n]
         /\ StoreOf[n] \in Contents \cup {Missing}
<1>1. n \in Names
  BY DEF Transformed
<1> QED
  BY <1>1, NamesAssumption DEF StoreOf, File, RawOrEmpty, TypeOK

LEMMA SameStore ==
  ASSUME dir' = dir, data' = data
  PROVE  StoreOf' = StoreOf
  BY DEF StoreOf, File, Transformed, shouldTransformPath

\* Binding a transformed name to a file of its own gives that file new content.
LEMMA BindStore ==
  ASSUME TypeOK, SourceUnshared, NEW n \in Transformed, NEW i \in OpenedInode(n), NEW c,
         dir' = [dir EXCEPT ![n] = i], data' = [data EXCEPT ![i] = c]
  PROVE  StoreOf' = [StoreOf EXCEPT ![n] = c]
<1>1. n \in Names /\ shouldTransformPath(n) /\ i \in Inodes
  BY OpenedInodeType DEF Transformed
<1>2. i # NoInode
  BY <1>1, NamesAssumption
<1>3. dir'[n] = i /\ data'[i] = c /\ \A j \in Inodes \ {i} : data'[j] = data[j]
  BY <1>1 DEF TypeOK
<1>4. ASSUME NEW m \in Transformed, m # n PROVE dir'[m] = dir[m] /\ dir[m] # i
  <2>1. m \in Names /\ dir'[m] = dir[m]
    BY <1>4 DEF Transformed, TypeOK
  <2>2. CASE i = dir[n]
    BY <1>1, <1>2, <1>4, <2>1, <2>2 DEF SourceUnshared
  <2>3. CASE i # dir[n]
    BY <1>1, <2>1, <2>3, OpenedInodeFresh
  <2> QED
    BY <2>1, <2>2, <2>3
<1>5. ASSUME NEW m \in Transformed PROVE File(m)' = IF m = n THEN c ELSE File(m)
  <2>1. CASE m = n
    BY <1>2, <1>3, <2>1 DEF File
  <2>2. CASE m # n
    <3>1. dir[m] \in Inodes \cup {NoInode}
      BY DEF Transformed, TypeOK
    <3> QED
      BY <1>3, <1>4, <2>2, <3>1 DEF File
  <2> QED
    BY <2>1, <2>2
<1>6. StoreOf' = [m \in Transformed |-> File(m)']
  BY DEF StoreOf, Transformed, shouldTransformPath
<1> QED
  BY <1>5, <1>6 DEF StoreOf

\* Writing the file of a transformed name changes that name only.
LEMMA WriteStore ==
  ASSUME TypeOK, SourceUnshared, NEW n \in Transformed, dir[n] \in Inodes, NEW c,
         dir' = dir, data' = [data EXCEPT ![dir[n]] = c]
  PROVE  StoreOf' = [StoreOf EXCEPT ![n] = c]
<1>1. n \in Names
  BY DEF Transformed
<1>2. dir[n] \in OpenedInode(n) /\ dir' = [dir EXCEPT ![n] = dir[n]]
  BY <1>1, NamesAssumption DEF OpenedInode, TypeOK
<1> QED
  BY <1>2, BindStore

\* Nothing that happens to other files is seen.
LEMMA ElsewhereStore ==
  ASSUME TypeOK, NEW i \in Inodes, NEW c, \A n \in Transformed : dir[n] # i,
         \A n \in Transformed : dir'[n] = dir[n],
         data' = data \/ data' = [data EXCEPT ![i] = c]
  PROVE  StoreOf' = StoreOf
<1>1. \A n \in Transformed : dir[n] \in Inodes \cup {NoInode}
  BY DEF TypeOK, Transformed
<1>2. \A j \in Inodes \ {i} : data'[j] = data[j]
  BY DEF TypeOK
<1>3. \A n \in Transformed : File(n)' = File(n)
  BY <1>1, <1>2 DEF File
<1>4. StoreOf' = [m \in Transformed |-> File(m)']
  BY DEF StoreOf, Transformed, shouldTransformPath
<1> QED
  BY <1>3, <1>4 DEF StoreOf

(***************************************************************************)
(* What a step of handle h does to the records: h opens, keeps what it was *)
(* opened with, or is transformed no more; the others stay.                *)
(***************************************************************************)
Kept(r, s) ==
  r.kind = "trans" /\ s.kind = "trans" /\ r.path = s.path /\ r.writable = s.writable

IsOpening(h) ==
  \E n \in Transformed, w, reset \in BOOLEAN :
    hd[h].kind = "closed" /\ MayOpen(n, w) /\ hd'[h] = newTransFileHandle(n, w, reset)

LEMMA OthersKeep ==
  ASSUME TypeOK, NEW h \in Handles, HandleStep(h), NEW g \in Handles, g # h
  PROVE  hd'[g] = hd[g]
<1>1. ASSUME NEW off, NEW chunk, Write(h, off, chunk) PROVE hd'[g] = hd[g]
  BY <1>1 DEF Write, TypeOK
<1>2. ASSUME NEW op, CommitTruncate(h, op) PROVE hd'[g] = hd[g]
  BY <1>2 DEF CommitTruncate, TypeOK
<1>3. ASSUME NEW op, NEW wrote, NEW answer, hd' = Settled(h, op, wrote, answer) PROVE hd'[g] = hd[g]
  BY <1>3 DEF Settled, TypeOK
<1>4. ASSUME NEW n, NEW w, NEW trunc, Create(h, n, w, trunc) PROVE hd'[g] = hd[g]
  BY <1>4 DEF Create, TypeOK
<1>5. ASSUME NEW n, NEW w, NEW trunc, OpenTrans(h, n, w, trunc) \/ OpenLoop(h, n, w)
      PROVE hd'[g] = hd[g]
  BY <1>5 DEF OpenTrans, OpenLoop, TypeOK
<1>6. ASSUME NEW text, WriteTooFar(h) \/ LoopWrite(h, text) \/ LoopRelease(h) PROVE hd'[g] = hd[g]
  BY <1>6 DEF WriteTooFar, LoopWrite, LoopRelease, TypeOK
<1> QED
  BY <1>1, <1>2, <1>3, <1>4, <1>5, <1>6
  DEF HandleStep, AppendToEnd, CommitClean, CommitRefused, CommitWrite, CommitWriteFails

LEMMA SettledKept ==
  ASSUME TypeOK, NEW h \in Handles, hd[h].kind = "trans",
         NEW op, NEW wrote, NEW answer, hd' = Settled(h, op, wrote, answer)
  PROVE  Kept(hd[h], hd'[h]) \/ hd'[h] = ClosedHandle
<1>1. hd[h] \in HandleSet /\ hd \in [Handles -> HandleSet]
  BY DEF TypeOK
<1>2. Kept(hd[h], Answered(hd[h], wrote, answer))
  BY <1>1 DEF Kept, Answered, HandleSet
<1> QED
  BY <1>1, <1>2 DEF Settled

LEMMA RecordStep ==
  ASSUME TypeOK, HandleInv, NEW h \in Handles, HandleStep(h)
  PROVE  Kept(hd[h], hd'[h]) \/ IsOpening(h) \/ hd'[h].kind # "trans"
<1>h. hd \in [Handles -> HandleSet] /\ hd[h] \in HandleSet
  BY DEF TypeOK
<1>c. ClosedHandle.kind = "closed" /\ \A n, w, i : LoopHandle(n, w, i).kind = "loop"
  BY DEF ClosedHandle, LoopHandle
<1>1. ASSUME NEW n \in Names, NEW w \in BOOLEAN, NEW trunc \in BOOLEAN, OpenTrans(h, n, w, trunc)
      PROVE IsOpening(h)
  BY <1>1, <1>h DEF OpenTrans, IsOpening, Transformed
<1>2. ASSUME NEW n \in Names, NEW w \in BOOLEAN, OpenLoop(h, n, w) PROVE hd'[h].kind # "trans"
  BY <1>2, <1>h, <1>c DEF OpenLoop
<1>3. ASSUME NEW n \in Names, NEW w \in BOOLEAN, NEW trunc \in BOOLEAN, Create(h, n, w, trunc)
      PROVE IsOpening(h) \/ hd'[h].kind # "trans"
  <2>1. MayOpen(n, w) /\ hd[h].kind = "closed"
    BY <1>3 DEF Create, MayOpen
  <2>2. PICK i \in OpenedInode(n) :
          hd' = [hd EXCEPT ![h] = IF shouldTransformPath(n) THEN newTransFileHandle(n, w, TRUE)
                                                            ELSE LoopHandle(n, w, i)]
    BY <1>3 DEF Create
  <2> QED
    BY <1>h, <1>c, <2>1, <2>2 DEF IsOpening, Transformed
<1>4. ASSUME NEW off, NEW chunk, Write(h, off, chunk) PROVE Kept(hd[h], hd'[h])
  <2> DEFINE b == Splice(PreparedBuf(h), off, chunk)
  <2>1. hd[h].kind = "trans"
        /\ hd' = [hd EXCEPT ![h] = [hd[h] EXCEPT !.prepared = TRUE, !.dirty = TRUE, !.buf = b,
                                                 !.acked = "none"]]
    BY <1>4 DEF Write, Idle
  <2> HIDE DEF b
  <2> QED
    BY <1>h, <2>1 DEF Kept, HandleSet
<1>5. ASSUME WriteTooFar(h) PROVE Kept(hd[h], hd'[h])
  <2>1. hd[h].kind = "trans"
        /\ hd' = [hd EXCEPT ![h] = [hd[h] EXCEPT !.prepared = TRUE, !.buf = PreparedBuf(h)]]
    BY <1>5 DEF WriteTooFar, Idle
  <2> QED
    BY <1>h, <2>1 DEF Kept, HandleSet
<1>6. ASSUME NEW op, NEW wrote, NEW answer, hd[h].kind = "trans", hd' = Settled(h, op, wrote, answer)
      PROVE Kept(hd[h], hd'[h]) \/ hd'[h].kind # "trans"
  BY <1>6, <1>c, SettledKept
<1>7. ASSUME NEW op, CommitTruncate(h, op) PROVE Kept(hd[h], hd'[h])
  <2> DEFINE c == PCommit(hd[h].path, hd[h].buf).content
  <2>1. PICK i \in OpenedInode(hd[h].path) :
          hd[h].kind = "trans"
          /\ hd' = [hd EXCEPT ![h] = [hd[h] EXCEPT !.pc = op, !.ino = i, !.payload = c]]
    BY <1>7 DEF CommitTruncate, MayRequest, Idle
  <2> HIDE DEF c
  <2> QED
    BY <1>h, <2>1 DEF Kept, HandleSet
<1>8. ASSUME NEW op, CommitClean(h, op) \/ CommitRefused(h, op)
      PROVE Kept(hd[h], hd'[h]) \/ hd'[h].kind # "trans"
  BY <1>6, <1>8 DEF CommitClean, CommitRefused, MayRequest, Idle
<1>9. ASSUME CommitWrite(h) \/ \E k \in 0..Len(hd[h].payload) : CommitWriteFails(h, k)
      PROVE Kept(hd[h], hd'[h]) \/ hd'[h].kind # "trans"
  BY <1>6, <1>9 DEF CommitWrite, CommitWriteFails
<1>10. ASSUME NEW text, LoopWrite(h, text) \/ LoopRelease(h) PROVE hd'[h].kind # "trans"
  BY <1>10, <1>h, <1>c DEF LoopWrite, LoopRelease
<1> QED
  BY <1>1, <1>2, <1>3, <1>4, <1>5, <1>7, <1>8, <1>9, <1>10 DEF HandleStep, AppendToEnd

(***************************************************************************)
(* What the steps that touch files do to the store.                        *)
(***************************************************************************)
IInv == TypeOK /\ HandleInv /\ CanonicalInv /\ QuietInv

LEMMA SavingFacts ==
  ASSUME IInv, NEW h \in Handles, hd[h].pc # "idle"
  PROVE  /\ hd[h].kind = "trans" /\ hd[h].writable /\ hd[h].prepared /\ hd[h].dirty
         /\ hd[h].pc \in {"flush", "release"}
         /\ hd[h].path \in Transformed /\ hd[h].path \in Names
         /\ hd[h].ino \in Inodes /\ dir[hd[h].path] = hd[h].ino
         /\ data[hd[h].ino] = Empty
         /\ hd[h].payload \in Contents /\ IsBytes(hd[h].payload)
         /\ PCommit(hd[h].path, hd[h].buf).err = "ok"
         /\ PCommit(hd[h].path, hd[h].buf).content = hd[h].payload
<1>1. GoodHandle(hd[h]) /\ hd[h] \in HandleSet
  BY DEF IInv, HandleInv, GoodHandle
<1>2. hd[h].kind = "trans" /\ hd[h].writable /\ hd[h].prepared /\ hd[h].dirty
      /\ hd[h].pc \in {"flush", "release"} /\ hd[h].ino \in Inodes
  BY <1>1 DEF GoodHandle, HandleShape, HandleSet
<1>3. hd[h].payload \in Contents
  BY <1>1 DEF HandleSet
<1>4. hd[h].path \in Transformed /\ hd[h].path \in Names
  BY <1>2 DEF IInv, QuietInv, TransPaths, Transformed
<1> QED
  BY <1>1, <1>2, <1>3, <1>4, BytesAssumption DEF IInv, QuietInv, Window, GoodHandle

LEMMA CreateEffect ==
  ASSUME IInv, NEW h \in Handles, NEW n \in Names, NEW w \in BOOLEAN, NEW trunc \in BOOLEAN,
         Create(h, n, w, trunc)
  PROVE  /\ n \in Transformed =>
              \/ StoreOf[n] # Missing /\ ~trunc /\ StoreOf' = StoreOf
              \/ StoreOf' = [StoreOf EXCEPT ![n] = Empty] /\ (StoreOf[n] = Missing \/ trunc)
         /\ n \notin Transformed => StoreOf' = StoreOf
         /\ \A m \in Names : dir[m] # NoInode => dir'[m] = dir[m]
<1> USE DEF IInv, CanonicalInv
<1>1. PICK i \in OpenedInode(n) :
        /\ dir' = [dir EXCEPT ![n] = i]
        /\ data' = IF dir[n] # NoInode /\ ~trunc THEN data ELSE [data EXCEPT ![i] = Empty]
  BY DEF Create
<1>2. i \in Inodes /\ (dir[n] # NoInode => i = dir[n])
  BY OpenedInodeType DEF OpenedInode
<1>3. \A m \in Names : dir[m] # NoInode => dir'[m] = dir[m]
  BY <1>1, <1>2 DEF TypeOK
<1>4. ASSUME n \in Transformed
      PROVE \/ StoreOf[n] # Missing /\ ~trunc /\ StoreOf' = StoreOf
            \/ StoreOf' = [StoreOf EXCEPT ![n] = Empty] /\ (StoreOf[n] = Missing \/ trunc)
  <2>1. CASE dir[n] # NoInode /\ ~trunc
    <3>1. dir' = dir /\ data' = data
      BY <1>1, <1>2, <2>1 DEF TypeOK
    <3> QED
      BY <1>4, <2>1, <3>1, SameStore, StoreLookup
  <2>2. CASE ~(dir[n] # NoInode /\ ~trunc)
    <3>1. StoreOf' = [StoreOf EXCEPT ![n] = Empty]
      BY <1>1, <1>4, <2>2, BindStore
    <3> QED
      BY <1>4, <2>2, <3>1, StoreLookup
  <2> QED
    BY <2>1, <2>2
<1>5. ASSUME n \notin Transformed PROVE StoreOf' = StoreOf
  <2>1. \A m \in Transformed : m \in Names /\ m # n /\ dir'[m] = dir[m]
    BY <1>1, <1>5 DEF Transformed, TypeOK
  <2>2. ASSUME NEW m \in Transformed PROVE dir[m] # i
    <3>1. CASE i = dir[n]
      BY <1>2, <2>1, <3>1, NamesAssumption DEF SourceUnshared, Transformed
    <3>2. CASE i # dir[n]
      BY <2>1, <3>2, OpenedInodeFresh
    <3> QED
      BY <3>1, <3>2
  <2> QED
    BY <1>1, <1>2, <2>1, <2>2, ElsewhereStore
<1> QED
  BY <1>3, <1>4, <1>5

LEMMA TruncateEffect ==
  ASSUME IInv, NEW h \in Handles, NEW op, CommitTruncate(h, op)
  PROVE  /\ hd[h].kind = "trans" /\ hd[h].pc = "idle" /\ hd[h].dirty
         /\ hd[h].path \in Transformed
         /\ PCommit(hd[h].path, hd[h].buf).err = "ok"
         /\ StoreOf' = [StoreOf EXCEPT ![hd[h].path] = Empty]
         /\ \A m \in Names : dir[m] # NoInode => dir'[m] = dir[m]
         /\ hd'[h].path = hd[h].path
         /\ dir'[hd'[h].path] = hd'[h].ino /\ data'[hd'[h].ino] = Empty
<1> USE DEF IInv, CanonicalInv
<1>1. hd[h].kind = "trans" /\ hd[h].pc = "idle" /\ hd[h].dirty
      /\ PCommit(hd[h].path, hd[h].buf).err = "ok"
  BY DEF CommitTruncate, MayRequest, Idle
<1>2. hd[h].path \in Transformed /\ hd[h].path \in Names
  BY <1>1 DEF QuietInv, TransPaths, Transformed
<1>3. PICK i \in OpenedInode(hd[h].path) :
        /\ dir' = [dir EXCEPT ![hd[h].path] = i]
        /\ data' = [data EXCEPT ![i] = Empty]
        /\ hd' = [hd EXCEPT ![h] = [hd[h] EXCEPT !.pc = op, !.ino = i,
                                      !.payload = PCommit(hd[h].path, hd[h].buf).content]]
  BY DEF CommitTruncate
<1>4. i \in Inodes /\ (dir[hd[h].path] # NoInode => i = dir[hd[h].path])
  BY <1>2, OpenedInodeType DEF OpenedInode
<1>5. dir'[hd[h].path] = i /\ data'[i] = Empty
      /\ \A m \in Names : dir[m] # NoInode => dir'[m] = dir[m]
  BY <1>2, <1>3, <1>4 DEF TypeOK
<1>6. StoreOf' = [StoreOf EXCEPT ![hd[h].path] = Empty]
  BY <1>2, <1>3, BindStore
<1>7. hd'[h].path = hd[h].path /\ hd'[h].ino = i
  <2> DEFINE c == PCommit(hd[h].path, hd[h].buf).content
  <2>1. hd' = [hd EXCEPT ![h] = [hd[h] EXCEPT !.pc = op, !.ino = i, !.payload = c]]
    BY <1>3
  <2> HIDE DEF c
  <2> QED
    BY <2>1 DEF TypeOK, HandleSet
<1> QED
  BY <1>1, <1>2, <1>5, <1>6, <1>7

LEMMA WriteEffect ==
  ASSUME IInv, NEW h \in Handles, hd[h].pc # "idle", NEW sent \in Contents, dir' = dir,
         data' = [data EXCEPT ![hd[h].ino] = WriteAtStart(data[hd[h].ino], sent)]
  PROVE  StoreOf' = [StoreOf EXCEPT ![hd[h].path] = sent]
<1>1. hd[h].path \in Transformed /\ dir[hd[h].path] \in Inodes
      /\ dir[hd[h].path] = hd[h].ino /\ data[hd[h].ino] = Empty
  BY SavingFacts
<1>2. WriteAtStart(data[hd[h].ino], sent) = sent
  BY <1>1, WriteOnEmpty, BytesAssumption
<1> QED
  BY <1>1, <1>2, WriteStore DEF IInv, CanonicalInv

LEMMA LoopEffect ==
  ASSUME IInv, NEW h \in Handles, NEW text, LoopWrite(h, text)
  PROVE  StoreOf' = StoreOf
<1>1. hd[h].kind = "loop" /\ data' = [data EXCEPT ![hd[h].ino] = text] /\ dir' = dir
  BY DEF LoopWrite
<1>2. hd[h].ino \in Inodes
  BY <1>1 DEF IInv, HandleInv, GoodHandle, HandleShape
<1>3. \A n \in Transformed : dir[n] # hd[h].ino
  BY <1>1 DEF IInv, CanonicalInv, NoLoopOnSource, Transformed
<1> QED
  BY <1>1, <1>2, <1>3, ElsewhereStore DEF IInv

(***************************************************************************)
(* Taken together: a step of h leaves the store alone, makes or empties a  *)
(* file as it opens it, or writes the file its own handle is on.  No name  *)
(* is bound anew.                                                          *)
(***************************************************************************)
NoWriterOn(n) ==
  \A g \in Handles : ~(hd[g].kind = "trans" /\ hd[g].writable /\ hd[g].path = n)

LEMMA StoreEffect ==
  ASSUME Quiet, IInv, NEW h \in Handles, HandleStep(h)
  PROVE  /\ \/ StoreOf' = StoreOf
            \/ \E n \in Transformed :
                 StoreOf' = [StoreOf EXCEPT ![n] = Empty] /\ (StoreOf[n] = Missing \/ NoWriterOn(n))
            \/ /\ hd[h].kind = "trans" /\ hd[h].writable /\ hd[h].path \in Transformed
               /\ \E c : StoreOf' = [StoreOf EXCEPT ![hd[h].path] = c]
         /\ \A m \in Names : dir[m] # NoInode => dir'[m] = dir[m]
<1> DEFINE Keeps == \A m \in Names : dir[m] # NoInode => dir'[m] = dir[m]
           Own == hd[h].kind = "trans" /\ hd[h].writable /\ hd[h].path \in Transformed
<1>1. CASE UNCHANGED <<dir, data>>
  BY <1>1, SameStore
<1>2. ASSUME NEW n \in Names, NEW w \in BOOLEAN, NEW trunc \in BOOLEAN, Create(h, n, w, trunc)
      PROVE /\ \/ StoreOf' = StoreOf
               \/ /\ n \in Transformed /\ StoreOf' = [StoreOf EXCEPT ![n] = Empty]
                  /\ StoreOf[n] = Missing \/ NoWriterOn(n)
            /\ Keeps
  <2>1. trunc => NoWriterOn(n)
    BY <1>2 DEF Create, MayOpen, NoWriterOn, Quiet
  <2> QED
    BY <1>2, <2>1, CreateEffect
<1>3. ASSUME NEW op, CommitTruncate(h, op)
      PROVE Own /\ (\E c : StoreOf' = [StoreOf EXCEPT ![hd[h].path] = c]) /\ Keeps
  <2>1. hd[h].writable
    BY <1>3, TruncateEffect DEF IInv, HandleInv, GoodHandle, HandleShape
  <2> QED
    BY <1>3, <2>1, TruncateEffect
<1>4. ASSUME CommitWrite(h)
      PROVE Own /\ (\E c : StoreOf' = [StoreOf EXCEPT ![hd[h].path] = c]) /\ Keeps
  BY <1>4, SavingFacts, WriteEffect DEF CommitWrite
<1>5. ASSUME NEW k \in 0..Len(hd[h].payload), CommitWriteFails(h, k)
      PROVE Own /\ (\E c : StoreOf' = [StoreOf EXCEPT ![hd[h].path] = c]) /\ Keeps
  <2>1. FirstBytes(hd[h].payload, k) \in Contents
    BY <1>5, SavingFacts, ContentAssumption DEF CommitWriteFails
  <2> QED
    BY <1>5, <2>1, SavingFacts, WriteEffect DEF CommitWriteFails
<1>6. ASSUME NEW text, LoopWrite(h, text) PROVE StoreOf' = StoreOf /\ Keeps
  BY <1>6, LoopEffect DEF LoopWrite
<1> HIDE DEF Keeps, Own
<1>7. ASSUME NEW n, NEW w, NEW trunc, OpenTrans(h, n, w, trunc) \/ OpenLoop(h, n, w)
      PROVE UNCHANGED <<dir, data>>
  BY <1>7 DEF OpenTrans, OpenLoop
<1>8. ASSUME NEW off, NEW chunk, Write(h, off, chunk) \/ WriteTooFar(h) \/ LoopRelease(h)
      PROVE UNCHANGED <<dir, data>>
  BY <1>8 DEF Write, WriteTooFar, LoopRelease
<1>9. ASSUME NEW op, CommitClean(h, op) \/ CommitRefused(h, op) PROVE UNCHANGED <<dir, data>>
  BY <1>9 DEF CommitClean, CommitRefused
<1>10. CASE \/ \E n \in Names, w, trunc \in BOOLEAN : OpenTrans(h, n, w, trunc)
            \/ \E n \in Names, w \in BOOLEAN : OpenLoop(h, n, w)
            \/ \E off \in Offsets, chunk \in Chunks : Write(h, off, chunk)
            \/ \E chunk \in Chunks : AppendToEnd(h, chunk)
            \/ WriteTooFar(h) \/ LoopRelease(h)
            \/ \E op \in {"flush", "release"} : CommitClean(h, op) \/ CommitRefused(h, op)
  <2>1. UNCHANGED <<dir, data>>
    BY <1>7, <1>8, <1>9, <1>10 DEF AppendToEnd
  <2> QED
    BY <1>1, <2>1
<1>11. CASE \E n \in Names, w, trunc \in BOOLEAN : Create(h, n, w, trunc)
  BY <1>2, <1>11 DEF Keeps
<1>12. CASE \/ \E op \in {"flush", "release"} : CommitTruncate(h, op)
            \/ CommitWrite(h) \/ \E k \in 0..Len(hd[h].payload) : CommitWriteFails(h, k)
  BY <1>3, <1>4, <1>5, <1>12 DEF Keeps, Own
<1>13. CASE \E text \in RawTexts : LoopWrite(h, text)
  BY <1>6, <1>13 DEF Keeps
<1> QED
  BY <1>10, <1>11, <1>12, <1>13 DEF HandleStep

(***************************************************************************)
(* The discipline leaves no tree steps, and is one of those under which    *)
(* CanonicalInv holds.                                                     *)
(***************************************************************************)
LEMMA QuietDiscipline == Quiet => Discipline
  BY DEF Quiet, Discipline

LEMMA QuietNoTreeStep == Quiet => ~TreeStep
  BY DEF Quiet, TreeStep, Rename, Link, Unlink, Setattr, LocalEdit

(***************************************************************************)
(* IInv is inductive.                                                      *)
(***************************************************************************)
LEMMA QuietInit == Init => QuietInv
  BY DEF Init, QuietInv, TransPaths, OneWriter, Window, ClosedHandle

LEMMA TransPathsStep ==
  ASSUME IInv, NEW h \in Handles, HandleStep(h)
  PROVE  TransPaths'
<1>1. ASSUME NEW g \in Handles, hd'[g].kind = "trans" PROVE hd'[g].path \in Transformed
  <2>1. CASE g # h
    BY <1>1, <2>1, OthersKeep DEF IInv, QuietInv, TransPaths
  <2>2. CASE g = h /\ Kept(hd[h], hd'[h])
    BY <2>2 DEF IInv, QuietInv, TransPaths, Kept
  <2>3. CASE g = h /\ IsOpening(h)
    BY <2>3 DEF IsOpening, newTransFileHandle, ClosedHandle
  <2> QED
    BY <1>1, <2>1, <2>2, <2>3, RecordStep DEF IInv
<1> QED
  BY <1>1 DEF TransPaths, Transformed, shouldTransformPath

LEMMA OneWriterStep ==
  ASSUME Quiet, IInv, NEW h \in Handles, HandleStep(h)
  PROVE  OneWriter'
<1> DEFINE Writes(r, n) == r.kind = "trans" /\ r.writable /\ r.path = n
<1>1. ASSUME NEW g \in Handles, NEW n, Writes(hd'[g], n)
      PROVE Writes(hd[g], n) \/ (g = h /\ NoWriterOn(n))
  <2>1. CASE g # h
    BY <1>1, <2>1, OthersKeep DEF IInv
  <2>2. CASE g = h /\ Kept(hd[h], hd'[h])
    BY <1>1, <2>2 DEF Kept
  <2>3. CASE g = h /\ IsOpening(h)
    <3>1. PICK m \in Transformed, w \in BOOLEAN, reset \in BOOLEAN :
            MayOpen(m, w) /\ hd'[h] = newTransFileHandle(m, w, reset)
      BY <2>3 DEF IsOpening
    <3>2. m = n /\ w = TRUE
      BY <1>1, <2>3, <3>1 DEF newTransFileHandle, ClosedHandle
    <3> QED
      BY <2>3, <3>1, <3>2 DEF MayOpen, NoWriterOn, Quiet
  <2> QED
    BY <1>1, <2>1, <2>2, <2>3, RecordStep DEF IInv
<1>2. ASSUME NEW f \in Handles, NEW g \in Handles, NEW n, Writes(hd'[f], n), Writes(hd'[g], n)
      PROVE f = g
  <2>1. CASE Writes(hd[f], n) /\ Writes(hd[g], n)
    BY <2>1 DEF IInv, QuietInv, OneWriter
  <2>2. CASE NoWriterOn(n)
    BY <1>1, <1>2, <2>2 DEF NoWriterOn
  <2> QED
    BY <1>1, <1>2, <2>1, <2>2
<1> QED
  BY <1>2 DEF OneWriter

\* A step of another handle does not reach a file in the middle of its save.
LEMMA SaveUndisturbed ==
  ASSUME Quiet, IInv, NEW h \in Handles, HandleStep(h),
         NEW g \in Handles, g # h, hd[g].pc # "idle"
  PROVE  dir'[hd[g].path] = hd[g].ino /\ data'[hd[g].ino] = Empty
<1>n. PICK n : n = hd[g].path
  OBVIOUS
<1>1. n \in Transformed /\ n \in Names /\ dir[n] = hd[g].ino /\ hd[g].ino \in Inodes
      /\ hd[g].kind = "trans" /\ hd[g].writable /\ data[hd[g].ino] = Empty
  BY <1>n, SavingFacts
<1>2. hd[g].ino # NoInode
  BY <1>1, NamesAssumption
<1>3. StoreOf[n] = Empty
  BY <1>1, <1>2, StoreLookup DEF IInv, File
<1>4. dir'[n] = hd[g].ino
  BY <1>1, <1>2, StoreEffect
<1>5. StoreOf'[n] = Empty
  <2>1. hd[h].kind = "trans" /\ hd[h].writable => hd[h].path # n
    BY <1>1, <1>n DEF IInv, QuietInv, OneWriter
  <2>2. \A m \in Transformed : \A c : m # n => [StoreOf EXCEPT ![m] = c][n] = StoreOf[n]
    BY <1>1 DEF StoreOf
  <2>3. \A m \in Transformed : [StoreOf EXCEPT ![m] = Empty][n] = Empty
    BY <1>1, <1>3 DEF StoreOf
  <2>4. CASE StoreOf' = StoreOf
    BY <1>3, <2>4
  <2>5. ASSUME NEW m \in Transformed, StoreOf' = [StoreOf EXCEPT ![m] = Empty],
               StoreOf[m] = Missing \/ NoWriterOn(m)
        PROVE StoreOf'[n] = Empty
    BY <1>3, <2>2, <2>3, <2>5
  <2>6. ASSUME NEW c, hd[h].kind = "trans", hd[h].writable, hd[h].path \in Transformed,
               StoreOf' = [StoreOf EXCEPT ![hd[h].path] = c]
        PROVE StoreOf'[n] = Empty
    BY <1>3, <2>1, <2>2, <2>6
  <2> QED
    BY <2>4, <2>5, <2>6, StoreEffect
<1>6. TypeOK'
  BY HandleStepInv DEF IInv
<1>7. StoreOf'[n] = File(n)'
  BY <1>1 DEF StoreOf, Transformed, shouldTransformPath
<1>8. File(n)' = data'[hd[g].ino]
  BY <1>2, <1>4 DEF File
<1> QED
  BY <1>n, <1>4, <1>5, <1>7, <1>8

\* Only the truncating open of a commit enters os.WriteFile.
LEMMA EntersByTruncate ==
  ASSUME IInv, NEW h \in Handles, HandleStep(h), hd'[h].pc # "idle"
  PROVE  \E op \in {"flush", "release"} : CommitTruncate(h, op)
<1>t. hd \in [Handles -> HandleSet] /\ hd[h] \in HandleSet
  BY DEF IInv, TypeOK
<1>1. ASSUME NEW op, NEW wrote, NEW answer, hd' = Settled(h, op, wrote, answer) PROVE FALSE
  <2>1. ClosedHandle.pc = "idle" /\ Answered(hd[h], wrote, answer).pc = "idle"
    BY <1>t DEF Answered, ClosedHandle, HandleSet
  <2> QED
    BY <1>1, <1>t, <2>1 DEF Settled
<1>2. ~CommitWrite(h) /\ \A k : ~CommitWriteFails(h, k)
  BY <1>1 DEF CommitWrite, CommitWriteFails
<1>3. \A op : ~CommitClean(h, op) /\ ~CommitRefused(h, op)
  BY <1>1 DEF CommitClean, CommitRefused
<1>4. ASSUME NEW off, NEW chunk, Write(h, off, chunk) PROVE FALSE
  <2> DEFINE b == Splice(PreparedBuf(h), off, chunk)
  <2>1. hd[h].pc = "idle"
        /\ hd' = [hd EXCEPT ![h] = [hd[h] EXCEPT !.prepared = TRUE, !.dirty = TRUE, !.buf = b,
                                                 !.acked = "none"]]
    BY <1>4 DEF Write, Idle
  <2> HIDE DEF b
  <2> QED
    BY <1>t, <2>1 DEF HandleSet
<1>5. ASSUME WriteTooFar(h) PROVE FALSE
  <2> DEFINE b == PreparedBuf(h)
  <2>1. hd[h].pc = "idle"
        /\ hd' = [hd EXCEPT ![h] = [hd[h] EXCEPT !.prepared = TRUE, !.buf = b]]
    BY <1>5 DEF WriteTooFar, Idle
  <2> HIDE DEF b
  <2> QED
    BY <1>t, <2>1 DEF HandleSet
<1>o. \A m, x, r, i : newTransFileHandle(m, x, r).pc = "idle" /\ LoopHandle(m, x, i).pc = "idle"
  BY DEF newTransFileHandle, LoopHandle, ClosedHandle
<1>6. ASSUME NEW n, NEW w, NEW trunc, OpenTrans(h, n, w, trunc) \/ OpenLoop(h, n, w) PROVE FALSE
  BY <1>6, <1>t, <1>o DEF OpenTrans, OpenLoop
<1>7. ASSUME NEW n, NEW w, NEW trunc, Create(h, n, w, trunc) PROVE FALSE
  <2>1. PICK i : hd' = [hd EXCEPT ![h] = IF shouldTransformPath(n)
                                         THEN newTransFileHandle(n, w, TRUE)
                                         ELSE LoopHandle(n, w, i)]
    BY <1>7 DEF Create
  <2> QED
    BY <1>t, <1>o, <2>1
<1>8. ASSUME NEW text, LoopWrite(h, text) \/ LoopRelease(h) PROVE FALSE
  <2>1. hd[h].pc = "idle"
    BY <1>8 DEF IInv, HandleInv, GoodHandle, HandleShape, LoopWrite, LoopRelease
  <2> QED
    BY <1>t, <1>8, <2>1 DEF LoopWrite, LoopRelease, ClosedHandle
<1> QED
  BY <1>2, <1>3, <1>4, <1>5, <1>6, <1>7, <1>8 DEF HandleStep, AppendToEnd

LEMMA WindowStep ==
  ASSUME Quiet, IInv, NEW h \in Handles, HandleStep(h)
  PROVE  Window'
<1>1. ASSUME hd'[h].pc # "idle"
      PROVE  dir'[hd'[h].path] = hd'[h].ino /\ data'[hd'[h].ino] = Empty
  BY <1>1, EntersByTruncate, TruncateEffect
<1>2. ASSUME NEW g \in Handles, g # h, hd'[g].pc # "idle"
      PROVE  dir'[hd'[g].path] = hd'[g].ino /\ data'[hd'[g].ino] = Empty
  <2>1. hd'[g] = hd[g]
    BY <1>2, OthersKeep DEF IInv
  <2> QED
    BY <1>2, <2>1, SaveUndisturbed
<1> QED
  BY <1>1, <1>2 DEF Window

LEMMA IInvNext ==
  ASSUME Quiet, IInv, [Next]_vars
  PROVE  IInv'
<1>1. TypeOK' /\ HandleInv' /\ CanonicalInv'
  BY NextInv, CanonicalNext, QuietDiscipline DEF IInv
<1>2. ASSUME NEW h \in Handles, HandleStep(h) PROVE QuietInv'
  BY <1>2, TransPathsStep, OneWriterStep, WindowStep DEF QuietInv
<1>3. ASSUME NEW m \in Mounts, Crash(m) PROVE QuietInv'
  <2>1. dir' = dir /\ data' = data /\ \A g \in Handles : hd'[g] = ClosedHandle \/ hd'[g] = hd[g]
    BY <1>3 DEF Crash
  <2> QED
    BY <2>1 DEF IInv, QuietInv, TransPaths, OneWriter, Window, ClosedHandle,
               Transformed, shouldTransformPath
<1>4. ASSUME UNCHANGED vars PROVE QuietInv'
  BY <1>4 DEF vars, IInv, QuietInv, TransPaths, OneWriter, Window, Transformed,
              shouldTransformPath
<1> QED
  BY [Next]_vars, <1>1, <1>2, <1>3, <1>4, QuietNoTreeStep DEF Next, IInv

LEMMA IInvHolds == ASSUME Quiet PROVE Spec => []IInv
<1>1. Init => IInv
  BY InitInv, CanonicalInit, QuietInit DEF IInv
<1>2. IInv /\ [Next]_vars => IInv'
  BY IInvNext, Quiet
<1> QED
  BY <1>1, <1>2, PTL DEF Spec

(***************************************************************************)
(* Only a commit that wrote its bytes makes a handle clean.                *)
(***************************************************************************)
LEMMA CleanedByWrite ==
  ASSUME IInv, NEW h \in Handles, HandleStep(h),
         hd[h].dirty, hd'[h].kind = "trans", ~hd'[h].dirty
  PROVE  CommitWrite(h)
<1>t. hd \in [Handles -> HandleSet] /\ hd[h] \in HandleSet
  BY DEF IInv, TypeOK
<1>k. hd[h].kind = "trans"
  BY DEF IInv, HandleInv, GoodHandle, HandleShape
<1>1. ASSUME NEW op, NEW answer, hd' = Settled(h, op, FALSE, answer) PROVE FALSE
  <2>1. ClosedHandle.kind = "closed" /\ Answered(hd[h], FALSE, answer).dirty = hd[h].dirty
    BY <1>t DEF Answered, ClosedHandle, HandleSet
  <2> QED
    BY <1>1, <1>t, <2>1 DEF Settled
<1>2. (\A k : ~CommitWriteFails(h, k)) /\ \A op : ~CommitClean(h, op) /\ ~CommitRefused(h, op)
  BY <1>1 DEF CommitWriteFails, CommitClean, CommitRefused
<1>3. ASSUME NEW off, NEW chunk, Write(h, off, chunk) PROVE FALSE
  <2> DEFINE b == Splice(PreparedBuf(h), off, chunk)
  <2>1. hd' = [hd EXCEPT ![h] = [hd[h] EXCEPT !.prepared = TRUE, !.dirty = TRUE, !.buf = b,
                                              !.acked = "none"]]
    BY <1>3 DEF Write
  <2> HIDE DEF b
  <2> QED
    BY <1>t, <2>1 DEF HandleSet
<1>4. ASSUME WriteTooFar(h) PROVE FALSE
  <2> DEFINE b == PreparedBuf(h)
  <2>1. hd' = [hd EXCEPT ![h] = [hd[h] EXCEPT !.prepared = TRUE, !.buf = b]]
    BY <1>4 DEF WriteTooFar
  <2> HIDE DEF b
  <2> QED
    BY <1>t, <2>1 DEF HandleSet
<1>5. ASSUME NEW op, CommitTruncate(h, op) PROVE FALSE
  <2> DEFINE c == PCommit(hd[h].path, hd[h].buf).content
  <2>1. PICK i : hd' = [hd EXCEPT ![h] = [hd[h] EXCEPT !.pc = op, !.ino = i, !.payload = c]]
    BY <1>5 DEF CommitTruncate
  <2> HIDE DEF c
  <2> QED
    BY <1>t, <2>1 DEF HandleSet
<1>6. ASSUME NEW n, NEW w, NEW trunc,
             OpenTrans(h, n, w, trunc) \/ OpenLoop(h, n, w) \/ Create(h, n, w, trunc)
      PROVE FALSE
  BY <1>6, <1>k DEF OpenTrans, OpenLoop, Create
<1>7. ASSUME NEW text, LoopWrite(h, text) \/ LoopRelease(h) PROVE FALSE
  BY <1>7, <1>k DEF LoopWrite, LoopRelease
<1> QED
  BY <1>2, <1>3, <1>4, <1>5, <1>6, <1>7 DEF HandleStep, AppendToEnd

\* What Commit answers to the buffer of a handle that is saving, and leaves in its file.
LEMMA WrittenFile ==
  ASSUME IInv, NEW h \in Handles, CommitWrite(h)
  PROVE  PCommit(hd[h].path, hd[h].buf) = [err |-> "ok", content |-> data'[dir'[hd[h].path]]]
<1>1. hd[h].pc # "idle" /\ dir' = dir
      /\ data' = [data EXCEPT ![hd[h].ino] = WriteAtStart(data[hd[h].ino], hd[h].payload)]
  BY DEF CommitWrite
<1>2. WriteAtStart(data[hd[h].ino], hd[h].payload) = hd[h].payload
  BY <1>1, SavingFacts, WriteOnEmpty
<1>3. data'[dir'[hd[h].path]] = hd[h].payload
  BY <1>1, <1>2, SavingFacts DEF IInv, TypeOK
<1>4. hd[h].path \in Names /\ hd[h].buf \in Views
  BY <1>1, SavingFacts DEF IInv, TypeOK, HandleSet
<1>5. IsAnswer(PCommit(hd[h].path, hd[h].buf))
  BY <1>4, PipelineAssumption
<1> QED
  BY <1>1, <1>3, <1>5, SavingFacts DEF IsAnswer

(***************************************************************************)
(* A FLUSH that makes a handle clean leaves the whole commit of the buffer *)
(* in the file under the handle's path, and nothing else (commitLocked,    *)
(* fs.go:221-238).                                                         *)
(***************************************************************************)
THEOREM SavesAreWhole == ASSUME Quiet PROVE Spec => SavedIsWhole
<1> DEFINE Whole == \A h \in Handles :
       hd[h].dirty /\ hd'[h].kind = "trans" /\ ~hd'[h].dirty
       => PCommit(hd[h].path, hd[h].buf) = [err |-> "ok", content |-> data'[dir'[hd[h].path]]]
<1>1. ASSUME IInv, [Next]_vars PROVE Whole
  <2>1. SUFFICES ASSUME NEW h \in Handles, hd[h].dirty, hd'[h].kind = "trans", ~hd'[h].dirty
                 PROVE  CommitWrite(h)
    BY <1>1, WrittenFile
  <2>2. hd[h].kind = "trans"
    BY <1>1, <2>1 DEF IInv, HandleInv, GoodHandle, HandleShape
  <2>3. ~UNCHANGED vars
    BY <2>1 DEF vars
  <2>4. ASSUME NEW m, Crash(m) PROVE FALSE
    BY <2>1, <2>4 DEF Crash, ClosedHandle
  <2>5. PICK g \in Handles : HandleStep(g)
    BY <1>1, <2>3, <2>4, QuietNoTreeStep, Quiet DEF Next
  <2>6. g = h
    BY <1>1, <2>1, <2>5, OthersKeep DEF IInv
  <2> QED
    BY <1>1, <2>1, <2>5, <2>6, CleanedByWrite
<1>2. IInv /\ [Next]_vars => [Whole]_vars
  BY <1>1
<1>3. Spec => []IInv
  BY IInvHolds, Quiet
<1> QED
  BY <1>2, <1>3, PTL DEF Spec, SavedIsWhole

(***************************************************************************)
(* A handle with nothing to write agrees with its file, when Commit takes  *)
(* back what Serve made.                                                   *)
(***************************************************************************)
Settles(r) == r.kind = "trans" /\ r.pc = "idle" /\ r.writable /\ r.prepared /\ ~r.dirty
              /\ ~(r.reset /\ r.buf = Empty)
Says(r, raw) == PCommit(r.path, r.buf) = [err |-> "ok", content |-> raw]

LEMMA RawInStore ==
  ASSUME TypeOK', NEW n \in Transformed
  PROVE  RawOrEmpty(n)' = IF StoreOf'[n] = Missing THEN Empty ELSE StoreOf'[n]
<1>1. n \in Names
  BY DEF Transformed
<1>2. StoreOf'[n] = File(n)'
  BY DEF StoreOf, Transformed, shouldTransformPath
<1> QED
  BY <1>1, <1>2, NamesAssumption DEF File, RawOrEmpty, TypeOK

\* A step of another handle leaves the bytes under a writer's name.
LEMMA RawUndisturbed ==
  ASSUME Quiet, IInv, NEW g \in Handles, HandleStep(g), NEW h \in Handles, h # g,
         hd[h].kind = "trans", hd[h].writable
  PROVE  RawOrEmpty(hd[h].path)' = RawOrEmpty(hd[h].path)
<1>1. PICK n \in Transformed : n = hd[h].path
  BY DEF IInv, QuietInv, TransPaths
<1>2. TypeOK'
  BY HandleStepInv DEF IInv
<1>3. hd'[h] = hd[h]
  BY OthersKeep DEF IInv
<1>4. ASSUME NEW m, NEW c, StoreOf' = [StoreOf EXCEPT ![m] = c]
      PROVE  StoreOf'[n] = IF m = n THEN c ELSE StoreOf[n]
  BY <1>1, <1>4 DEF StoreOf
<1>5. StoreOf'[n] = StoreOf[n] \/ (StoreOf[n] = Missing /\ StoreOf'[n] = Empty)
  <2>1. ASSUME NEW m \in Transformed, StoreOf' = [StoreOf EXCEPT ![m] = Empty],
               StoreOf[m] = Missing \/ NoWriterOn(m)
        PROVE StoreOf'[n] = StoreOf[n] \/ (StoreOf[n] = Missing /\ StoreOf'[n] = Empty)
    BY <1>1, <1>4, <2>1 DEF NoWriterOn
  <2>2. ASSUME NEW c, hd[g].kind = "trans", hd[g].writable,
               StoreOf' = [StoreOf EXCEPT ![hd[g].path] = c]
        PROVE StoreOf'[n] = StoreOf[n]
    <3>1. hd[g].path # n
      BY <1>1, <2>2 DEF IInv, QuietInv, OneWriter
    <3> QED
      BY <1>4, <2>2, <3>1
  <2> QED
    BY <2>1, <2>2, StoreEffect
<1>6. RawOrEmpty(n)' = IF StoreOf'[n] = Missing THEN Empty ELSE StoreOf'[n]
  BY <1>1, <1>2, RawInStore
<1>7. RawOrEmpty(n) = IF StoreOf[n] = Missing THEN Empty ELSE StoreOf[n]
  BY <1>1, StoreLookup DEF IInv
<1>8. RawOrEmpty(n)' = RawOrEmpty(n)
  BY <1>5, <1>6, <1>7, NamesAssumption, ContentAssumption
<1> QED
  BY <1>1, <1>3, <1>8

LEMMA OwnStepAgrees ==
  ASSUME Quiet, PipelineReversible, IInv, NEW h \in Handles, HandleStep(h), Settles(hd'[h]),
         Settles(hd[h]) => Says(hd[h], RawOrEmpty(hd[h].path))
  PROVE  Says(hd'[h], RawOrEmpty(hd[h].path)')
<1>t. hd \in [Handles -> HandleSet] /\ hd[h] \in HandleSet
  BY DEF IInv, TypeOK
<1>1. ASSUME NEW off, NEW chunk, Write(h, off, chunk) PROVE FALSE
  <2> DEFINE b == Splice(PreparedBuf(h), off, chunk)
  <2>1. hd' = [hd EXCEPT ![h] = [hd[h] EXCEPT !.prepared = TRUE, !.dirty = TRUE, !.buf = b,
                                              !.acked = "none"]]
    BY <1>1 DEF Write
  <2> HIDE DEF b
  <2> QED
    BY <1>t, <2>1 DEF HandleSet, Settles
<1>2. CASE WriteTooFar(h)
  <2> DEFINE b == PreparedBuf(h)
  <2>1. hd' = [hd EXCEPT ![h] = [hd[h] EXCEPT !.prepared = TRUE, !.buf = b]]
        /\ hd[h].kind = "trans" /\ MayPrepare(h) /\ UNCHANGED <<dir, data>>
    BY <1>2 DEF WriteTooFar, Idle
  <2> HIDE DEF b
  <2>2. hd'[h].path = hd[h].path /\ hd'[h].buf = b /\ hd'[h].dirty = hd[h].dirty
        /\ hd'[h].reset = hd[h].reset /\ hd'[h].pc = hd[h].pc /\ hd'[h].writable = hd[h].writable
    BY <1>t, <2>1 DEF HandleSet
  <2>3. RawOrEmpty(hd[h].path)' = RawOrEmpty(hd[h].path)
    BY <2>1, <2>2 DEF RawOrEmpty
  <2>4. CASE hd[h].prepared
    BY <2>1, <2>2, <2>3, <2>4 DEF Settles, Says, b, PreparedBuf
  <2>5. CASE ~hd[h].prepared
    <3>1. b = ServeNow(hd[h].path).content /\ ServeNow(hd[h].path).err = "ok"
      BY <2>1, <2>2, <2>5 DEF Settles, b, PreparedBuf, MayPrepare
    <3>2. hd[h].path \in Names
      BY <2>1 DEF IInv, HandleInv, GoodHandle, HandleShape
    <3>3. RawOrEmpty(hd[h].path) \in Contents /\ Agent \in Contents \cup {Missing}
      BY <3>2, RawOrEmptyType, AgentType DEF IInv
    <3> QED
      BY <2>2, <2>3, <3>1, <3>2, <3>3 DEF PipelineReversible, ServeNow, Says
  <2> QED
    BY <2>4, <2>5
<1>3. ASSUME NEW op, CommitClean(h, op) PROVE Says(hd'[h], RawOrEmpty(hd[h].path)')
  <2>1. hd[h].kind = "trans" /\ hd[h].pc = "idle" /\ UNCHANGED <<dir, data>>
        /\ hd' = Settled(h, op, FALSE, "ok")
    BY <1>3 DEF CommitClean, MayRequest, Idle
  <2>2. hd'[h] = Answered(hd[h], FALSE, "ok")
    BY <1>t, <2>1 DEF Settled, Settles, ClosedHandle
  <2>3. hd'[h].path = hd[h].path /\ hd'[h].buf = hd[h].buf /\ hd'[h].dirty = hd[h].dirty
        /\ hd'[h].reset = hd[h].reset /\ hd'[h].prepared = hd[h].prepared
        /\ hd'[h].writable = hd[h].writable
    BY <1>t, <2>2 DEF HandleSet, Answered
  <2> QED
    BY <2>1, <2>3 DEF Settles, Says, RawOrEmpty
<1>4. CASE CommitWrite(h)
  <2>1. hd[h].pc # "idle" /\ dir' = dir /\ hd' = Settled(h, hd[h].pc, TRUE, "ok")
    BY <1>4 DEF CommitWrite
  <2>2. hd'[h] = Answered(hd[h], TRUE, "ok")
    BY <1>t, <2>1 DEF Settled, Settles, ClosedHandle
  <2>3. hd'[h].path = hd[h].path /\ hd'[h].buf = hd[h].buf
    BY <1>t, <2>2 DEF HandleSet, Answered
  <2>4. dir'[hd[h].path] # NoInode
    BY <2>1, SavingFacts, NamesAssumption
  <2> QED
    BY <1>4, <2>3, <2>4, WrittenFile DEF Says, RawOrEmpty
<1>5. ASSUME NEW op, NEW answer, hd[h].dirty, hd' = Settled(h, op, FALSE, answer) PROVE FALSE
  <2>1. ClosedHandle.kind = "closed" /\ Answered(hd[h], FALSE, answer).dirty = hd[h].dirty
    BY <1>t DEF Answered, ClosedHandle, HandleSet
  <2> QED
    BY <1>t, <1>5, <2>1 DEF Settled, Settles
<1>6. (\A op : ~CommitRefused(h, op)) /\ \A k : ~CommitWriteFails(h, k)
  <2>1. ASSUME NEW op, CommitRefused(h, op) PROVE FALSE
    BY <1>5, <2>1 DEF CommitRefused
  <2>2. ASSUME NEW k, CommitWriteFails(h, k) PROVE FALSE
    <3>1. hd[h].pc # "idle" /\ hd' = Settled(h, hd[h].pc, FALSE, "error")
      BY <2>2 DEF CommitWriteFails
    <3>2. hd[h].dirty
      BY <3>1, SavingFacts
    <3> QED
      BY <1>5, <3>1, <3>2
  <2> QED
    BY <2>1, <2>2
<1>7. \A op \in {"flush", "release"} : ~CommitTruncate(h, op)
  <2> SUFFICES ASSUME NEW op \in {"flush", "release"}, CommitTruncate(h, op) PROVE FALSE
    OBVIOUS
  <2> DEFINE c == PCommit(hd[h].path, hd[h].buf).content
  <2>1. PICK i : hd' = [hd EXCEPT ![h] = [hd[h] EXCEPT !.pc = op, !.ino = i, !.payload = c]]
    BY DEF CommitTruncate
  <2> HIDE DEF c
  <2> QED
    BY <1>t, <2>1 DEF HandleSet, Settles
<1>o. \A m, x, r, i : ~Settles(newTransFileHandle(m, x, r)) /\ ~Settles(LoopHandle(m, x, i))
  BY DEF newTransFileHandle, LoopHandle, ClosedHandle, Settles
<1>8. ASSUME NEW n, NEW w, NEW trunc, OpenTrans(h, n, w, trunc) \/ OpenLoop(h, n, w) PROVE FALSE
  BY <1>8, <1>t, <1>o DEF OpenTrans, OpenLoop
<1>9. ASSUME NEW n, NEW w, NEW trunc, Create(h, n, w, trunc) PROVE FALSE
  <2>1. PICK i : hd' = [hd EXCEPT ![h] = IF shouldTransformPath(n)
                                         THEN newTransFileHandle(n, w, TRUE)
                                         ELSE LoopHandle(n, w, i)]
    BY <1>9 DEF Create
  <2> QED
    BY <1>t, <1>o, <2>1
<1>10. ASSUME NEW text, LoopWrite(h, text) \/ LoopRelease(h) PROVE FALSE
  BY <1>10, <1>t DEF LoopWrite, LoopRelease, Settles, ClosedHandle
<1> QED
  BY <1>1, <1>2, <1>3, <1>4, <1>6, <1>7, <1>8, <1>9, <1>10 DEF HandleStep, AppendToEnd

(***************************************************************************)
(* A prepared handle with nothing to write answers READs with what the     *)
(* file would be served as: committing it again changes nothing            *)
(* (prepareWriteLocked and commitLocked, fs.go:202-238).                   *)
(***************************************************************************)
THEOREM CleanBuffersAgree == ASSUME Quiet, PipelineReversible PROVE Spec => []CleanBufferIsSource
<1>d. CleanBufferIsSource <=> \A h \in Handles : Settles(hd[h]) => Says(hd[h], RawOrEmpty(hd[h].path))
  BY DEF CleanBufferIsSource, Idle, Settles, Says
<1>e. CleanBufferIsSource' <=> \A h \in Handles : Settles(hd'[h]) => Says(hd'[h], RawOrEmpty(hd[h].path)')
  BY DEF CleanBufferIsSource, Idle, Settles, Says, RawOrEmpty
<1>1. Init => CleanBufferIsSource
  BY <1>d DEF Init, ClosedHandle, Settles
<1>2. ASSUME IInv, CleanBufferIsSource, [Next]_vars PROVE CleanBufferIsSource'
  <2>1. SUFFICES ASSUME NEW h \in Handles, Settles(hd'[h])
                 PROVE  Says(hd'[h], RawOrEmpty(hd[h].path)')
    BY <1>e
  <2>2. ASSUME NEW g \in Handles, HandleStep(g) PROVE Says(hd'[h], RawOrEmpty(hd[h].path)')
    <3>1. CASE g = h
      BY <1>2, <1>d, <2>1, <2>2, <3>1, OwnStepAgrees, Quiet, PipelineReversible
    <3>2. CASE g # h
      <4>1. hd'[h] = hd[h]
        BY <1>2, <2>2, <3>2, OthersKeep DEF IInv
      <4>2. RawOrEmpty(hd[h].path)' = RawOrEmpty(hd[h].path)
        BY <1>2, <2>1, <2>2, <3>2, <4>1, RawUndisturbed, Quiet DEF Settles, RawOrEmpty
      <4> QED
        BY <1>2, <1>d, <2>1, <4>1, <4>2
    <3> QED
      BY <3>1, <3>2
  <2>3. ASSUME NEW m, Crash(m) PROVE Says(hd'[h], RawOrEmpty(hd[h].path)')
    <3>1. hd'[h] = hd[h] /\ UNCHANGED <<dir, data>>
      BY <2>1, <2>3 DEF Crash, Settles, ClosedHandle
    <3> QED
      BY <1>2, <1>d, <2>1, <3>1 DEF RawOrEmpty
  <2>4. CASE UNCHANGED vars
    BY <1>2, <1>d, <2>1, <2>4 DEF vars, RawOrEmpty
  <2> QED
    BY <1>2, <2>2, <2>3, <2>4, QuietNoTreeStep, Quiet DEF Next
<1>3. Spec => []IInv
  BY IInvHolds, Quiet
<1> QED
  BY <1>1, <1>2, <1>3, PTL DEF Spec

(***************************************************************************)
(* "writes return through the inverse path" (README.md:14): saving exactly *)
(* what the mount serves at this moment leaves the file as it is, in every *)
(* reachable state of any handles, disciplined or not, if the pipeline's   *)
(* Commit undoes its Serve (fs.go:173-238).                                *)
(***************************************************************************)
LEMMA SavedAsServed == ASSUME PipelineReversible, TypeOK, HandleInv PROVE UnchangedSaveIsNoOp
<1> SUFFICES ASSUME NEW h \in Handles, Idle(h),
                    ServeNow(hd[h].path) = [err |-> "ok", content |-> hd[h].buf]
             PROVE  PCommit(hd[h].path, hd[h].buf) = [err |-> "ok", content |-> RawOrEmpty(hd[h].path)]
  BY DEF UnchangedSaveIsNoOp
<1> DEFINE n == hd[h].path
<1>1. n \in Names
  BY DEF TypeOK, HandleInv, GoodHandle, HandleShape, Idle
<1>2. RawOrEmpty(n) \in Contents /\ Agent \in Contents \cup {Missing}
  BY <1>1, ContentAssumption DEF TypeOK, RawOrEmpty, Agent, File
<1> HIDE DEF n
<1>3. PServe(n, RawOrEmpty(n), Agent).err = "ok" /\ PServe(n, RawOrEmpty(n), Agent).content = hd[h].buf
  BY DEF ServeNow, n
<1> QED
  BY <1>1, <1>2, <1>3 DEF PipelineReversible, n

-----------------------------------------------------------------------------
(***************************************************************************)
(* TransFile implements OverlayStore under the discipline Quiet: the       *)
(* initial states map to initial states, and each step of a handle maps to *)
(* the step of the store named for it, or is not seen.                     *)
(***************************************************************************)
\* The two modules count bytes alike.
LEMMA SameEmpty == Store!Empty = Empty
  BY DEF Empty, Store!Empty

LEMMA SameSplice == \A b, off, c : Store!Splice(b, off, c) = Splice(b, off, c)
  BY DEF Splice, Store!Splice, Zero, Store!Zero

LEMMA SameFirst == \A s, k : Store!FirstBytes(s, k) = FirstBytes(s, k)
  BY DEF FirstBytes, Store!FirstBytes

(***************************************************************************)
(* The records of OverlayStore: a session is known by its five fields.     *)
(***************************************************************************)
SessionSet ==
  [state : {"closed", "clean", "edited", "saving"}, name : Names \cup {NoName},
   held : BOOLEAN, view : Views, told : BOOLEAN]

IsSession(s, state, name, held, view, told) ==
  s.state = state /\ s.name = name /\ (s.held <=> held) /\ s.view = view /\ (s.told <=> told)

LEMMA OpenedRecord ==
  ASSUME NEW n \in Names, NEW q \in SessionSet, IsSession(q, "clean", n, FALSE, Empty, FALSE)
  PROVE  q = Store!Opened(n)
<1>1. Store!Closed \in SessionSet /\ IsSession(Store!Closed, "closed", NoName, FALSE, Empty, FALSE)
  BY SameEmpty, ContentAssumption DEF Store!Closed, SessionSet, IsSession
<1>2. Store!Opened(n) \in SessionSet
  BY <1>1 DEF Store!Opened, SessionSet
<1>3. IsSession(Store!Opened(n), "clean", n, FALSE, Empty, FALSE)
  BY <1>1 DEF Store!Opened, SessionSet, IsSession
<1> QED
  BY <1>2, <1>3 DEF SessionSet, IsSession

LEMMA FetchedRecord ==
  ASSUME NEW s \in SessionSet, NEW v \in Views,
         NEW q \in SessionSet, IsSession(q, s.state, s.name, TRUE, v, s.told)
  PROVE  q = [s EXCEPT !.held = TRUE, !.view = v]
<1>1. [s EXCEPT !.held = TRUE, !.view = v] \in SessionSet
  BY DEF SessionSet
<1> QED
  BY <1>1 DEF SessionSet, IsSession

LEMMA EditedRecord ==
  ASSUME NEW s \in SessionSet, NEW v \in Views,
         NEW q \in SessionSet, IsSession(q, "edited", s.name, TRUE, v, FALSE)
  PROVE  q = [s EXCEPT !.state = "edited", !.held = TRUE, !.view = v, !.told = FALSE]
<1>1. [s EXCEPT !.state = "edited", !.held = TRUE, !.view = v, !.told = FALSE] \in SessionSet
  BY DEF SessionSet
<1> QED
  BY <1>1 DEF SessionSet, IsSession

LEMMA SavedRecord ==
  ASSUME NEW s \in SessionSet,
         NEW q \in SessionSet, IsSession(q, "clean", s.name, s.held, s.view, FALSE)
  PROVE  q = [s EXCEPT !.state = "clean", !.told = FALSE]
<1>1. [s EXCEPT !.state = "clean", !.told = FALSE] \in SessionSet
  BY DEF SessionSet
<1> QED
  BY <1>1 DEF SessionSet, IsSession

LEMMA TornRecord ==
  ASSUME NEW s \in SessionSet,
         NEW q \in SessionSet, IsSession(q, "edited", s.name, s.held, s.view, TRUE)
  PROVE  q = [s EXCEPT !.state = "edited", !.told = TRUE]
<1>1. [s EXCEPT !.state = "edited", !.told = TRUE] \in SessionSet
  BY DEF SessionSet
<1> QED
  BY <1>1 DEF SessionSet, IsSession

LEMMA ToldRecord ==
  ASSUME NEW s \in SessionSet,
         NEW q \in SessionSet, IsSession(q, s.state, s.name, s.held, s.view, TRUE)
  PROVE  q = [s EXCEPT !.told = TRUE]
  BY DEF SessionSet, IsSession

LEMMA SavingRecord ==
  ASSUME NEW s \in SessionSet,
         NEW q \in SessionSet, IsSession(q, "saving", s.name, s.held, s.view, s.told)
  PROVE  q = [s EXCEPT !.state = "saving"]
  BY DEF SessionSet, IsSession

LEMMA SameRecord ==
  ASSUME NEW s \in SessionSet,
         NEW q \in SessionSet, IsSession(q, s.state, s.name, s.held, s.view, s.told)
  PROVE  q = s
  BY DEF SessionSet, IsSession

(***************************************************************************)
(* The sessions of the handles.                                            *)
(***************************************************************************)
LEMMA SessionType ==
  ASSUME NEW r \in HandleSet
  PROVE  SessionOf(r) \in SessionSet
<1>1. (r.dirty /\ r.acked = "error") \in BOOLEAN /\ r.prepared \in BOOLEAN
  BY DEF HandleSet
<1> QED
  BY <1>1, ContentAssumption DEF SessionSet, SessionOf, StateOf, HandleSet

Shows(s, r) ==
  /\ r.pc # "idle" => s.state = "saving"
  /\ r.pc = "idle" /\ r.dirty => s.state = "edited"
  /\ r.pc = "idle" /\ ~r.dirty => s.state = "clean"
  /\ s.name = r.path /\ s.view = r.buf
  /\ s.held <=> r.prepared
  /\ s.told <=> r.dirty /\ r.acked = "error"

LEMMA SessionShows == ASSUME NEW r \in HandleSet, r.kind = "trans" PROVE Shows(SessionOf(r), r)
<1> DEFINE s == SessionOf(r)
<1>1. /\ s.state = StateOf(r) /\ s.name = r.path /\ s.view = r.buf
      /\ s.held = r.prepared /\ s.told = (r.dirty /\ r.acked = "error")
  BY DEF SessionOf
<1> HIDE DEF s
<1>2. Shows(s, r)
  BY <1>1 DEF Shows, StateOf
<1> QED
  BY <1>2 DEF s

\* What a step of h makes of the sessions.
LEMMA SessionsStep ==
  ASSUME IInv, NEW h \in Handles, HandleStep(h)
  PROVE  /\ Sessions' = [Sessions EXCEPT ![h] = SessionOf(hd'[h])]
         /\ Sessions[h] = SessionOf(hd[h]) /\ Sessions'[h] = SessionOf(hd'[h])
         /\ Sessions[h] \in SessionSet /\ SessionOf(hd'[h]) \in SessionSet
<1>1. Sessions' = [g \in Handles |-> SessionOf(hd'[g])]
  BY DEF Sessions, SessionOf, StateOf
<1>2. \A g \in Handles : g # h => SessionOf(hd'[g]) = SessionOf(hd[g])
  BY OthersKeep DEF IInv
<1>3. hd'[h] \in HandleSet /\ hd[h] \in HandleSet
  BY HandleStepInv DEF IInv, TypeOK
<1> QED
  BY <1>1, <1>2, <1>3, SessionType DEF Sessions

LEMMA SessionNow ==
  ASSUME IInv, NEW h \in Handles, HandleStep(h), hd[h].kind = "trans"
  PROVE  Shows(Sessions[h], hd[h])
<1>1. hd[h] \in HandleSet
  BY DEF IInv, TypeOK
<1> QED
  BY <1>1, SessionShows, SessionsStep

LEMMA SessionThen ==
  ASSUME IInv, NEW h \in Handles, HandleStep(h), hd'[h].kind = "trans"
  PROVE  Shows(SessionOf(hd'[h]), hd'[h])
<1>1. hd'[h] \in HandleSet
  BY HandleStepInv DEF IInv, TypeOK
<1> QED
  BY <1>1, SessionShows

LEMMA SameSessions ==
  ASSUME IInv, NEW h \in Handles, HandleStep(h), SessionOf(hd'[h]) = SessionOf(hd[h])
  PROVE  Sessions' = Sessions
  BY SessionsStep DEF Sessions

LEMMA ClosedSession == SessionOf(ClosedHandle) = Store!Closed
  BY SameEmpty DEF SessionOf, StateOf, ClosedHandle, Store!Closed

LEMMA OpenedSession ==
  ASSUME NEW n \in Names, NEW w, NEW reset,
         SessionOf(newTransFileHandle(n, w, reset)) \in SessionSet
  PROVE  SessionOf(newTransFileHandle(n, w, reset)) = Store!Opened(n)
<1> DEFINE r == newTransFileHandle(n, w, reset)
<1>1. r.kind = "trans" /\ r.path = n /\ r.pc = "idle" /\ r.dirty = FALSE /\ r.prepared = FALSE
      /\ r.buf = Empty
  BY DEF newTransFileHandle, ClosedHandle
<1> HIDE DEF r
<1>2. IsSession(SessionOf(r), "clean", n, FALSE, Empty, FALSE)
  BY <1>1 DEF SessionOf, StateOf, IsSession
<1> QED
  BY <1>2, OpenedRecord DEF r

LEMMA UnseenSession ==
  ASSUME NEW r \in HandleSet, HandleShape(r), r.kind # "trans"
  PROVE  SessionOf(r) = Store!Closed
<1>1. ~r.prepared /\ ~r.dirty /\ r.prepared \in BOOLEAN /\ r.dirty \in BOOLEAN
  BY DEF HandleShape, HandleSet
<1> QED
  BY <1>1, SameEmpty DEF SessionOf, StateOf, Store!Closed

(***************************************************************************)
(* What the store serves is what the handle would read.                    *)
(***************************************************************************)
LEMMA ServedNow ==
  ASSUME Quiet, IInv, NEW n \in Transformed
  PROVE  Store!Served(n) = ServeNow(n)
<1>1. RawOrEmpty(n) = IF StoreOf[n] = Missing THEN Empty ELSE StoreOf[n]
  BY StoreLookup DEF IInv
<1>2. AgentName \in Transformed <=> AgentName \in Names
  BY DEF Quiet, Transformed, shouldTransformPath
<1>3. Agent = IF AgentName \in Transformed THEN StoreOf[AgentName] ELSE Missing
  BY <1>2, StoreLookup DEF Agent, IInv
<1> QED
  BY <1>1, <1>3, SameEmpty DEF Store!Served, ServeNow

LEMMA StartsHere ==
  ASSUME Quiet, IInv, NEW h \in Handles, HandleStep(h), hd[h].kind = "trans", MayPrepare(h)
  PROVE  PreparedBuf(h) \in Store!Starts(h)
<1>1. hd[h].path \in Transformed
  BY DEF IInv, QuietInv, TransPaths
<1>2. Store!Served(hd[h].path) = ServeNow(hd[h].path)
  BY <1>1, ServedNow
<1>3. (Sessions[h].held <=> hd[h].prepared) /\ Sessions[h].view = hd[h].buf
      /\ Sessions[h].name = hd[h].path
  BY SessionNow DEF Shows
<1> QED
  BY <1>2, <1>3, SameEmpty DEF Store!Starts, PreparedBuf, MayPrepare

(***************************************************************************)
(* The steps of a handle, one by one.                                      *)
(***************************************************************************)
LEMMA OpenMaps ==
  ASSUME Quiet, IInv, NEW h \in Handles, HandleStep(h), hd[h].kind = "closed",
         NEW n \in Transformed, NEW w, NEW reset, hd'[h] = newTransFileHandle(n, w, reset),
         \/ StoreOf[n] # Missing /\ StoreOf' = StoreOf
         \/ StoreOf' = [StoreOf EXCEPT ![n] = Empty]
  PROVE  Store!SessionStep(h)
<1>s. SessionOf(hd[h]).state = "closed"
  BY DEF SessionOf, StateOf
<1>1. Sessions[h].state = "closed"
  BY <1>s, SessionsStep
<1>2. Sessions' = [Sessions EXCEPT ![h] = Store!Opened(n)]
  BY SessionsStep, OpenedSession DEF Transformed
<1>3. Store!Open(h, n)
  BY <1>1, <1>2, SameEmpty DEF Store!Open, Store!In
<1> QED
  BY <1>3 DEF Store!SessionStep

LEMMA OpenTransMaps ==
  ASSUME Quiet, IInv, NEW h \in Handles, HandleStep(h),
         NEW n \in Names, NEW w \in BOOLEAN, NEW trunc \in BOOLEAN, OpenTrans(h, n, w, trunc)
  PROVE  Store!SessionStep(h)
<1>1. hd[h].kind = "closed" /\ n \in Transformed /\ dir[n] # NoInode /\ UNCHANGED <<dir, data>>
      /\ hd'[h] = newTransFileHandle(n, w, trunc)
  BY DEF OpenTrans, Transformed, IInv, TypeOK
<1>2. StoreOf[n] # Missing /\ StoreOf' = StoreOf
  BY <1>1, StoreLookup, SameStore DEF IInv
<1> QED
  BY <1>1, <1>2, OpenMaps

LEMMA CreateMaps ==
  ASSUME Quiet, IInv, NEW h \in Handles, HandleStep(h),
         NEW n \in Names, NEW w \in BOOLEAN, NEW trunc \in BOOLEAN, Create(h, n, w, trunc)
  PROVE  Store!SessionStep(h) \/ (StoreOf' = StoreOf /\ Sessions' = Sessions)
<1>1. PICK i : hd' = [hd EXCEPT ![h] = IF shouldTransformPath(n) THEN newTransFileHandle(n, w, TRUE)
                                                                 ELSE LoopHandle(n, w, i)]
  BY DEF Create
<1>2. hd[h].kind = "closed"
  BY DEF Create
<1>3. CASE n \in Transformed
  <2>1. hd'[h] = newTransFileHandle(n, w, TRUE)
    BY <1>1, <1>3 DEF Transformed, IInv, TypeOK
  <2>2. \/ StoreOf[n] # Missing /\ StoreOf' = StoreOf
        \/ StoreOf' = [StoreOf EXCEPT ![n] = Empty]
    BY <1>3, CreateEffect
  <2> QED
    BY <1>2, <1>3, <2>1, <2>2, OpenMaps
<1>4. CASE n \notin Transformed
  <2>1. hd'[h] = LoopHandle(n, w, i) /\ StoreOf' = StoreOf
    BY <1>1, <1>4, CreateEffect DEF Transformed, IInv, TypeOK
  <2>2. hd'[h].kind # "trans"
    BY <2>1 DEF LoopHandle, ClosedHandle
  <2>3. GoodHandle(hd[h]) /\ GoodHandle(hd'[h])
    BY HandleStepInv DEF IInv, HandleInv, GoodHandle
  <2> QED
    BY <1>2, <2>1, <2>2, <2>3, UnseenSession, SameSessions DEF GoodHandle
<1> QED
  BY <1>3, <1>4

LEMMA WriteMaps ==
  ASSUME Quiet, IInv, NEW h \in Handles, HandleStep(h),
         NEW off \in Nat, NEW chunk \in Chunks, Write(h, off, chunk)
  PROVE  Store!SessionStep(h)
<1> DEFINE old == PreparedBuf(h)
           b == Splice(old, off, chunk)
<1>1. /\ hd[h].kind = "trans" /\ hd[h].pc = "idle" /\ MayPrepare(h) /\ UNCHANGED <<dir, data>>
      /\ b \in Views
      /\ hd' = [hd EXCEPT ![h] = [hd[h] EXCEPT !.prepared = TRUE, !.dirty = TRUE, !.buf = b,
                                               !.acked = "none"]]
  BY DEF Write, Idle
<1>2. hd[h].path \in Names
  BY <1>1 DEF IInv, HandleInv, GoodHandle, HandleShape
<1>3. Len(old) \in Nat /\ Len(chunk) \in Nat
  BY <1>1, <1>2, PreparedBufType, BytesAssumption DEF IInv, IsBytes
<1>4. off \in 0..Len(b)
  BY <1>3, SpliceOffset
<1>5. old \in Store!Starts(h)
  BY <1>1, StartsHere
<1> HIDE DEF old
<1>6. Store!IsEdit(old, b)
  BY <1>4, SameSplice DEF Store!IsEdit
<1> HIDE DEF b
<1>7. /\ hd'[h].kind = "trans" /\ hd'[h].path = hd[h].path /\ hd'[h].pc = "idle"
      /\ hd'[h].prepared = TRUE /\ hd'[h].dirty = TRUE /\ hd'[h].buf = b /\ hd'[h].acked = "none"
  BY <1>1 DEF IInv, TypeOK, HandleSet
<1>8. IsSession(SessionOf(hd'[h]), "edited", Sessions[h].name, TRUE, b, FALSE)
  BY <1>1, <1>7, SessionNow, SessionThen DEF Shows, IsSession
<1>9. Sessions[h].state \in {"clean", "edited"}
  BY <1>1, SessionNow, SessionThen DEF Shows, IsSession
<1>10. Sessions' = [Sessions EXCEPT ![h] = [Sessions[h] EXCEPT !.state = "edited", !.held = TRUE,
                                                              !.view = b, !.told = FALSE]]
       /\ Sessions'[h].view = b
  <2>1. SessionOf(hd'[h]).view = b
    BY <1>8 DEF IsSession
  <2> QED
    BY <1>1, <1>8, <2>1, EditedRecord, SessionsStep
<1>11. StoreOf' = StoreOf
  BY <1>1, SameStore
<1>12. Store!Edit(h)
  BY <1>5, <1>6, <1>9, <1>10, <1>11 DEF Store!Edit, Store!In
<1> QED
  BY <1>12 DEF Store!SessionStep

LEMMA AppendMaps ==
  ASSUME Quiet, IInv, NEW h \in Handles, HandleStep(h), NEW chunk \in Chunks, AppendToEnd(h, chunk)
  PROVE  Store!SessionStep(h)
<1>1. hd[h].path \in Names /\ hd[h].buf \in Views
  BY DEF AppendToEnd, Idle, IInv, HandleInv, GoodHandle, HandleShape, HandleSet
<1>2. Len(RawOrEmpty(hd[h].path)) \in Nat /\ Len(hd[h].buf) \in Nat
  BY <1>1, RawOrEmptyType, BytesAssumption DEF IInv, IsBytes
<1>3. PICK off \in {Len(RawOrEmpty(hd[h].path)), LongerLen(RawOrEmpty(hd[h].path), hd[h].buf)} :
        Write(h, off, chunk)
  BY DEF AppendToEnd
<1>4. off \in Nat
  BY <1>2, <1>3 DEF LongerLen
<1> QED
  BY <1>3, <1>4, WriteMaps

LEMMA WriteTooFarMaps ==
  ASSUME Quiet, IInv, NEW h \in Handles, HandleStep(h), WriteTooFar(h)
  PROVE  Store!SessionStep(h)
<1> DEFINE b == PreparedBuf(h)
<1>1. /\ hd[h].kind = "trans" /\ hd[h].pc = "idle" /\ MayPrepare(h) /\ UNCHANGED <<dir, data>>
      /\ hd' = [hd EXCEPT ![h] = [hd[h] EXCEPT !.prepared = TRUE, !.buf = b]]
  BY DEF WriteTooFar, Idle
<1>2. b \in Store!Starts(h)
  BY <1>1, StartsHere
<1>v. b \in Views
  BY <1>1, PreparedBufType DEF IInv, HandleInv, GoodHandle, HandleShape
<1> HIDE DEF b
<1>3. /\ hd'[h].kind = "trans" /\ hd'[h].path = hd[h].path /\ hd'[h].pc = "idle"
      /\ hd'[h].prepared /\ (hd'[h].dirty <=> hd[h].dirty) /\ hd'[h].buf = b
      /\ hd'[h].acked = hd[h].acked
  BY <1>1 DEF IInv, TypeOK, HandleSet
<1>t. Shows(Sessions[h], hd[h]) /\ Shows(SessionOf(hd'[h]), hd'[h])
  BY <1>1, <1>3, SessionNow, SessionThen
<1>4. IsSession(SessionOf(hd'[h]), Sessions[h].state, Sessions[h].name, TRUE, b, Sessions[h].told)
  <2>1. CASE hd[h].dirty
    BY <1>1, <1>3, <1>t, <2>1 DEF Shows, IsSession
  <2>2. CASE ~hd[h].dirty
    BY <1>1, <1>3, <1>t, <2>2 DEF Shows, IsSession
  <2> QED
    BY <2>1, <2>2
<1>5. Sessions[h].state \in {"clean", "edited"}
  BY <1>1, SessionNow, SessionThen DEF Shows, IsSession
<1>6. Sessions' = [Sessions EXCEPT ![h] = [Sessions[h] EXCEPT !.held = TRUE, !.view = b]]
  BY <1>v, <1>4, FetchedRecord, SessionsStep
<1>7. StoreOf' = StoreOf
  BY <1>1, SameStore
<1>8. Store!Fetch(h)
  BY <1>2, <1>5, <1>6, <1>7 DEF Store!Fetch, Store!In
<1> QED
  BY <1>8 DEF Store!SessionStep

(***************************************************************************)
(* The requests that end a save, or find nothing to save.                  *)
(***************************************************************************)
LEMMA AnsweredFields ==
  ASSUME IInv, NEW h \in Handles, NEW wrote \in BOOLEAN, NEW answer \in {"ok", "error"}
  PROVE  /\ Answered(hd[h], wrote, answer).kind = hd[h].kind
         /\ Answered(hd[h], wrote, answer).path = hd[h].path
         /\ Answered(hd[h], wrote, answer).pc = "idle"
         /\ Answered(hd[h], wrote, answer).prepared <=> hd[h].prepared
         /\ Answered(hd[h], wrote, answer).dirty <=> hd[h].dirty /\ ~wrote
         /\ Answered(hd[h], wrote, answer).buf = hd[h].buf
         /\ Answered(hd[h], wrote, answer).acked = answer
  BY DEF IInv, TypeOK, HandleSet, Answered

LEMMA SettledCases ==
  ASSUME IInv, NEW h \in Handles, HandleStep(h), NEW op \in {"flush", "release"},
         NEW wrote \in BOOLEAN, NEW answer \in {"ok", "error"}, hd' = Settled(h, op, wrote, answer)
  PROVE  \/ op = "release" /\ Sessions' = [Sessions EXCEPT ![h] = Store!Closed]
         \/ op = "flush" /\ hd'[h] = Answered(hd[h], wrote, answer)
<1>1. hd'[h] = IF op = "release" THEN ClosedHandle ELSE Answered(hd[h], wrote, answer)
  BY DEF Settled, IInv, TypeOK
<1> QED
  BY <1>1, SessionsStep, ClosedSession

LEMMA CommitCleanMaps ==
  ASSUME Quiet, IInv, NEW h \in Handles, HandleStep(h), NEW op \in {"flush", "release"},
         CommitClean(h, op)
  PROVE  Store!SessionStep(h) \/ (StoreOf' = StoreOf /\ Sessions' = Sessions)
<1>1. hd[h].kind = "trans" /\ hd[h].pc = "idle" /\ ~hd[h].dirty /\ StoreOf' = StoreOf
      /\ hd' = Settled(h, op, FALSE, "ok")
  BY SameStore DEF CommitClean, MayRequest, Idle
<1>2. CASE Sessions' = [Sessions EXCEPT ![h] = Store!Closed]
  <2>1. Sessions[h].state = "clean"
    BY <1>1, SessionNow, SessionThen DEF Shows, IsSession
  <2>2. Store!Close(h)
    BY <1>1, <1>2, <2>1 DEF Store!Close, Store!In
  <2> QED
    BY <2>2 DEF Store!SessionStep
<1>3. CASE hd'[h] = Answered(hd[h], FALSE, "ok")
  <2> DEFINE answered == Answered(hd[h], FALSE, "ok")
  <2>r. /\ answered.kind = hd[h].kind /\ answered.path = hd[h].path /\ answered.pc = "idle"
        /\ (answered.prepared <=> hd[h].prepared)
        /\ (answered.dirty <=> hd[h].dirty /\ ~FALSE) /\ answered.buf = hd[h].buf
    <3>1. FALSE \in BOOLEAN /\ "ok" \in {"ok", "error"}
      OBVIOUS
    <3> QED
      BY <3>1, AnsweredFields
  <2> HIDE DEF answered
  <2>q. hd'[h] = answered
    BY <1>3 DEF answered
  <2>a. /\ hd'[h].kind = "trans" /\ hd'[h].path = hd[h].path /\ hd'[h].pc = "idle"
        /\ (hd'[h].prepared <=> hd[h].prepared) /\ ~hd'[h].dirty /\ hd'[h].buf = hd[h].buf
    BY <1>1, <2>q, <2>r
  <2>1. IsSession(SessionOf(hd'[h]), Sessions[h].state, Sessions[h].name, Sessions[h].held,
                  Sessions[h].view, Sessions[h].told)
    BY <1>1, <2>a, SessionNow, SessionThen DEF Shows, IsSession
  <2> QED
    BY <1>1, <2>1, SessionsStep, SameRecord, SameSessions
<1> QED
  BY <1>1, <1>2, <1>3, SettledCases

LEMMA CommitRefusedMaps ==
  ASSUME Quiet, IInv, NEW h \in Handles, HandleStep(h), NEW op \in {"flush", "release"},
         CommitRefused(h, op)
  PROVE  Store!SessionStep(h)
<1>1. hd[h].kind = "trans" /\ hd[h].pc = "idle" /\ hd[h].dirty /\ StoreOf' = StoreOf
      /\ hd' = Settled(h, op, FALSE, "error") /\ (op = "release" => hd[h].acked # "none")
  BY SameStore DEF CommitRefused, MayRequest, Idle
<1>2. Sessions[h].state = "edited"
  BY <1>1, SessionNow, SessionThen DEF Shows, IsSession
<1>3. CASE op = "release" /\ Sessions' = [Sessions EXCEPT ![h] = Store!Closed]
  <2>1. hd[h].acked = "error"
    BY <1>1, <1>3 DEF IInv, HandleInv, GoodHandle, AckedIsSaved, HandleSet
  <2>2. Sessions[h].told
    BY <1>1, <2>1, SessionNow DEF Shows
  <2>3. Store!Close(h)
    BY <1>1, <1>2, <1>3, <2>2 DEF Store!Close, Store!In
  <2> QED
    BY <2>3 DEF Store!SessionStep
<1>4. CASE hd'[h] = Answered(hd[h], FALSE, "error")
  <2>a. /\ hd'[h].kind = "trans" /\ hd'[h].path = hd[h].path /\ hd'[h].pc = "idle"
        /\ (hd'[h].prepared <=> hd[h].prepared) /\ hd'[h].dirty /\ hd'[h].buf = hd[h].buf
        /\ hd'[h].acked = "error"
    BY <1>1, <1>4, AnsweredFields
  <2>1. IsSession(SessionOf(hd'[h]), Sessions[h].state, Sessions[h].name, Sessions[h].held,
                  Sessions[h].view, TRUE)
    BY <1>1, <2>a, SessionNow, SessionThen DEF Shows, IsSession
  <2>2. Sessions' = [Sessions EXCEPT ![h] = [Sessions[h] EXCEPT !.told = TRUE]]
    BY <2>1, SessionsStep, ToldRecord
  <2>3. Store!Refuse(h)
    BY <1>1, <1>2, <2>2 DEF Store!Refuse, Store!In
  <2> QED
    BY <2>3 DEF Store!SessionStep
<1> QED
  BY <1>1, <1>3, <1>4, SettledCases

(***************************************************************************)
(* os.WriteFile in its two system calls, complete or broken off.           *)
(***************************************************************************)
LEMMA NewIsCommit ==
  ASSUME IInv, NEW h \in Handles, HandleStep(h), hd[h].kind = "trans"
  PROVE  Store!New(h) = PCommit(hd[h].path, hd[h].buf)
<1>1. Sessions[h].name = hd[h].path /\ Sessions[h].view = hd[h].buf
  BY SessionNow DEF Shows
<1> QED
  BY <1>1 DEF Store!New

LEMMA CommitTruncateMaps ==
  ASSUME Quiet, IInv, NEW h \in Handles, HandleStep(h), NEW op \in {"flush", "release"},
         CommitTruncate(h, op)
  PROVE  Store!SessionStep(h)
<1>1. hd[h].kind = "trans" /\ hd[h].pc = "idle" /\ hd[h].dirty
      /\ PCommit(hd[h].path, hd[h].buf).err = "ok"
      /\ StoreOf' = [StoreOf EXCEPT ![hd[h].path] = Empty]
  BY TruncateEffect
<1> DEFINE c == PCommit(hd[h].path, hd[h].buf).content
<1>2. PICK i : hd' = [hd EXCEPT ![h] = [hd[h] EXCEPT !.pc = op, !.ino = i, !.payload = c]]
  BY DEF CommitTruncate
<1> HIDE DEF c
<1>3. /\ hd'[h].kind = "trans" /\ hd'[h].path = hd[h].path /\ hd'[h].pc = op
      /\ (hd'[h].prepared <=> hd[h].prepared) /\ hd'[h].dirty /\ hd'[h].buf = hd[h].buf
      /\ hd'[h].acked = hd[h].acked
  BY <1>1, <1>2 DEF IInv, TypeOK, HandleSet
<1>4. Sessions[h].state = "edited"
  BY <1>1, SessionNow DEF Shows
<1>5. IsSession(SessionOf(hd'[h]), "saving", Sessions[h].name, Sessions[h].held, Sessions[h].view,
                Sessions[h].told)
  BY <1>1, <1>3, SessionNow, SessionThen DEF Shows, IsSession
<1>6. Sessions' = [Sessions EXCEPT ![h] = [Sessions[h] EXCEPT !.state = "saving"]]
  BY <1>5, SessionsStep, SavingRecord
<1>7. Store!New(h).err = "ok" /\ StoreOf' = [StoreOf EXCEPT ![Sessions[h].name] = Store!Empty]
  BY <1>1, NewIsCommit, SessionNow, SameEmpty DEF Shows
<1>8. Store!BeginSave(h)
  BY <1>4, <1>6, <1>7 DEF Store!BeginSave, Store!In
<1> QED
  BY <1>8 DEF Store!SessionStep

LEMMA CommitWriteMaps ==
  ASSUME Quiet, IInv, NEW h \in Handles, HandleStep(h), CommitWrite(h)
  PROVE  Store!SessionStep(h)
<1>1. hd[h].kind = "trans" /\ hd[h].pc \in {"flush", "release"}
      /\ PCommit(hd[h].path, hd[h].buf).content = hd[h].payload
  BY SavingFacts DEF CommitWrite
<1>2. StoreOf' = [StoreOf EXCEPT ![hd[h].path] = hd[h].payload]
  BY SavingFacts, WriteEffect DEF CommitWrite
<1>3. StoreOf' = [StoreOf EXCEPT ![Sessions[h].name] = Store!New(h).content]
  BY <1>1, <1>2, NewIsCommit, SessionNow DEF Shows
<1>4. Sessions[h].state = "saving"
  BY <1>1, SessionNow DEF Shows
<1>5. CASE Sessions' = [Sessions EXCEPT ![h] = Store!Closed]
  <2>1. Store!EndSave(h)
    BY <1>3, <1>4, <1>5 DEF Store!EndSave, Store!In
  <2> QED
    BY <2>1 DEF Store!SessionStep
<1>6. CASE hd'[h] = Answered(hd[h], TRUE, "ok")
  <2>1. /\ hd'[h].kind = "trans" /\ hd'[h].path = hd[h].path /\ hd'[h].pc = "idle"
        /\ (hd'[h].prepared <=> hd[h].prepared) /\ ~hd'[h].dirty /\ hd'[h].buf = hd[h].buf
    BY <1>1, <1>6, AnsweredFields
  <2>2. IsSession(SessionOf(hd'[h]), "clean", Sessions[h].name, Sessions[h].held,
                  Sessions[h].view, FALSE)
    BY <1>1, <2>1, SessionNow, SessionThen DEF Shows, IsSession
  <2>3. Sessions' = [Sessions EXCEPT ![h] = [Sessions[h] EXCEPT !.state = "clean", !.told = FALSE]]
    BY <2>2, SessionsStep, SavedRecord
  <2>4. Store!EndSave(h)
    BY <1>3, <1>4, <2>3 DEF Store!EndSave, Store!In
  <2> QED
    BY <2>4 DEF Store!SessionStep
<1> QED
  BY <1>1, <1>5, <1>6, SettledCases DEF CommitWrite

LEMMA CommitWriteFailsMaps ==
  ASSUME Quiet, IInv, NEW h \in Handles, HandleStep(h), NEW k \in 0..Len(hd[h].payload),
         CommitWriteFails(h, k)
  PROVE  Store!SessionStep(h)
<1>1. hd[h].kind = "trans" /\ hd[h].pc \in {"flush", "release"} /\ hd[h].dirty
      /\ PCommit(hd[h].path, hd[h].buf).content = hd[h].payload /\ hd[h].payload \in Contents
  BY SavingFacts DEF CommitWriteFails
<1>2. FirstBytes(hd[h].payload, k) \in Contents
  BY <1>1, ContentAssumption
<1>3. StoreOf' = [StoreOf EXCEPT ![hd[h].path] = FirstBytes(hd[h].payload, k)]
  BY <1>2, WriteEffect DEF CommitWriteFails
<1>4. k \in 0..Len(Store!New(h).content)
      /\ StoreOf' = [StoreOf EXCEPT ![Sessions[h].name] = Store!FirstBytes(Store!New(h).content, k)]
  BY <1>1, <1>3, NewIsCommit, SessionNow, SameFirst DEF Shows
<1>5. Sessions[h].state = "saving"
  BY <1>1, SessionNow DEF Shows
<1>6. CASE hd[h].pc = "release" /\ Sessions' = [Sessions EXCEPT ![h] = Store!Closed]
  <2>1. hd[h].acked = "error"
    BY <1>6 DEF IInv, HandleInv, GoodHandle, HandleShape
  <2>2. Sessions[h].told
    BY <1>1, <2>1, SessionNow DEF Shows
  <2>3. Store!Tear(h)
    BY <1>4, <1>5, <1>6, <2>2 DEF Store!Tear, Store!In
  <2> QED
    BY <2>3 DEF Store!SessionStep
<1>7. CASE hd'[h] = Answered(hd[h], FALSE, "error")
  <2>1. /\ hd'[h].kind = "trans" /\ hd'[h].path = hd[h].path /\ hd'[h].pc = "idle"
        /\ (hd'[h].prepared <=> hd[h].prepared) /\ hd'[h].dirty /\ hd'[h].buf = hd[h].buf
        /\ hd'[h].acked = "error"
    BY <1>1, <1>7, AnsweredFields
  <2>2. IsSession(SessionOf(hd'[h]), "edited", Sessions[h].name, Sessions[h].held,
                  Sessions[h].view, TRUE)
    BY <1>1, <2>1, SessionNow, SessionThen DEF Shows, IsSession
  <2>3. Sessions' = [Sessions EXCEPT ![h] = [Sessions[h] EXCEPT !.state = "edited", !.told = TRUE]]
    BY <2>2, SessionsStep, TornRecord
  <2>4. Store!Tear(h)
    BY <1>4, <1>5, <2>3 DEF Store!Tear, Store!In
  <2> QED
    BY <2>4 DEF Store!SessionStep
<1> QED
  BY <1>1, <1>6, <1>7, SettledCases DEF CommitWriteFails

(***************************************************************************)
(* Loopback handles are not seen, and a crash is a crash.                  *)
(***************************************************************************)
LEMMA LoopMaps ==
  ASSUME Quiet, IInv, NEW h \in Handles, HandleStep(h), NEW n, NEW w, NEW text,
         OpenLoop(h, n, w) \/ LoopWrite(h, text) \/ LoopRelease(h)
  PROVE  StoreOf' = StoreOf /\ Sessions' = Sessions
<1>1. GoodHandle(hd[h]) /\ GoodHandle(hd'[h])
  BY HandleStepInv DEF IInv, HandleInv, GoodHandle
<1>2. hd[h].kind # "trans"
  BY DEF OpenLoop, LoopWrite, LoopRelease
<1>3. hd'[h].kind # "trans"
  <2>1. CASE OpenLoop(h, n, w)
    <3>1. hd'[h] = LoopHandle(n, w, dir[n])
      BY <2>1 DEF OpenLoop, IInv, TypeOK
    <3> QED
      BY <3>1 DEF LoopHandle, ClosedHandle
  <2>2. CASE LoopWrite(h, text)
    BY <1>2, <2>2 DEF LoopWrite
  <2>3. CASE LoopRelease(h)
    BY <2>3 DEF LoopRelease, ClosedHandle, IInv, TypeOK
  <2> QED
    BY <2>1, <2>2, <2>3
<1>4. StoreOf' = StoreOf
  BY SameStore, LoopEffect DEF OpenLoop, LoopRelease
<1> QED
  BY <1>1, <1>2, <1>3, <1>4, UnseenSession, SameSessions DEF GoodHandle

LEMMA CrashMaps ==
  ASSUME NEW m \in Mounts, Crash(m)
  PROVE  Store!Crash(m)
<1>1. StoreOf' = StoreOf
  BY SameStore DEF Crash
<1>2. Sessions' = [h \in Handles |-> SessionOf(hd'[h])]
  BY DEF Sessions, SessionOf, StateOf
<1>3. \A h \in Handles : SessionOf(hd'[h]) = IF MountOf[h] = m THEN Store!Closed ELSE Sessions[h]
  BY ClosedSession DEF Crash, Sessions
<1> QED
  BY <1>1, <1>2, <1>3 DEF Store!Crash

LEMMA HandleStepMaps ==
  ASSUME Quiet, IInv, NEW h \in Handles, HandleStep(h)
  PROVE  Store!SessionStep(h) \/ (StoreOf' = StoreOf /\ Sessions' = Sessions)
<1> DEFINE Goal == Store!SessionStep(h) \/ (StoreOf' = StoreOf /\ Sessions' = Sessions)
<1>1. CASE \E n \in Names, w, trunc \in BOOLEAN : OpenTrans(h, n, w, trunc)
  BY <1>1, OpenTransMaps
<1>2. CASE \E n \in Names, w, trunc \in BOOLEAN : Create(h, n, w, trunc)
  BY <1>2, CreateMaps
<1>3. CASE \E off \in Offsets, chunk \in Chunks : Write(h, off, chunk)
  BY <1>3, WriteMaps, BytesAssumption
<1>4. CASE \E chunk \in Chunks : AppendToEnd(h, chunk)
  BY <1>4, AppendMaps
<1>5. CASE WriteTooFar(h)
  BY <1>5, WriteTooFarMaps
<1>6. CASE \E op \in {"flush", "release"} :
             CommitClean(h, op) \/ CommitRefused(h, op) \/ CommitTruncate(h, op)
  BY <1>6, CommitCleanMaps, CommitRefusedMaps, CommitTruncateMaps
<1>7. CASE CommitWrite(h)
  BY <1>7, CommitWriteMaps
<1>8. CASE \E k \in 0..Len(hd[h].payload) : CommitWriteFails(h, k)
  BY <1>8, CommitWriteFailsMaps
<1>9. CASE \/ \E n \in Names, w \in BOOLEAN : OpenLoop(h, n, w)
           \/ \E text \in RawTexts : LoopWrite(h, text)
           \/ LoopRelease(h)
  BY <1>9, LoopMaps
<1> HIDE DEF Goal
<1> QED
  BY <1>1, <1>2, <1>3, <1>4, <1>5, <1>6, <1>7, <1>8, <1>9 DEF HandleStep, Goal

LEMMA InitMaps == Init => Store!Init
<1> SUFFICES ASSUME Init PROVE Store!Init
  OBVIOUS
<1>1. \A n \in Transformed : File(n) \in Contents \cup {Missing}
  BY DEF Init, File, Transformed
<1>2. Sessions = [h \in Handles |-> Store!Closed]
  BY ClosedSession DEF Init, Sessions
<1> QED
  BY <1>1, <1>2 DEF Store!Init, StoreOf

(***************************************************************************)
(* With one writer per file, and nobody else at the files, the handles     *)
(* implement the store that OverlayStore promises.                         *)
(***************************************************************************)
THEOREM HandlesImplementStore == ASSUME Quiet PROVE Spec => ImplementsStore
<1>1. ASSUME IInv, [Next]_vars PROVE [Store!Next]_<<StoreOf, Sessions>>
  <2>1. ASSUME NEW h \in Handles, HandleStep(h) PROVE [Store!Next]_<<StoreOf, Sessions>>
    BY <1>1, <2>1, HandleStepMaps, Quiet DEF Store!Next
  <2>2. ASSUME NEW m \in Mounts, Crash(m) PROVE [Store!Next]_<<StoreOf, Sessions>>
    BY <2>2, CrashMaps DEF Store!Next
  <2>3. CASE UNCHANGED vars
    BY <2>3, SameStore DEF vars, Sessions, SessionOf, StateOf
  <2> QED
    BY <1>1, <2>1, <2>2, <2>3, QuietNoTreeStep, Quiet DEF Next
<1>2. IInv /\ [Next]_vars => [Store!Next]_<<StoreOf, Sessions>>
  BY <1>1
<1>3. Spec => []IInv
  BY IInvHolds, Quiet
<1> QED
  BY <1>2, <1>3, InitMaps, PTL DEF Spec, ImplementsStore, Store!Spec

-----------------------------------------------------------------------------
(***************************************************************************)
(* The mount as the code builds it: the middlewares of settings.json over  *)
(* a dictionary that explore generated, in either format.                  *)
(***************************************************************************)
CONSTANTS
  Symbols,       \* bytes or runes
  Dictionary,    \* the codec configuration
  Configs,       \* the middlewares of settings.json
  EnvNames,      \* names whose base is ".env"
  EnvDotNames    \* names whose base starts with ".env."

Cdc == INSTANCE CodecFunctionProofs

EncodeWith(s) == Cdc!Encode(Dictionary, s)
DecodeWith(s) == Cdc!Decode(Dictionary, s)

Pipe == INSTANCE PipelineProofs WITH Encode <- EncodeWith, Decode <- DecodeWith

RealMount ==
  /\ Cdc!CodecType(Symbols, Dictionary) /\ Cdc!Reversible(Dictionary)
  /\ Contents \subseteq Seq(Symbols)
  /\ Pipe!ConfigType /\ Pipe!Mountable
  /\ \A n \in Names, raw \in Contents, agent \in Contents \cup {Missing} :
       PServe(n, raw, agent) = Pipe!Serve(n, raw, agent)
  /\ \A n \in Names, v \in Views : PCommit(n, v) = Pipe!Commit(n, v)
  /\ Pipe!Uses(Len(Configs), "redirect_env_to_agent") => Names \cap EnvNames = {}

LEMMA RealPipelineReversible == ASSUME RealMount PROVE PipelineReversible
<1> SUFFICES ASSUME NEW n \in Names, NEW raw \in Contents, NEW agent \in Contents \cup {Missing},
                    PServe(n, raw, agent).err = "ok"
             PROVE  PCommit(n, PServe(n, raw, agent).content) = [err |-> "ok", content |-> raw]
  BY DEF PipelineReversible
<1>1. PServe(n, raw, agent) = Pipe!Serve(n, raw, agent) /\ PServe(n, raw, agent).content \in Views
  BY PipelineAssumption DEF RealMount
<1>2. Pipe!Commit(n, Pipe!Serve(n, raw, agent).content) = Pipe!Allow(raw)
  <2>1. \A v \in Seq(Symbols) :
          EncodeWith(v) \in Seq(Symbols) /\ DecodeWith(EncodeWith(v)) = [err |-> "ok", content |-> v]
    BY Cdc!DecodeUndoesEncode DEF RealMount, EncodeWith, DecodeWith
  <2>2. Pipe!DecodeUndoes(Seq(Symbols))
    BY <2>1 DEF Pipe!DecodeUndoes, Pipe!Allow
  <2>3. Pipe!ConfigType /\ Pipe!Mountable /\ raw \in Seq(Symbols)
        /\ (Pipe!Uses(Len(Configs), "redirect_env_to_agent") => n \notin EnvNames)
    BY DEF RealMount
  <2> QED
    BY <1>1, <2>2, <2>3, Pipe!CommitUndoesServe
<1> QED
  BY <1>1, <1>2 DEF RealMount, Pipe!Allow

(***************************************************************************)
(* The whole path, for every reversible dictionary, every list of          *)
(* middlewares that mounts and every set of files but a redirected .env:   *)
(* saving what is served changes no file (fs.go:173-238 over               *)
(* pipeline.go:72-98 over codec.go:119-247).                               *)
(***************************************************************************)
THEOREM MountKeepsFiles == ASSUME RealMount PROVE Spec => []UnchangedSaveIsNoOp
<1>1. TypeOK /\ HandleInv => UnchangedSaveIsNoOp
  BY RealPipelineReversible, SavedAsServed
<1> QED
  BY <1>1, HandleInvHolds, PTL
=============================================================================
