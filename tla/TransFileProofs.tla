-------------------------- MODULE TransFileProofs --------------------------
(***************************************************************************)
(* Theorems about TransFile, for every set of names, files, handles,       *)
(* mounts and contents, and every pipeline that meets PipelineAssumption.  *)
(***************************************************************************)
EXTENDS TransFile, TLAPS

(***************************************************************************)
(* What the handlers read and compute has the type their callers expect.   *)
(***************************************************************************)
LEMMA OpenedInodeType == ASSUME TypeOK, NEW n \in Names
                         PROVE OpenedInode(n) \subseteq Inodes
  BY DEF OpenedInode, TypeOK

LEMMA RawOrEmptyType == ASSUME TypeOK, NEW n \in Names
                        PROVE RawOrEmpty(n) \in Contents
  BY ContentAssumption DEF RawOrEmpty, TypeOK

LEMMA AgentType == ASSUME TypeOK PROVE Agent \in Contents \cup {Missing}
  BY DEF Agent, File, TypeOK

LEMMA ServeNowType == ASSUME TypeOK, NEW n \in Names, ServeNow(n).err = "ok"
                      PROVE ServeNow(n).content \in Views
  BY RawOrEmptyType, AgentType, PipelineAssumption DEF ServeNow

LEMMA MayPrepareNotDenied ==
  ASSUME TypeOK, NEW h \in Handles, hd[h].path \in Names, ~hd[h].prepared, MayPrepare(h)
  PROVE hd[h].path \notin Denied
  BY RawOrEmptyType, AgentType DEF MayPrepare, ServeNow, Denied

LEMMA PreparedBufType ==
  ASSUME TypeOK, NEW h \in Handles, hd[h].path \in Names, MayPrepare(h)
  PROVE PreparedBuf(h) \in Views
  BY ServeNowType, ContentAssumption DEF MayPrepare, PreparedBuf, TypeOK, HandleSet

LEMMA ClosedHandleGood == GoodHandle(ClosedHandle)
  BY ContentAssumption, NamesAssumption
  DEF GoodHandle, HandleShape, AckedIsSaved, ClosedHandle, HandleSet

LEMMA OpenHandleGood ==
  ASSUME NEW n \in Names, NEW w \in BOOLEAN, NEW reset \in BOOLEAN, NEW i \in Inodes
  PROVE GoodHandle(newTransFileHandle(n, w, reset)) /\ GoodHandle(LoopHandle(n, w, i))
  BY ContentAssumption
  DEF newTransFileHandle, LoopHandle, GoodHandle, HandleShape, AckedIsSaved, ClosedHandle, HandleSet

(***************************************************************************)
(* How a request may end: forgotten, clean after a write, or with nothing  *)
(* changed but the answer.                                                 *)
(***************************************************************************)
LEMMA SettledGood ==
  ASSUME TypeOK, HandleInv, NEW h \in Handles, hd[h].kind = "trans",
         NEW op \in {"flush", "release"}, NEW wrote \in BOOLEAN,
         NEW answer \in {"ok", "error"},
         answer = "ok" => wrote \/ ~hd[h].dirty
  PROVE  /\ Settled(h, op, wrote, answer) \in [Handles -> HandleSet]
         /\ \A g \in Handles : GoodHandle(Settled(h, op, wrote, answer)[g])
<1> DEFINE r == Answered(hd[h], wrote, answer)
<1>1. hd \in [Handles -> HandleSet] /\ hd[h] \in HandleSet /\ GoodHandle(hd[h])
  BY DEF TypeOK, HandleInv
<1>2. r \in HandleSet
  BY <1>1, ContentAssumption DEF HandleSet, Answered
<1>3. GoodHandle(r)
  BY <1>1, <1>2 DEF GoodHandle, HandleShape, AckedIsSaved, HandleSet, Answered
<1>4. GoodHandle(ClosedHandle) /\ ClosedHandle \in HandleSet
  BY ClosedHandleGood DEF GoodHandle
<1> HIDE DEF r
<1> QED
  BY <1>1, <1>2, <1>3, <1>4 DEF HandleInv, Settled, r

LEMMA NewHandleGood ==
  ASSUME TypeOK, HandleInv, NEW h \in Handles, NEW r, GoodHandle(r),
         hd' = [hd EXCEPT ![h] = r]
  PROVE  hd' \in [Handles -> HandleSet] /\ HandleInv'
  BY DEF TypeOK, HandleInv, GoodHandle

(***************************************************************************)
(* TypeOK and HandleInv together are inductive.                            *)
(***************************************************************************)
LEMMA InitInv == Init => TypeOK /\ HandleInv
  BY ClosedHandleGood DEF Init, TypeOK, HandleInv, GoodHandle

LEMMA HandleStepInv ==
  ASSUME TypeOK, HandleInv, NEW h \in Handles, HandleStep(h)
  PROVE  TypeOK' /\ HandleInv'
<1> USE DEF TypeOK
<1>h. GoodHandle(hd[h]) /\ hd[h] \in HandleSet
  BY DEF HandleInv, GoodHandle
<1>p. ASSUME hd[h].kind = "trans" PROVE hd[h].path \in Names
  BY <1>h, <1>p DEF GoodHandle, HandleShape
<1>i. ASSUME hd[h].pc # "idle" PROVE hd[h].ino \in Inodes /\ hd[h].payload \in Contents
  BY <1>h, <1>i DEF GoodHandle, HandleShape, HandleSet
<1>1. ASSUME NEW n \in Names, NEW w \in BOOLEAN, NEW trunc \in BOOLEAN, OpenTrans(h, n, w, trunc)
      PROVE TypeOK' /\ HandleInv'
  <2>1. PICK i \in Inodes : dir[n] = i
    BY <1>1 DEF OpenTrans
  <2> QED
    BY <1>1, <2>1, OpenHandleGood, NewHandleGood DEF OpenTrans
<1>2. ASSUME NEW n \in Names, NEW w \in BOOLEAN, OpenLoop(h, n, w)
      PROVE TypeOK' /\ HandleInv'
  <2>1. dir[n] \in Inodes
    BY <1>2 DEF OpenLoop
  <2> QED
    BY <1>2, <2>1, OpenHandleGood, NewHandleGood DEF OpenLoop
<1>3. ASSUME NEW n \in Names, NEW w \in BOOLEAN, NEW trunc \in BOOLEAN, Create(h, n, w, trunc)
      PROVE TypeOK' /\ HandleInv'
  <2>1. PICK i \in OpenedInode(n) :
          /\ dir' = [dir EXCEPT ![n] = i]
          /\ data' = IF dir[n] # NoInode /\ ~trunc THEN data ELSE [data EXCEPT ![i] = Empty]
          /\ origin' = IF dir[n] # NoInode /\ ~trunc THEN origin
                       ELSE [origin EXCEPT ![i] = "source"]
          /\ hd' = [hd EXCEPT ![h] = IF shouldTransformPath(n)
                                     THEN newTransFileHandle(n, w, TRUE)
                                     ELSE LoopHandle(n, w, i)]
    BY <1>3 DEF Create
  <2>2. i \in Inodes
    BY OpenedInodeType
  <2>3. hd' \in [Handles -> HandleSet] /\ HandleInv'
    <3>1. GoodHandle(IF shouldTransformPath(n) THEN newTransFileHandle(n, w, TRUE)
                                               ELSE LoopHandle(n, w, i))
      BY <2>2, OpenHandleGood
    <3> QED
      BY <2>1, <3>1, NewHandleGood
  <2>4. dir' \in [Names -> Inodes \cup {NoInode}]
    BY <2>1, <2>2
  <2>5. data' \in [Inodes -> Contents] /\ origin' \in [Inodes -> {"source", "view"}]
    BY <2>1, <2>2, ContentAssumption
  <2> QED
    BY <2>3, <2>4, <2>5
<1>4. ASSUME NEW off, NEW chunk, Write(h, off, chunk)
      PROVE TypeOK' /\ HandleInv'
  <2> DEFINE b == Splice(PreparedBuf(h), off, chunk)
             r == [hd[h] EXCEPT !.prepared = TRUE, !.dirty = TRUE, !.buf = b, !.acked = "none"]
  <2>1. hd[h].kind = "trans" /\ hd[h].pc = "idle" /\ hd[h].writable /\ b \in Views
        /\ hd' = [hd EXCEPT ![h] = r] /\ UNCHANGED <<dir, data, origin>> /\ MayPrepare(h)
    BY <1>4 DEF Write, Idle
  <2>2. hd[h].path \in Names /\ hd[h].path \notin Denied
    BY <1>h, <1>p, <2>1, MayPrepareNotDenied DEF GoodHandle
  <2> HIDE DEF b
  <2>3. GoodHandle(r)
    BY <1>h, <2>1, <2>2 DEF GoodHandle, HandleShape, AckedIsSaved, HandleSet
  <2> HIDE DEF r
  <2> QED
    BY <2>1, <2>3, NewHandleGood
<1>5. ASSUME WriteTooFar(h) PROVE TypeOK' /\ HandleInv'
  <2> DEFINE r == [hd[h] EXCEPT !.prepared = TRUE, !.buf = PreparedBuf(h)]
  <2>1. hd[h].kind = "trans" /\ hd[h].pc = "idle" /\ hd[h].writable
        /\ hd' = [hd EXCEPT ![h] = r] /\ UNCHANGED <<dir, data, origin>> /\ MayPrepare(h)
    BY <1>5 DEF WriteTooFar, Idle
  <2>2. hd[h].path \in Names /\ hd[h].path \notin Denied
    BY <1>h, <1>p, <2>1, MayPrepareNotDenied DEF GoodHandle
  <2>3. PreparedBuf(h) \in Views
    BY <2>1, <2>2, PreparedBufType
  <2>4. GoodHandle(r)
    BY <1>h, <2>1, <2>2, <2>3 DEF GoodHandle, HandleShape, AckedIsSaved, HandleSet
  <2> HIDE DEF r
  <2> QED
    BY <2>1, <2>4, NewHandleGood
<1>6. ASSUME NEW op \in {"flush", "release"}, CommitClean(h, op) PROVE TypeOK' /\ HandleInv'
  <2>1. hd[h].kind = "trans" /\ ~hd[h].dirty /\ hd' = Settled(h, op, FALSE, "ok")
        /\ UNCHANGED <<dir, data, origin>>
    BY <1>6 DEF CommitClean, MayRequest, Idle
  <2> QED
    BY <2>1, SettledGood DEF HandleInv
<1>7. ASSUME NEW op \in {"flush", "release"}, CommitRefused(h, op) PROVE TypeOK' /\ HandleInv'
  <2>1. hd[h].kind = "trans" /\ hd' = Settled(h, op, FALSE, "error")
        /\ UNCHANGED <<dir, data, origin>>
    BY <1>7 DEF CommitRefused, MayRequest, Idle
  <2> QED
    BY <2>1, SettledGood DEF HandleInv
<1>8. ASSUME NEW op \in {"flush", "release"}, CommitTruncate(h, op) PROVE TypeOK' /\ HandleInv'
  <2> DEFINE c == PCommit(hd[h].path, hd[h].buf)
  <2>1. hd[h].kind = "trans" /\ hd[h].dirty /\ c.err = "ok"
        /\ (op = "release" => hd[h].acked # "none")
    BY <1>8 DEF CommitTruncate, MayRequest, Idle
  <2>2. PICK i \in OpenedInode(hd[h].path) :
          /\ dir' = [dir EXCEPT ![hd[h].path] = i]
          /\ data' = [data EXCEPT ![i] = Empty]
          /\ origin' = [origin EXCEPT ![i] = "source"]
          /\ hd' = [hd EXCEPT ![h] = [hd[h] EXCEPT !.pc = op, !.ino = i, !.payload = c.content]]
    BY <1>8 DEF CommitTruncate
  <2>3. hd[h].path \in Names /\ hd[h].buf \in Views /\ i \in Inodes
    BY <1>h, <1>p, <2>1, OpenedInodeType DEF HandleSet
  <2>4. c.content \in Contents
    BY <2>1, <2>3, PipelineAssumption
  <2>5. GoodHandle([hd[h] EXCEPT !.pc = op, !.ino = i, !.payload = c.content])
    <3> HIDE DEF c
    <3> DEFINE r == [hd[h] EXCEPT !.pc = op, !.ino = i, !.payload = c.content]
    <3>1. r \in HandleSet
      BY <1>h, <2>3, <2>4 DEF HandleSet
    <3>2. HandleShape(r) /\ AckedIsSaved(r) /\ (r.prepared => r.path \notin Denied)
      BY <1>h, <2>1, <2>3 DEF GoodHandle, HandleShape, AckedIsSaved, HandleSet
    <3>3. PCommit(r.path, r.buf) = c /\ r.payload = c.content
      BY <1>h DEF HandleSet, c
    <3> QED
      BY <2>1, <3>1, <3>2, <3>3 DEF GoodHandle
  <2>6. hd' \in [Handles -> HandleSet] /\ HandleInv'
    <3> HIDE DEF c
    <3> QED
      BY <2>2, <2>5, NewHandleGood
  <2>7. dir' \in [Names -> Inodes \cup {NoInode}] /\ data' \in [Inodes -> Contents]
        /\ origin' \in [Inodes -> {"source", "view"}]
    BY <2>2, <2>3, ContentAssumption
  <2> QED
    BY <2>6, <2>7
<1>9. ASSUME CommitWrite(h) PROVE TypeOK' /\ HandleInv'
  <2>1. hd[h].kind = "trans" /\ hd[h].pc \in {"flush", "release"}
        /\ data' = [data EXCEPT ![hd[h].ino] = WriteAtStart(data[hd[h].ino], hd[h].payload)]
        /\ hd' = Settled(h, hd[h].pc, TRUE, "ok") /\ UNCHANGED <<dir, origin>>
    BY <1>9, <1>h DEF CommitWrite, HandleSet
  <2>2. hd[h].ino \in Inodes /\ hd[h].payload \in Contents
    BY <1>i, <2>1
  <2>3. data' \in [Inodes -> Contents]
    BY <2>1, <2>2, ContentAssumption
  <2> QED
    BY <2>1, <2>3, SettledGood DEF HandleInv
<1>10. ASSUME NEW k \in 0..Len(hd[h].payload), CommitWriteFails(h, k) PROVE TypeOK' /\ HandleInv'
  <2> DEFINE sent == FirstBytes(hd[h].payload, k)
  <2>1. hd[h].kind = "trans" /\ hd[h].pc \in {"flush", "release"}
        /\ data' = [data EXCEPT ![hd[h].ino] = WriteAtStart(data[hd[h].ino], sent)]
        /\ hd' = Settled(h, hd[h].pc, FALSE, "error") /\ UNCHANGED <<dir, origin>>
    BY <1>10, <1>h DEF CommitWriteFails, HandleSet
  <2>2. hd[h].ino \in Inodes /\ sent \in Contents
    BY <1>i, <2>1, ContentAssumption
  <2> HIDE DEF sent
  <2>3. data' \in [Inodes -> Contents]
    BY <2>1, <2>2, ContentAssumption
  <2> QED
    BY <2>1, <2>3, SettledGood DEF HandleInv
<1>11. ASSUME NEW text \in RawTexts, LoopWrite(h, text) PROVE TypeOK' /\ HandleInv'
  <2>1. text \in Contents
    BY NamesAssumption
  <2> QED
    BY <1>11, <2>1 DEF LoopWrite, HandleInv
<1>12. ASSUME LoopRelease(h) PROVE TypeOK' /\ HandleInv'
  BY <1>12, ClosedHandleGood, NewHandleGood DEF LoopRelease
<1> QED
  BY HandleStep(h), <1>1, <1>2, <1>3, <1>4, <1>5, <1>6, <1>7, <1>8, <1>9, <1>10, <1>11, <1>12
  DEF HandleStep, AppendToEnd

LEMMA TreeStepInv ==
  ASSUME TypeOK, HandleInv, TreeStep
  PROVE  TypeOK' /\ HandleInv'
<1> USE DEF TypeOK
<1>1. ASSUME NEW a \in Names, NEW b \in Names, Rename(a, b) PROVE TypeOK' /\ HandleInv'
  BY <1>1 DEF Rename, HandleInv
<1>2. ASSUME NEW a \in Names, NEW b \in Names, Link(a, b) PROVE TypeOK' /\ HandleInv'
  BY <1>2 DEF Link, HandleInv
<1>3. ASSUME NEW n \in Names, Unlink(n) PROVE TypeOK' /\ HandleInv'
  BY <1>3 DEF Unlink, HandleInv
<1>4. ASSUME NEW cut \in Cuts, Setattr(cut[1], cut[2]) PROVE TypeOK' /\ HandleInv'
  <2> DEFINE n == cut[1]
             size == cut[2]
  <2>1. n \in Names /\ size \in Nat
    BY NamesAssumption
  <2>2. dir[n] \in Inodes /\ size <= Len(data[dir[n]]) /\ UNCHANGED <<dir, origin, hd>>
        /\ data' = [data EXCEPT ![dir[n]] = FirstBytes(data[dir[n]], size)]
    BY <1>4, <2>1 DEF Setattr
  <2> HIDE DEF n, size
  <2>3. data[dir[n]] \in Contents
    BY <2>2
  <2>4. ASSUME NEW old \in Contents, size <= Len(old) PROVE FirstBytes(old, size) \in Contents
    BY <2>1, <2>4, ContentAssumption
  <2>5. data' \in [Inodes -> Contents]
    BY <2>2, <2>3, <2>4
  <2> QED
    BY <2>2, <2>5 DEF HandleInv
<1>5. ASSUME NEW edit \in Edits, LocalEdit(edit[1], edit[2]) PROVE TypeOK' /\ HandleInv'
  <2>1. edit[1] \in Names /\ edit[2] \in Contents
    BY NamesAssumption
  <2>2. OpenedInode(edit[1]) \subseteq Inodes
    BY <2>1, OpenedInodeType
  <2> QED
    BY <1>5, <2>1, <2>2 DEF LocalEdit, HandleInv
<1> QED
  BY TreeStep, <1>1, <1>2, <1>3, <1>4, <1>5 DEF TreeStep

LEMMA NextInv ==
  ASSUME TypeOK, HandleInv, [Next]_vars
  PROVE  TypeOK' /\ HandleInv'
<1>1. ASSUME NEW m \in Mounts, Crash(m) PROVE TypeOK' /\ HandleInv'
  BY <1>1, ClosedHandleGood DEF Crash, TypeOK, HandleInv, GoodHandle
<1>2. CASE UNCHANGED vars
  BY <1>2 DEF vars, TypeOK, HandleInv
<1> QED
  BY [Next]_vars, <1>1, <1>2, HandleStepInv, TreeStepInv DEF Next

LEMMA HandleInvHolds == Spec => [](TypeOK /\ HandleInv)
<1>1. TypeOK /\ HandleInv /\ [Next]_vars => (TypeOK /\ HandleInv)'
  BY NextInv
<1> QED
  BY <1>1, InitInv, PTL DEF Spec

(***************************************************************************)
(* Every state of the system is well typed: in particular a source file    *)
(* holds only bytes a commit, a prefix of one, or a client's own write to  *)
(* a loopback file can give, never an undecoded buffer.                    *)
(***************************************************************************)
THEOREM TypeCorrect == Spec => []TypeOK
  BY HandleInvHolds, PTL

(***************************************************************************)
(* For every pipeline: while os.WriteFile runs, what it writes is the      *)
(* commit of the buffer the handle still has.                              *)
(***************************************************************************)
THEOREM CommitsTheBuffer == Spec => []CommitIsOfBuffer
<1>1. TypeOK /\ HandleInv => CommitIsOfBuffer
  BY DEF TypeOK, HandleInv, GoodHandle, HandleShape, CommitIsOfBuffer
<1> QED
  BY <1>1, HandleInvHolds, PTL

(***************************************************************************)
(* For every pipeline: a name it never serves has no prepared and no dirty *)
(* handle, however the handle was opened, and no READ of it is answered.   *)
(***************************************************************************)
THEOREM DeniedIsNeverWritten == Spec => []DeniedNeverPrepared
<1>1. ASSUME TypeOK, HandleInv PROVE DeniedNeverPrepared
  <2> SUFFICES ASSUME NEW h \in Handles, hd[h].kind = "trans", hd[h].path \in Denied
               PROVE /\ ~hd[h].prepared /\ ~hd[h].dirty
                     /\ dir[hd[h].path] # NoInode => currentView(h).err # "ok"
    BY DEF DeniedNeverPrepared
  <2>1. ~hd[h].prepared /\ ~hd[h].dirty /\ hd[h].path \in Names
    BY <1>1 DEF HandleInv, GoodHandle, HandleShape
  <2>2. ServeNow(hd[h].path).err # "ok"
    BY <1>1, <2>1, RawOrEmptyType, AgentType DEF ServeNow, Denied
  <2> QED
    BY <2>1, <2>2 DEF currentView
<1> QED
  BY <1>1, HandleInvHolds, PTL

(***************************************************************************)
(* An unused inode is nobody's: no name is bound to it, no descriptor is   *)
(* open on it.                                                             *)
(***************************************************************************)
LEMMA OpenedInodeFresh ==
  ASSUME NEW n \in Names, NEW i \in OpenedInode(n), i # dir[n]
  PROVE  /\ \A m \in Names : dir[m] # i
         /\ \A h \in Handles : hd[h].ino # i
  BY DEF OpenedInode, Unused

(***************************************************************************)
(* Opening, creating or truncating the file of a name binds it to its own  *)
(* file or to one nobody has: nothing becomes shared, and no loopback      *)
(* descriptor is open on a transformed file.                               *)
(***************************************************************************)
LEMMA BindKeepsUnshared ==
  ASSUME TypeOK, SourceUnshared, NEW n \in Names, NEW i \in OpenedInode(n),
         dir' = [dir EXCEPT ![n] = i]
  PROVE  SourceUnshared'
<1>1. i \in Inodes
  BY OpenedInodeType
<1>2. dir' \in [Names -> Inodes \cup {NoInode}] /\ dir'[n] = i
      /\ \A m \in Names \ {n} : dir'[m] = dir[m]
  BY <1>1 DEF TypeOK
<1>3. CASE i = dir[n]
  <2>1. \A m \in Names : dir'[m] = dir[m]
    BY <1>2, <1>3
  <2> QED
    BY <2>1 DEF SourceUnshared, shouldTransformPath
<1>4. CASE i # dir[n]
  BY <1>2, <1>4, OpenedInodeFresh DEF SourceUnshared, shouldTransformPath
<1> QED
  BY <1>3, <1>4

LEMMA BindKeepsNoLoop ==
  ASSUME TypeOK, NoLoopOnSource, NEW n \in Names, NEW i \in OpenedInode(n),
         dir' = [dir EXCEPT ![n] = i],
         \A h \in Handles : hd'[h].kind = "loop" => hd'[h].ino = hd[h].ino /\ hd[h].kind = "loop"
  PROVE  NoLoopOnSource'
<1>1. i \in Inodes
  BY OpenedInodeType
<1>2. dir'[n] = i /\ \A m \in Names \ {n} : dir'[m] = dir[m]
  BY <1>1 DEF TypeOK
<1>3. CASE i = dir[n]
  BY <1>2, <1>3 DEF NoLoopOnSource, shouldTransformPath
<1>4. CASE i # dir[n]
  BY <1>2, <1>4, OpenedInodeFresh DEF NoLoopOnSource, shouldTransformPath
<1> QED
  BY <1>3, <1>4

\* A step that leaves the directory alone and makes no loopback handle.
LEMMA SameTreeKeeps ==
  ASSUME SourceUnshared, NoLoopOnSource, dir' = dir,
         \A h \in Handles : hd'[h].kind = "loop" => hd'[h].ino = hd[h].ino /\ hd[h].kind = "loop"
  PROVE  SourceUnshared' /\ NoLoopOnSource'
  BY DEF SourceUnshared, NoLoopOnSource, shouldTransformPath

LEMMA SameOriginKeeps ==
  ASSUME SourceCanonical, dir' = dir, origin' = origin
  PROVE  SourceCanonical'
  BY DEF SourceCanonical, shouldTransformPath

\* The bytes a name is bound to anew are source bytes.
LEMMA BindKeepsCanonical ==
  ASSUME TypeOK, SourceCanonical, NEW n \in Names, NEW i \in OpenedInode(n),
         dir' = [dir EXCEPT ![n] = i],
         \/ origin' = [origin EXCEPT ![i] = "source"]
         \/ i = dir[n] /\ origin' = origin
  PROVE  SourceCanonical'
<1>1. i \in Inodes
  BY OpenedInodeType
<1>2. dir'[n] = i /\ \A m \in Names \ {n} : dir'[m] = dir[m]
  BY <1>1 DEF TypeOK
<1>3. CASE origin' = [origin EXCEPT ![i] = "source"]
  <2>1. origin'[i] = "source" /\ \A j \in Inodes \ {i} : origin'[j] = origin[j]
    BY <1>1, <1>3 DEF TypeOK
  <2> QED
    BY <1>1, <1>2, <2>1 DEF SourceCanonical, shouldTransformPath, TypeOK
<1>4. CASE i = dir[n] /\ origin' = origin
  BY <1>2, <1>4 DEF SourceCanonical, shouldTransformPath
<1> QED
  BY <1>3, <1>4

LEMMA CanonicalHandleStep ==
  ASSUME Discipline, TypeOK, HandleInv, CanonicalInv, NEW h \in Handles, HandleStep(h)
  PROVE  CanonicalInv'
<1> USE DEF CanonicalInv
<1>h. GoodHandle(hd[h]) /\ hd \in [Handles -> HandleSet]
  BY DEF HandleInv, TypeOK
<1>1. ASSUME NEW n \in Names, NEW w \in BOOLEAN, NEW trunc \in BOOLEAN, OpenTrans(h, n, w, trunc)
      PROVE CanonicalInv'
  <2>1. newTransFileHandle(n, w, trunc).kind = "trans"
    BY DEF newTransFileHandle, ClosedHandle
  <2>2. \A g \in Handles : hd'[g].kind = "loop" => hd'[g].ino = hd[g].ino /\ hd[g].kind = "loop"
    BY <1>1, <1>h, <2>1 DEF OpenTrans
  <2> QED
    BY <1>1, <2>2, SameTreeKeeps, SameOriginKeeps DEF OpenTrans
<1>2. ASSUME NEW n \in Names, NEW w \in BOOLEAN, OpenLoop(h, n, w)
      PROVE CanonicalInv'
  <2>1. ~shouldTransformPath(n) /\ dir[n] # NoInode /\ hd' = [hd EXCEPT ![h] = LoopHandle(n, w, dir[n])]
        /\ UNCHANGED <<dir, data, origin>>
    BY <1>2 DEF OpenLoop
  <2>2. LoopHandle(n, w, dir[n]).ino = dir[n]
    BY DEF LoopHandle, ClosedHandle
  <2>3. \A m \in Names : shouldTransformPath(m) => dir[m] # dir[n]
    BY <2>1 DEF SourceUnshared
  <2>4. NoLoopOnSource'
    BY <1>h, <2>1, <2>2, <2>3 DEF NoLoopOnSource, shouldTransformPath
  <2>5. SourceUnshared'
    BY <2>1 DEF SourceUnshared, shouldTransformPath
  <2> QED
    BY <2>1, <2>4, <2>5, SameOriginKeeps
<1>3. ASSUME NEW n \in Names, NEW w \in BOOLEAN, NEW trunc \in BOOLEAN, Create(h, n, w, trunc)
      PROVE CanonicalInv'
  <2>1. PICK i \in OpenedInode(n) :
          /\ dir' = [dir EXCEPT ![n] = i]
          /\ origin' = IF dir[n] # NoInode /\ ~trunc THEN origin
                       ELSE [origin EXCEPT ![i] = "source"]
          /\ hd' = [hd EXCEPT ![h] = IF shouldTransformPath(n)
                                     THEN newTransFileHandle(n, w, TRUE)
                                     ELSE LoopHandle(n, w, i)]
    BY <1>3 DEF Create
  <2>2. dir[n] # NoInode => i = dir[n]
    BY DEF OpenedInode
  <2>3. SourceUnshared'
    BY <2>1, BindKeepsUnshared
  <2>4. SourceCanonical'
    BY <2>1, <2>2, BindKeepsCanonical
  <2>5. NoLoopOnSource'
    <3>1. CASE shouldTransformPath(n)
      <4>1. newTransFileHandle(n, w, TRUE).kind = "trans"
        BY DEF newTransFileHandle, ClosedHandle
      <4>2. \A g \in Handles : hd'[g].kind = "loop" => hd'[g].ino = hd[g].ino /\ hd[g].kind = "loop"
        BY <1>h, <2>1, <3>1, <4>1
      <4> QED
        BY <2>1, <4>2, BindKeepsNoLoop
    <3>2. CASE ~shouldTransformPath(n)
      <4>1. LoopHandle(n, w, i).ino = i
        BY DEF LoopHandle, ClosedHandle
      <4>2. i \in Inodes /\ dir'[n] = i /\ \A m \in Names \ {n} : dir'[m] = dir[m]
        BY <2>1, OpenedInodeType DEF TypeOK
      <4>3. ASSUME NEW m \in Names, shouldTransformPath(m) PROVE dir'[m] # i
        BY <2>3, <3>2, <4>2, <4>3, NamesAssumption DEF SourceUnshared, shouldTransformPath
      <4>4. ASSUME NEW g \in Handles, g # h, hd[g].kind = "loop", NEW m \in Names, shouldTransformPath(m)
            PROVE dir'[m] # hd[g].ino
        BY <3>2, <4>2, <4>4 DEF NoLoopOnSource, shouldTransformPath
      <4>5. hd'[h].ino = i /\ \A g \in Handles \ {h} : hd'[g] = hd[g]
        BY <1>h, <2>1, <3>2, <4>1
      <4> QED
        BY <4>3, <4>4, <4>5 DEF NoLoopOnSource, shouldTransformPath
    <3> QED
      BY <3>1, <3>2
  <2> QED
    BY <2>3, <2>4, <2>5
<1>4. ASSUME UNCHANGED <<dir, origin>>, NEW r \in HandleSet, r.kind # "loop",
             hd' = [hd EXCEPT ![h] = r]
      PROVE CanonicalInv'
  <2>1. \A g \in Handles : hd'[g].kind = "loop" => hd'[g].ino = hd[g].ino /\ hd[g].kind = "loop"
    BY <1>4, <1>h
  <2> QED
    BY <1>4, <2>1, SameTreeKeeps, SameOriginKeeps
<1>5. ASSUME NEW off, NEW chunk, Write(h, off, chunk) PROVE CanonicalInv'
  <2> DEFINE b == Splice(PreparedBuf(h), off, chunk)
             r == [hd[h] EXCEPT !.prepared = TRUE, !.dirty = TRUE, !.buf = b, !.acked = "none"]
  <2>1. hd[h].kind = "trans" /\ b \in Views /\ hd' = [hd EXCEPT ![h] = r]
        /\ UNCHANGED <<dir, origin>>
    BY <1>5 DEF Write, Idle
  <2> HIDE DEF b
  <2>2. r \in HandleSet /\ r.kind # "loop"
    BY <1>h, <2>1 DEF HandleSet
  <2> HIDE DEF r
  <2> QED
    BY <1>4, <2>1, <2>2
<1>6. ASSUME WriteTooFar(h) PROVE CanonicalInv'
  <2> DEFINE r == [hd[h] EXCEPT !.prepared = TRUE, !.buf = PreparedBuf(h)]
  <2>1. hd[h].kind = "trans" /\ MayPrepare(h) /\ hd' = [hd EXCEPT ![h] = r]
        /\ UNCHANGED <<dir, origin>>
    BY <1>6 DEF WriteTooFar, Idle
  <2>2. PreparedBuf(h) \in Views
    BY <1>h, <2>1, PreparedBufType DEF GoodHandle, HandleShape
  <2>3. r \in HandleSet /\ r.kind # "loop"
    BY <1>h, <2>1, <2>2 DEF HandleSet
  <2> HIDE DEF r
  <2> QED
    BY <1>4, <2>1, <2>3
<1>7. ASSUME NEW op \in {"flush", "release"}, NEW wrote \in BOOLEAN, NEW answer \in {"ok", "error"},
             hd[h].kind = "trans", hd' = Settled(h, op, wrote, answer), UNCHANGED <<dir, origin>>
      PROVE CanonicalInv'
  <2> DEFINE r == IF op = "release" THEN ClosedHandle ELSE Answered(hd[h], wrote, answer)
  <2>1. Answered(hd[h], wrote, answer) \in HandleSet /\ Answered(hd[h], wrote, answer).kind = "trans"
    BY <1>h, <1>7, ContentAssumption DEF Answered, HandleSet
  <2>2. ClosedHandle \in HandleSet /\ ClosedHandle.kind = "closed"
    BY ClosedHandleGood DEF GoodHandle, ClosedHandle
  <2>3. r \in HandleSet /\ r.kind # "loop"
    BY <2>1, <2>2
  <2>4. hd' = [hd EXCEPT ![h] = r]
    BY <1>7 DEF Settled
  <2> HIDE DEF r
  <2> QED
    BY <1>4, <1>7, <2>3, <2>4
<1>8. ASSUME NEW op \in {"flush", "release"}, CommitClean(h, op) \/ CommitRefused(h, op)
      PROVE CanonicalInv'
  BY <1>7, <1>8 DEF CommitClean, CommitRefused, MayRequest, Idle
<1>9. ASSUME NEW op \in {"flush", "release"}, CommitTruncate(h, op) PROVE CanonicalInv'
  <2> DEFINE r(i) == [hd[h] EXCEPT !.pc = op, !.ino = i,
                                   !.payload = PCommit(hd[h].path, hd[h].buf).content]
  <2>1. hd[h].kind = "trans" /\ hd[h].path \in Names
    BY <1>9, <1>h DEF CommitTruncate, MayRequest, Idle, GoodHandle, HandleShape
  <2>2. PICK i \in OpenedInode(hd[h].path) :
          /\ dir' = [dir EXCEPT ![hd[h].path] = i]
          /\ origin' = [origin EXCEPT ![i] = "source"]
          /\ hd' = [hd EXCEPT ![h] = r(i)]
    BY <1>9 DEF CommitTruncate
  <2>3. r(i).kind = "trans"
    BY <1>h, <2>1 DEF HandleSet
  <2> HIDE DEF r
  <2>4. \A g \in Handles : hd'[g].kind = "loop" => hd'[g].ino = hd[g].ino /\ hd[g].kind = "loop"
    BY <1>h, <2>2, <2>3
  <2> QED
    BY <2>1, <2>2, <2>4, BindKeepsUnshared, BindKeepsNoLoop, BindKeepsCanonical
<1>10. ASSUME CommitWrite(h) \/ \E k \in 0..Len(hd[h].payload) : CommitWriteFails(h, k)
       PROVE CanonicalInv'
  <2>1. hd[h].pc \in {"flush", "release"}
    BY <1>10, <1>h DEF CommitWrite, CommitWriteFails, HandleSet
  <2> QED
    BY <1>7, <1>10, <2>1 DEF CommitWrite, CommitWriteFails
<1>11. ASSUME NEW text \in RawTexts, LoopWrite(h, text) PROVE CanonicalInv'
  <2>1. UNCHANGED <<dir, hd>> /\ origin' = [origin EXCEPT ![hd[h].ino] = "view"] /\ hd[h].kind = "loop"
    BY <1>11 DEF LoopWrite
  <2>2. \A n \in Names : shouldTransformPath(n) => dir[n] # hd[h].ino
    BY <2>1 DEF NoLoopOnSource
  <2>3. SourceCanonical'
    BY <2>1, <2>2 DEF SourceCanonical, shouldTransformPath, TypeOK
  <2> QED
    BY <2>1, <2>3, SameTreeKeeps
<1>12. ASSUME LoopRelease(h) PROVE CanonicalInv'
  <2>1. ClosedHandle \in HandleSet /\ ClosedHandle.kind = "closed"
    BY ClosedHandleGood DEF GoodHandle, ClosedHandle
  <2> QED
    BY <1>4, <1>12, <2>1 DEF LoopRelease
<1> QED
  BY HandleStep(h), <1>1, <1>2, <1>3, <1>5, <1>6, <1>8, <1>9, <1>10, <1>11, <1>12 DEF HandleStep, AppendToEnd

LEMMA CanonicalTreeStep ==
  ASSUME Discipline, TypeOK, HandleInv, CanonicalInv, TreeStep
  PROVE  CanonicalInv'
<1> USE DEF CanonicalInv
<1>1. ASSUME NEW a \in Names, NEW b \in Names, Rename(a, b) PROVE CanonicalInv'
  <2>1. <<a, b>> \in Renames /\ a # b /\ dir[a] # NoInode
        /\ dir' = [dir EXCEPT ![b] = dir[a], ![a] = NoInode] /\ UNCHANGED <<data, origin, hd>>
    BY <1>1 DEF Rename
  <2>2. shouldTransformPath(b) => shouldTransformPath(a)
    BY <2>1 DEF Discipline
  <2>3. dir'[b] = dir[a] /\ dir'[a] = NoInode /\ \A m \in Names \ {a, b} : dir'[m] = dir[m]
    BY <2>1 DEF TypeOK
  <2>4. SourceUnshared'
    BY <2>1, <2>2, <2>3 DEF SourceUnshared, shouldTransformPath
  <2>5. NoLoopOnSource'
    <3>1. ASSUME NEW h \in Handles, hd[h].kind = "loop" PROVE hd[h].ino # NoInode
      BY <3>1, NamesAssumption DEF HandleInv, GoodHandle, HandleShape
    <3>2. ASSUME NEW h \in Handles, hd[h].kind = "loop", NEW m \in Names, shouldTransformPath(m)
          PROVE dir'[m] # hd[h].ino
      <4>1. CASE m = a
        BY <2>3, <3>1, <3>2, <4>1
      <4>2. CASE m = b
        BY <2>2, <2>3, <3>2, <4>2 DEF NoLoopOnSource
      <4>3. CASE m \notin {a, b}
        BY <2>3, <3>2, <4>3 DEF NoLoopOnSource
      <4> QED
        BY <4>1, <4>2, <4>3
    <3> QED
      BY <2>1, <3>2 DEF NoLoopOnSource, shouldTransformPath
  <2>6. SourceCanonical'
    BY <2>1, <2>2, <2>3 DEF SourceCanonical, shouldTransformPath
  <2> QED
    BY <2>4, <2>5, <2>6
<1>2. ASSUME NEW a \in Names, NEW b \in Names, Link(a, b) PROVE CanonicalInv'
  <2>1. <<a, b>> \in Links /\ dir' = [dir EXCEPT ![b] = dir[a]] /\ UNCHANGED <<data, origin, hd>>
    BY <1>2 DEF Link
  <2>2. ~shouldTransformPath(a) /\ ~shouldTransformPath(b)
    BY <2>1 DEF Discipline
  <2>3. dir[a] # NoInode /\ dir'[b] = dir[a] /\ \A m \in Names \ {b} : dir'[m] = dir[m]
    BY <1>2, <2>1 DEF Link, TypeOK
  <2>4. \A n \in Names : shouldTransformPath(n) => dir'[n] = dir[n]
    BY <2>2, <2>3
  <2>5. SourceUnshared'
    BY <2>2, <2>3, <2>4 DEF SourceUnshared, shouldTransformPath
  <2> QED
    BY <2>1, <2>4, <2>5 DEF NoLoopOnSource, SourceCanonical, shouldTransformPath
<1>3. ASSUME NEW n \in Names, Unlink(n) PROVE CanonicalInv'
  <2>1. dir'[n] = NoInode /\ (\A m \in Names \ {n} : dir'[m] = dir[m]) /\ UNCHANGED <<data, origin, hd>>
    BY <1>3 DEF Unlink, TypeOK
  <2>2. \A h \in Handles : hd[h].kind = "loop" => hd[h].ino # NoInode
    BY NamesAssumption DEF HandleInv, GoodHandle, HandleShape
  <2> QED
    BY <2>1, <2>2 DEF SourceUnshared, NoLoopOnSource, SourceCanonical, shouldTransformPath
<1>4. ASSUME NEW cut \in Cuts, Setattr(cut[1], cut[2]) PROVE CanonicalInv'
  BY <1>4, SameTreeKeeps, SameOriginKeeps DEF Setattr
<1>5. ASSUME NEW edit \in Edits, LocalEdit(edit[1], edit[2]) PROVE CanonicalInv'
  <2>1. edit[1] \in Names
    BY NamesAssumption
  <2> QED
    BY <1>5, <2>1, BindKeepsUnshared, BindKeepsNoLoop, BindKeepsCanonical DEF LocalEdit
<1> QED
  BY TreeStep, <1>1, <1>2, <1>3, <1>4, <1>5 DEF TreeStep

LEMMA CanonicalInit == Init => CanonicalInv
  BY ClosedHandleGood
  DEF Init, CanonicalInv, SourceUnshared, NoLoopOnSource, SourceCanonical, ClosedHandle

LEMMA CanonicalNext ==
  ASSUME Discipline, TypeOK, HandleInv, CanonicalInv, [Next]_vars
  PROVE  CanonicalInv'
<1>1. ASSUME NEW m \in Mounts, Crash(m) PROVE CanonicalInv'
  <2>1. \A g \in Handles : hd'[g].kind = "loop" => hd'[g].ino = hd[g].ino /\ hd[g].kind = "loop"
    BY <1>1 DEF Crash, ClosedHandle
  <2> QED
    BY <1>1, <2>1, SameTreeKeeps, SameOriginKeeps DEF Crash, CanonicalInv
<1>2. CASE UNCHANGED vars
  BY <1>2 DEF vars, CanonicalInv, SourceUnshared, NoLoopOnSource, SourceCanonical, shouldTransformPath
<1> QED
  BY [Next]_vars, <1>1, <1>2, CanonicalHandleStep, CanonicalTreeStep DEF Next

(***************************************************************************)
(* "Real files on disk stay canonical" for any number of mounts, handles,  *)
(* crashes and failing writes, as long as no rename moves a temporary name *)
(* over a transformed one and no hard link joins a transformed name.       *)
(***************************************************************************)
THEOREM SourceStaysCanonical == ASSUME Discipline PROVE Spec => []SourceCanonical
<1> DEFINE IInv == TypeOK /\ HandleInv /\ CanonicalInv
<1>1. Init => IInv
  BY InitInv, CanonicalInit
<1>2. IInv /\ [Next]_vars => IInv'
  BY NextInv, CanonicalNext, Discipline
<1>3. IInv => SourceCanonical
  BY DEF CanonicalInv
<1> HIDE DEF IInv
<1> QED
  BY <1>1, <1>2, <1>3, PTL DEF Spec

(***************************************************************************)
(* The steps that forget a dirty handle are a refused RELEASE and the end  *)
(* of one that writes, and a RELEASE follows a FLUSH that, as the handle   *)
(* is dirty, did not say "ok".                                             *)
(***************************************************************************)
LEMMA LossStep ==
  ASSUME TypeOK, HandleInv, [Next]_vars, NEW h \in Handles,
         hd[h].kind = "trans", hd[h].dirty, hd'[h].kind = "closed",
         ~\E m \in Mounts : Crash(m)
  PROVE  hd[h].acked = "error"
<1>h. \A g \in Handles : GoodHandle(hd[g]) /\ hd[g] \in HandleSet
  BY DEF HandleInv, GoodHandle
<1>t. hd \in [Handles -> HandleSet]
  BY DEF TypeOK
<1>1. hd' # hd
  OBVIOUS
<1>2. ~TreeStep
  BY <1>1 DEF TreeStep, Rename, Link, Unlink, Setattr, LocalEdit
<1>3. PICK g \in Handles : HandleStep(g)
  BY <1>1, <1>2 DEF Next, vars
<1>4. ASSUME NEW r, hd' = [hd EXCEPT ![g] = r] PROVE g = h /\ hd'[h] = r
  BY <1>1, <1>4, <1>t
<1>5. ASSUME NEW r, r.kind # "closed", hd' = [hd EXCEPT ![g] = r] PROVE FALSE
  BY <1>4, <1>5
<1>6. ASSUME NEW n \in Names, NEW w \in BOOLEAN, NEW trunc \in BOOLEAN,
             OpenTrans(g, n, w, trunc) \/ OpenLoop(g, n, w) \/ Create(g, n, w, trunc)
      PROVE FALSE
  <2>1. hd[g].kind = "closed" /\ \E r : hd' = [hd EXCEPT ![g] = r]
    BY <1>6 DEF OpenTrans, OpenLoop, Create
  <2> QED
    BY <1>4, <2>1
<1>7. ASSUME NEW off, NEW chunk, Write(g, off, chunk) PROVE FALSE
  <2> DEFINE b == Splice(PreparedBuf(g), off, chunk)
             r == [hd[g] EXCEPT !.prepared = TRUE, !.dirty = TRUE, !.buf = b, !.acked = "none"]
  <2>1. hd[g].kind = "trans" /\ hd' = [hd EXCEPT ![g] = r]
    BY <1>7 DEF Write, Idle
  <2> HIDE DEF b
  <2>2. r.kind = "trans"
    BY <1>h, <2>1 DEF HandleSet
  <2> HIDE DEF r
  <2> QED
    BY <1>5, <2>1, <2>2
<1>8. ASSUME WriteTooFar(g) PROVE FALSE
  <2> DEFINE r == [hd[g] EXCEPT !.prepared = TRUE, !.buf = PreparedBuf(g)]
  <2>1. hd[g].kind = "trans" /\ hd' = [hd EXCEPT ![g] = r]
    BY <1>8 DEF WriteTooFar, Idle
  <2>2. r.kind = "trans"
    BY <1>h, <2>1 DEF HandleSet
  <2> HIDE DEF r
  <2> QED
    BY <1>5, <2>1, <2>2
<1>9. ASSUME NEW op \in {"flush", "release"},
             CommitClean(g, op) \/ CommitRefused(g, op) \/ CommitTruncate(g, op)
      PROVE hd[h].acked = "error"
  <2>1. op = "release" => hd[g].acked # "none"
    BY <1>9 DEF CommitClean, CommitRefused, CommitTruncate, MayRequest
  <2>2. ASSUME CommitTruncate(g, op) PROVE FALSE
    <3> DEFINE r(i) == [hd[g] EXCEPT !.pc = op, !.ino = i,
                                     !.payload = PCommit(hd[g].path, hd[g].buf).content]
    <3>1. hd[g].kind = "trans" /\ \E i \in Inodes \cup {NoInode} : hd' = [hd EXCEPT ![g] = r(i)]
      BY <2>2, <1>h, OpenedInodeType
      DEF CommitTruncate, MayRequest, Idle, GoodHandle, HandleShape
    <3>2. \A i \in Inodes \cup {NoInode} : r(i).kind = "trans"
      BY <1>h, <3>1 DEF HandleSet
    <3> HIDE DEF r
    <3> QED
      BY <1>5, <3>1, <3>2
  <2>3. ASSUME CommitClean(g, op) \/ CommitRefused(g, op) PROVE op = "release" /\ g = h
    <3>1. PICK answer \in {"ok", "error"} : hd' = Settled(g, op, FALSE, answer) /\ hd[g].kind = "trans"
      BY <2>3 DEF CommitClean, CommitRefused, MayRequest, Idle
    <3>2. Answered(hd[g], FALSE, answer).kind = "trans"
      BY <1>h, <3>1 DEF Answered, HandleSet
    <3>3. hd' = [hd EXCEPT ![g] = IF op = "release" THEN ClosedHandle
                                  ELSE Answered(hd[g], FALSE, answer)]
      BY <3>1 DEF Settled
    <3> QED
      BY <1>4, <1>5, <3>2, <3>3
  <2>4. hd[h].acked # "ok"
    BY <1>h DEF GoodHandle, AckedIsSaved
  <2> QED
    BY <1>9, <1>h, <2>1, <2>2, <2>3, <2>4 DEF HandleSet
<1>10. ASSUME CommitWrite(g) \/ \E k \in 0..Len(hd[g].payload) : CommitWriteFails(g, k)
       PROVE hd[h].acked = "error"
  <2>1. PICK wrote \in BOOLEAN, answer \in {"ok", "error"} :
          hd' = Settled(g, hd[g].pc, wrote, answer) /\ hd[g].kind = "trans"
    BY <1>10 DEF CommitWrite, CommitWriteFails
  <2>2. Answered(hd[g], wrote, answer).kind = "trans"
    BY <1>h, <2>1 DEF Answered, HandleSet
  <2>3. hd' = [hd EXCEPT ![g] = IF hd[g].pc = "release" THEN ClosedHandle
                                ELSE Answered(hd[g], wrote, answer)]
    BY <2>1 DEF Settled
  <2>4. g = h /\ hd[g].pc = "release"
    BY <1>4, <1>5, <2>2, <2>3
  <2> QED
    BY <1>h, <2>4 DEF GoodHandle, HandleShape
<1>11. ASSUME NEW text \in RawTexts, LoopWrite(g, text) PROVE FALSE
  BY <1>1, <1>11 DEF LoopWrite
<1>12. ASSUME LoopRelease(g) PROVE FALSE
  BY <1>4, <1>12 DEF LoopRelease
<1> QED
  BY <1>3, <1>6, <1>7, <1>8, <1>9, <1>10, <1>11, <1>12 DEF HandleStep, AppendToEnd

(***************************************************************************)
(* The edits of a handle are given up only after a FLUSH has reported that *)
(* they were not saved (or in a crash), also when it is the write of the   *)
(* RELEASE that fails half-way (fs.go:165, 233-235): RELEASE follows a     *)
(* FLUSH, and a handle whose last FLUSH was answered "ok" is clean.        *)
(***************************************************************************)
THEOREM NoSilentLoss == Spec => LossIsReported
<1>1. TypeOK /\ HandleInv /\ [Next]_vars =>
        [\A h \in Handles :
           hd[h].kind = "trans" /\ hd[h].dirty /\ hd'[h].kind = "closed"
           => hd[h].acked = "error" \/ \E m \in Mounts : Crash(m)]_vars
  BY LossStep
<1> QED
  BY <1>1, HandleInvHolds, PTL DEF Spec, LossIsReported
=============================================================================
