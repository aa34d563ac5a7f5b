----------------------------- MODULE TransFile -----------------------------
(***************************************************************************)
(* The open files of the mount (internal/mountfs/fs.go) over the source    *)
(* file system they read and write.  A name that is transformed is served  *)
(* by a transFileHandle, which buffers the whole view of the file and      *)
(* writes it back through the pipeline on Flush and Release; a temporary,  *)
(* backup or lock name is served by a loopback file, byte for byte.        *)
(*                                                                         *)
(* One action is one critical section of the handle's mutex, except that   *)
(* os.WriteFile is two: it opens and truncates the file in one system call *)
(* and writes it in another.  Reading the file and running Serve, and      *)
(* running Commit and the truncating open, are one step each: the pipeline *)
(* works on the handle's own bytes, which the mutex protects.              *)
(***************************************************************************)
EXTENDS ByteSeq, FiniteSets

CONSTANTS
  Names,          \* the files of one directory of the source tree
  TempNames,      \* those whose base name shouldTransformPath lets through
  ApplyToAll,     \* apply_to_all_files of settings.json
  AgentName,      \* the name ".env.agent"
  NoName,         \* the path of a handle that is not open
  Inodes,         \* the files of the source file system
  NoInode,        \* what a name without a file is bound to
  Missing,        \* the content of a file that is not there
  Mounts,         \* llmfs processes mounted on the tree
  Handles,        \* open files, of all mounts
  MountOf,        \* the mount a handle belongs to
  Contents,       \* what a source file may hold
  Views,          \* what a handle's buffer may hold
  PServe(_, _, _),  \* Pipeline.Serve(name, raw, agent)
  PCommit(_, _)     \* Pipeline.Commit(name, view)

\* What the clients and the local user do in an instance, and its bounds.
CONSTANTS
  Chunks,         \* the data of a Write
  Offsets,        \* the offsets of a Write
  RawTexts,       \* what is written to a loopback file
  Edits,          \* <<name, content>>: edits by local tools, outside the mount
  Renames,        \* <<from, to>>: renames through the mount or outside it
  Links,          \* <<from, to>>: hard links, likewise
  Removable,      \* names that may be removed
  Cuts,           \* <<name, size>>: truncations by path (SETATTR)
  Exclusive,      \* TRUE: at most one writable handle per name at a time
  DiskFaults,     \* TRUE: os.WriteFile may fail
  Crashes         \* TRUE: a mount may die with its handles open

ASSUME NamesAssumption ==
  /\ TempNames \subseteq Names
  /\ NoName \notin Names
  /\ NoInode \notin Inodes
  /\ Missing \notin Contents
  /\ ApplyToAll \in BOOLEAN
  /\ MountOf \in [Handles -> Mounts]
  /\ Renames \subseteq Names \X Names
  /\ Links \subseteq Names \X Names
  /\ Removable \subseteq Names
  /\ Edits \subseteq Names \X Contents
  /\ Cuts \subseteq Names \X Nat
  /\ RawTexts \subseteq Contents

\* The bytes an instance can hold are closed under what the system calls do.
ASSUME ContentAssumption ==
  /\ Empty \in Contents /\ Empty \in Views
  /\ \A old, new \in Contents : WriteAtStart(old, new) \in Contents
  /\ \A old \in Contents : \A k \in 0..Len(old) : FirstBytes(old, k) \in Contents

ASSUME BytesAssumption ==
  /\ \A s \in Contents \cup Views \cup Chunks : IsBytes(s)
  /\ Offsets \subseteq Nat

Errs == {"ok", "rejected", "failed"}
IsAnswer(r) == r = [err |-> r.err, content |-> r.content]

\* The pipeline answers with bytes or with an error, for every name and content.
ASSUME PipelineAssumption ==
  /\ \A n \in Names, raw \in Contents, agent \in Contents \cup {Missing} :
        PServe(n, raw, agent).err \in Errs
  /\ \A n \in Names, raw \in Contents, agent \in Contents \cup {Missing} :
        PServe(n, raw, agent).err = "ok" => PServe(n, raw, agent).content \in Views
  /\ \A n \in Names, v \in Views : PCommit(n, v).err \in Errs
  /\ \A n \in Names, v \in Views :
        PCommit(n, v).err = "ok" => PCommit(n, v).content \in Contents
  /\ \A n \in Names, v \in Views : IsAnswer(PCommit(n, v))

VARIABLES
  dir,      \* dir[n]: the inode a name is bound to
  data,     \* data[i]: the bytes of an inode
  origin,   \* origin[i]: "view" once a loopback write put a client's bytes there
  hd        \* hd[h]: the state of an open file

vars == <<dir, data, origin, hd>>

shouldTransformPath(n) == ApplyToAll /\ n \notin TempNames

(***************************************************************************)
(* A handle.  transFileHandle's flags are kept as writable (O_WRONLY or    *)
(* O_RDWR) and reset (O_TRUNC, or made by Create).  pc is the request that *)
(* holds the mutex inside os.WriteFile, ino and payload the file it has    *)
(* truncated and the bytes it is about to write.  acked is what the kernel *)
(* remembers: the answer to the last FLUSH, "none" after a WRITE.  A       *)
(* loopback handle has only ino, the file its descriptor is open on.       *)
(***************************************************************************)
HandleSet ==
  [kind : {"closed", "trans", "loop"}, path : Names \cup {NoName},
   writable : BOOLEAN, reset : BOOLEAN,
   prepared : BOOLEAN, dirty : BOOLEAN, buf : Views,
   pc : {"idle", "flush", "release"},
   ino : Inodes \cup {NoInode}, payload : Contents,
   acked : {"none", "ok", "error"}]

ClosedHandle ==
  [kind |-> "closed", path |-> NoName, writable |-> FALSE, reset |-> FALSE,
   prepared |-> FALSE, dirty |-> FALSE, buf |-> Empty,
   pc |-> "idle", ino |-> NoInode, payload |-> Empty, acked |-> "none"]

newTransFileHandle(n, w, reset) ==
  [ClosedHandle EXCEPT !.kind = "trans", !.path = n, !.writable = w, !.reset = reset]

LoopHandle(n, w, i) ==
  [ClosedHandle EXCEPT !.kind = "loop", !.path = n, !.writable = w, !.ino = i]

TypeOK ==
  /\ dir \in [Names -> Inodes \cup {NoInode}]
  /\ data \in [Inodes -> Contents]
  /\ origin \in [Inodes -> {"source", "view"}]
  /\ hd \in [Handles -> HandleSet]

\* The tree as it is before the mount: no two names share a file, any contents
\* are its own.
Init ==
  /\ dir \in [Names -> Inodes \cup {NoInode}]
  /\ \A m, n \in Names : dir[m] = dir[n] /\ dir[m] # NoInode => m = n
  /\ data \in [Inodes -> Contents]
  /\ origin = [i \in Inodes |-> "source"]
  /\ hd = [h \in Handles |-> ClosedHandle]

-----------------------------------------------------------------------------
(* What the handlers compute. *)

File(n) == IF dir[n] = NoInode THEN Missing ELSE data[dir[n]]

\* os.ReadFile with "not exist" taken as no bytes.
RawOrEmpty(n) == IF dir[n] = NoInode THEN Empty ELSE data[dir[n]]

Agent == IF AgentName \in Names THEN File(AgentName) ELSE Missing

ServeNow(n) == PServe(n, RawOrEmpty(n), Agent)

\* Faulty: a request enters while another writes the file.
IdleWhileWriting(h) == hd[h].kind = "trans"

\* A request on h may enter: it is a transformed handle and its mutex is free.
Idle(h) == hd[h].kind = "trans" /\ hd[h].pc = "idle"

\* An inode no name is bound to and no descriptor is open on.
Unused(i) == /\ \A n \in Names : dir[n] # i
             /\ \A h \in Handles : hd[h].ino # i

\* The file that open(O_CREATE) of n opens: the one there, or a new one.
OpenedInode(n) == IF dir[n] # NoInode THEN {dir[n]} ELSE {i \in Inodes : Unused(i)}

\* currentViewLocked: what a READ is answered from.  A missing file is an empty
\* view without asking the pipeline.
currentView(h) ==
  IF hd[h].prepared THEN [err |-> "ok", content |-> hd[h].buf]
  ELSE IF dir[hd[h].path] = NoInode THEN [err |-> "ok", content |-> Empty]
  ELSE ServeNow(hd[h].path)

\* Faulty: a buffer that is emptied anyway is not served.
MayPrepareOnReset(h) == hd[h].prepared \/ hd[h].reset \/ ServeNow(hd[h].path).err = "ok"

\* prepareWriteLocked: the pipeline is asked even for a buffer that O_TRUNC or
\* Create empties right after, and for a missing file.
MayPrepare(h) == hd[h].prepared \/ ServeNow(hd[h].path).err = "ok"

\* Faulty: the buffer starts from the bytes of the file, not from its view.
PreparedBufRaw(h) ==
  IF hd[h].prepared THEN hd[h].buf
  ELSE IF hd[h].reset THEN Empty ELSE RawOrEmpty(hd[h].path)

PreparedBuf(h) ==
  IF hd[h].prepared THEN hd[h].buf
  ELSE IF hd[h].reset THEN Empty ELSE ServeNow(hd[h].path).content

\* The discipline of an instance with one writer per name; not the code's.
MayOpen(n, w) ==
  Exclusive /\ w => \A h \in Handles :
    ~(hd[h].kind = "trans" /\ hd[h].writable /\ hd[h].path = n)

-----------------------------------------------------------------------------
(* Opening. *)

\* Open of a transformed name: nothing is read yet.
OpenTrans(h, n, w, trunc) ==
  /\ hd[h].kind = "closed"
  /\ shouldTransformPath(n)
  /\ dir[n] # NoInode
  /\ MayOpen(n, w)
  /\ hd' = [hd EXCEPT ![h] = newTransFileHandle(n, w, trunc)]
  /\ UNCHANGED <<dir, data, origin>>

\* Open of a name that is not: LoopbackNode.Open, a descriptor on the file.
OpenLoop(h, n, w) ==
  /\ hd[h].kind = "closed"
  /\ ~shouldTransformPath(n)
  /\ dir[n] # NoInode
  /\ hd' = [hd EXCEPT ![h] = LoopHandle(n, w, dir[n])]
  /\ UNCHANGED <<dir, data, origin>>

\* Faulty: Create returns the loopback file for every name.
CreateLoopback(h, n, w, trunc) ==
  /\ hd[h].kind = "closed"
  /\ \E i \in OpenedInode(n) :
       /\ dir' = [dir EXCEPT ![n] = i]
       /\ data' = [data EXCEPT ![i] = Empty]
       /\ origin' = [origin EXCEPT ![i] = "source"]
       /\ hd' = [hd EXCEPT ![h] = LoopHandle(n, w, i)]

(***************************************************************************)
(* Create: LoopbackNode.Create opens the file with O_CREATE and the        *)
(* client's flags.  The file may be there already, when it appeared after  *)
(* the kernel looked the name up.  For a transformed name the descriptor   *)
(* is released at once and the handle is marked created.                   *)
(***************************************************************************)
Create(h, n, w, trunc) ==
  /\ hd[h].kind = "closed"
  /\ MayOpen(n, w \/ trunc)
  /\ \E i \in OpenedInode(n) :
       /\ dir' = [dir EXCEPT ![n] = i]
       /\ data' = IF dir[n] # NoInode /\ ~trunc THEN data ELSE [data EXCEPT ![i] = Empty]
       /\ origin' = IF dir[n] # NoInode /\ ~trunc THEN origin
                    ELSE [origin EXCEPT ![i] = "source"]
       /\ hd' = [hd EXCEPT ![h] = IF shouldTransformPath(n)
                                  THEN newTransFileHandle(n, w, TRUE)
                                  ELSE LoopHandle(n, w, i)]

-----------------------------------------------------------------------------
(* Writing through a transformed handle. *)

\* Write of at least one byte.  A refused one (no write access, a pipeline that
\* rejects or fails) and an empty one change nothing.
Write(h, off, chunk) ==
  /\ Idle(h)
  /\ hd[h].writable
  /\ Len(chunk) > 0
  /\ MayPrepare(h)
  /\ LET b == Splice(PreparedBuf(h), off, chunk)
     IN /\ b \in Views
        /\ hd' = [hd EXCEPT ![h] = [@ EXCEPT !.prepared = TRUE, !.dirty = TRUE,
                                             !.buf = b, !.acked = "none"]]
  /\ UNCHANGED <<dir, data, origin>>

(***************************************************************************)
(* A write of a client that opened with O_APPEND, or that went to the end  *)
(* first.  The kernel takes the size it knows as the offset: that of the   *)
(* raw file (Getattr is LoopbackNode's), or the end of an earlier write.   *)
(***************************************************************************)
AppendToEnd(h, chunk) ==
  /\ Idle(h)
  /\ LET raw == RawOrEmpty(hd[h].path)
     IN \E off \in {Len(raw), LongerLen(raw, hd[h].buf)} : Write(h, off, chunk)

\* Write at an offset no slice can have: make or the slice expression panics,
\* recoverAsErrno answers EIO, and the handle stays prepared.
WriteTooFar(h) ==
  /\ Idle(h)
  /\ hd[h].writable
  /\ MayPrepare(h)
  /\ hd' = [hd EXCEPT ![h] = [@ EXCEPT !.prepared = TRUE, !.buf = PreparedBuf(h)]]
  /\ UNCHANGED <<dir, data, origin>>

\* The kernel sends RELEASE after the FLUSH of the last close, with no WRITE between.
MayRequest(h, op) ==
  Idle(h) /\ (op = "release" => hd[h].acked # "none")

\* Faulty: the handle is clean even when the commit failed.
AnsweredClean(r, wrote, answer) ==
  [r EXCEPT !.pc = "idle", !.ino = NoInode, !.payload = Empty, !.dirty = FALSE, !.acked = answer]

\* Faulty: the error of the commit is dropped.
AnsweredOk(r, wrote, answer) ==
  [r EXCEPT !.pc = "idle", !.ino = NoInode, !.payload = Empty,
            !.dirty = r.dirty /\ ~wrote, !.acked = "ok"]

\* How a request ends: a FLUSH leaves the handle open, a RELEASE forgets it.
Answered(r, wrote, answer) ==
  [r EXCEPT !.pc = "idle", !.ino = NoInode, !.payload = Empty,
            !.dirty = r.dirty /\ ~wrote, !.acked = answer]

\* Faulty: a RELEASE that could not save keeps the handle.
SettledKeeps(h, op, wrote, answer) ==
  [hd EXCEPT ![h] = IF op = "release" /\ (wrote \/ ~hd[h].dirty) THEN ClosedHandle
                    ELSE Answered(hd[h], wrote, answer)]

Settled(h, op, wrote, answer) ==
  [hd EXCEPT ![h] = IF op = "release" THEN ClosedHandle
                    ELSE Answered(hd[h], wrote, answer)]

\* commitLocked with nothing to write.
CommitClean(h, op) ==
  /\ MayRequest(h, op)
  /\ ~hd[h].dirty
  /\ hd' = Settled(h, op, FALSE, "ok")
  /\ UNCHANGED <<dir, data, origin>>

\* commitLocked when the pipeline refuses the buffer, or the file cannot be
\* opened: an error, and the handle stays dirty.
CommitRefused(h, op) ==
  /\ MayRequest(h, op)
  /\ hd[h].dirty
  /\ DiskFaults \/ PCommit(hd[h].path, hd[h].buf).err # "ok"
  /\ hd' = Settled(h, op, FALSE, "error")
  /\ UNCHANGED <<dir, data, origin>>

\* Faulty: the buffer is written without Pipeline.Commit.
CommitTruncateRaw(h, op) ==
  /\ MayRequest(h, op)
  /\ hd[h].dirty
  /\ LET n == hd[h].path
     IN \E i \in OpenedInode(n) :
          /\ dir' = [dir EXCEPT ![n] = i]
          /\ data' = [data EXCEPT ![i] = Empty]
          /\ origin' = [origin EXCEPT ![i] = "source"]
          /\ hd' = [hd EXCEPT ![h] = [@ EXCEPT !.pc = op, !.ino = i, !.payload = hd[h].buf]]

\* Faulty: the file is opened without O_TRUNC.
CommitOpen(h, op) ==
  /\ MayRequest(h, op)
  /\ hd[h].dirty
  /\ LET n == hd[h].path
         r == PCommit(n, hd[h].buf)
     IN /\ r.err = "ok"
        /\ \E i \in OpenedInode(n) :
             /\ dir' = [dir EXCEPT ![n] = i]
             /\ hd' = [hd EXCEPT ![h] = [@ EXCEPT !.pc = op, !.ino = i,
                                                  !.payload = r.content]]
  /\ UNCHANGED <<data, origin>>

\* commitLocked up to the open(O_WRONLY|O_CREATE|O_TRUNC) of os.WriteFile.
CommitTruncate(h, op) ==
  /\ MayRequest(h, op)
  /\ hd[h].dirty
  /\ LET n == hd[h].path
         r == PCommit(n, hd[h].buf)
     IN /\ r.err = "ok"
        /\ \E i \in OpenedInode(n) :
             /\ dir' = [dir EXCEPT ![n] = i]
             /\ data' = [data EXCEPT ![i] = Empty]
             /\ origin' = [origin EXCEPT ![i] = "source"]
             /\ hd' = [hd EXCEPT ![h] = [@ EXCEPT !.pc = op, !.ino = i,
                                                  !.payload = r.content]]

\* The write of os.WriteFile, and the return of commitLocked.
CommitWrite(h) ==
  /\ hd[h].kind = "trans" /\ hd[h].pc # "idle"
  /\ data' = [data EXCEPT ![hd[h].ino] = WriteAtStart(@, hd[h].payload)]
  /\ hd' = Settled(h, hd[h].pc, TRUE, "ok")
  /\ UNCHANGED <<dir, origin>>

\* The write stops after k bytes: an error, the handle stays dirty.
CommitWriteFails(h, k) ==
  /\ DiskFaults
  /\ hd[h].kind = "trans" /\ hd[h].pc # "idle"
  /\ data' = [data EXCEPT ![hd[h].ino] = WriteAtStart(@, FirstBytes(hd[h].payload, k))]
  /\ hd' = Settled(h, hd[h].pc, FALSE, "error")
  /\ UNCHANGED <<dir, origin>>

-----------------------------------------------------------------------------
(* Loopback files: go-fuse's loopback handle, straight to the file. *)

LoopWrite(h, text) ==
  /\ hd[h].kind = "loop"
  /\ hd[h].writable
  /\ data' = [data EXCEPT ![hd[h].ino] = text]
  /\ origin' = [origin EXCEPT ![hd[h].ino] = "view"]
  /\ UNCHANGED <<dir, hd>>

LoopRelease(h) ==
  /\ hd[h].kind = "loop"
  /\ hd' = [hd EXCEPT ![h] = ClosedHandle]
  /\ UNCHANGED <<dir, data, origin>>

-----------------------------------------------------------------------------
(* The rest of the file system.  TransNode takes these from LoopbackNode:  *)
(* they act on the source tree and know no open handle.  The local user's  *)
(* tools do the same without the mount.                                    *)

Rename(a, b) ==
  /\ <<a, b>> \in Renames
  /\ a # b /\ dir[a] # NoInode
  /\ dir' = [dir EXCEPT ![b] = dir[a], ![a] = NoInode]
  /\ UNCHANGED <<data, origin, hd>>

Link(a, b) ==
  /\ <<a, b>> \in Links
  /\ dir[a] # NoInode /\ dir[b] = NoInode
  /\ dir' = [dir EXCEPT ![b] = dir[a]]
  /\ UNCHANGED <<data, origin, hd>>

Unlink(n) ==
  /\ n \in Removable
  /\ dir[n] # NoInode
  /\ dir' = [dir EXCEPT ![n] = NoInode]
  /\ UNCHANGED <<data, origin, hd>>

\* SETATTR with a size: no handle of the mount implements it, so the source
\* file is cut at that many raw bytes and no buffer is told.
Setattr(n, size) ==
  /\ <<n, size>> \in Cuts
  /\ dir[n] # NoInode
  /\ size <= Len(data[dir[n]])
  /\ data' = [data EXCEPT ![dir[n]] = FirstBytes(@, size)]
  /\ UNCHANGED <<dir, origin, hd>>

\* A local tool writes the file outside the mount.
LocalEdit(n, text) ==
  /\ <<n, text>> \in Edits
  /\ \E i \in OpenedInode(n) :
       /\ dir' = [dir EXCEPT ![n] = i]
       /\ data' = [data EXCEPT ![i] = text]
       /\ origin' = [origin EXCEPT ![i] = "source"]
  /\ UNCHANGED hd

\* The process of a mount ends (a kill, the second interrupt's os.Exit, no
\* memory): its handles are gone, the files are as they are.
Crash(m) ==
  /\ Crashes
  /\ \E h \in Handles : MountOf[h] = m /\ hd[h].kind # "closed"
  /\ hd' = [h \in Handles |-> IF MountOf[h] = m THEN ClosedHandle ELSE hd[h]]
  /\ UNCHANGED <<dir, data, origin>>

-----------------------------------------------------------------------------
HandleStep(h) ==
  \/ \E n \in Names, w, trunc \in BOOLEAN : OpenTrans(h, n, w, trunc)
  \/ \E n \in Names, w \in BOOLEAN : OpenLoop(h, n, w)
  \/ \E n \in Names, w, trunc \in BOOLEAN : Create(h, n, w, trunc)
  \/ \E off \in Offsets, chunk \in Chunks : Write(h, off, chunk)
  \/ \E chunk \in Chunks : AppendToEnd(h, chunk)
  \/ WriteTooFar(h)
  \/ \E op \in {"flush", "release"} :
       CommitClean(h, op) \/ CommitRefused(h, op) \/ CommitTruncate(h, op)
  \/ CommitWrite(h)
  \/ \E k \in 0..Len(hd[h].payload) : CommitWriteFails(h, k)
  \/ \E text \in RawTexts : LoopWrite(h, text)
  \/ LoopRelease(h)

TreeStep ==
  \/ \E a, b \in Names : Rename(a, b) \/ Link(a, b)
  \/ \E n \in Names : Unlink(n)
  \/ \E cut \in Cuts : Setattr(cut[1], cut[2])
  \/ \E edit \in Edits : LocalEdit(edit[1], edit[2])

Next ==
  \/ \E h \in Handles : HandleStep(h)
  \/ TreeStep
  \/ \E m \in Mounts : Crash(m)

Spec == Init /\ [][Next]_vars

(***************************************************************************)
(* A system call that has begun returns; a client closes its file at some  *)
(* time, so the kernel sends FLUSH, and RELEASE after the last FLUSH.      *)
(* RELEASE is enabled only until the next WRITE, hence the strong fairness.*)
(***************************************************************************)
CommitStep(h, op) == CommitClean(h, op) \/ CommitRefused(h, op) \/ CommitTruncate(h, op)

Fairness == \A h \in Handles :
  /\ WF_vars(CommitWrite(h) \/ \E k \in 0..Len(hd[h].payload) : CommitWriteFails(h, k))
  /\ WF_vars(CommitStep(h, "flush"))
  /\ SF_vars(CommitStep(h, "release"))

FairSpec == Spec /\ Fairness

-----------------------------------------------------------------------------
(* Properties. *)

(***************************************************************************)
(* "Your real files on disk stay canonical" (README.md:5): no source file  *)
(* under a transformed name holds bytes a client put there in view form,   *)
(* without the pipeline having decoded them.                               *)
(***************************************************************************)
SourceCanonical ==
  \A n \in Names : shouldTransformPath(n) /\ dir[n] # NoInode => origin[dir[n]] = "source"

(***************************************************************************)
(* Names the pipeline never serves (deny_env_dotfiles: ".env.*").  No      *)
(* handle on one ever holds a buffer, not even a truncating or a created   *)
(* one, so none can be dirty and no commit through the mount touches it;   *)
(* and a READ of such a file, if it is there, is always refused.           *)
(***************************************************************************)
Denied ==
  {n \in Names : \A raw \in Contents, agent \in Contents \cup {Missing} :
                    PServe(n, raw, agent).err # "ok"}

DeniedNeverPrepared ==
  \A h \in Handles : hd[h].kind = "trans" /\ hd[h].path \in Denied =>
    /\ ~hd[h].prepared /\ ~hd[h].dirty
    /\ dir[hd[h].path] # NoInode => currentView(h).err # "ok"

(***************************************************************************)
(* While os.WriteFile runs, the bytes being written are the commit of the  *)
(* buffer the handle still has, so that dirty = FALSE afterwards forgets   *)
(* no write (the mutex is held from the check of dirty to its reset); and  *)
(* only a writable handle gets there.                                      *)
(***************************************************************************)
CommitIsOfBuffer ==
  \A h \in Handles : hd[h].pc # "idle" =>
    /\ hd[h].dirty /\ hd[h].prepared /\ hd[h].writable
    /\ PCommit(hd[h].path, hd[h].buf).err = "ok"
    /\ PCommit(hd[h].path, hd[h].buf).content = hd[h].payload

(***************************************************************************)
(* A handle with nothing to write agrees with the file: committing its     *)
(* buffer again would give the bytes that are there.  The exception is a   *)
(* truncating handle without any write yet.  Needs one writer per name and *)
(* no one else at the files (Exclusive, no Renames, Edits, ...).           *)
(***************************************************************************)
CleanBufferIsSource ==
  \A h \in Handles :
    /\ Idle(h) /\ hd[h].writable /\ hd[h].prepared /\ ~hd[h].dirty
    /\ ~(hd[h].reset /\ hd[h].buf = Empty)
    => PCommit(hd[h].path, hd[h].buf) = [err |-> "ok", content |-> RawOrEmpty(hd[h].path)]

(***************************************************************************)
(* A dirty handle is forgotten only when a close already reported a        *)
(* failure: the last FLUSH was answered with an error.  RELEASE's own      *)
(* error reaches nobody, whether the pipeline refuses the buffer or        *)
(* os.WriteFile fails after it has truncated the file.  A crash is the     *)
(* exception.                                                              *)
(***************************************************************************)
LossIsReported ==
  [][\A h \in Handles :
       hd[h].kind = "trans" /\ hd[h].dirty /\ hd'[h].kind = "closed"
       => hd[h].acked = "error" \/ \E m \in Mounts : Crash(m)]_vars

(***************************************************************************)
(* A FLUSH that makes its handle clean leaves the commit of the buffer and *)
(* nothing else, in the file under the handle's path: "writes decode back  *)
(* to source files" (docs/DEEP_DIVE.md:181).                               *)
(***************************************************************************)
SavedIsWhole ==
  [][\A h \in Handles :
       hd[h].dirty /\ hd'[h].kind = "trans" /\ ~hd'[h].dirty
       => PCommit(hd[h].path, hd[h].buf) =
            [err |-> "ok", content |-> data'[dir'[hd[h].path]]]]_vars

(***************************************************************************)
(* Saving exactly what the mount serves at this moment would not change    *)
(* the source file: what serve did, commit undoes ("writes return through  *)
(* the inverse path", README.md:14).                                       *)
(***************************************************************************)
UnchangedSaveIsNoOp ==
  \A h \in Handles :
    /\ Idle(h) /\ hd[h].dirty
    /\ ServeNow(hd[h].path) = [err |-> "ok", content |-> hd[h].buf]
    => PCommit(hd[h].path, hd[h].buf) = [err |-> "ok", content |-> RawOrEmpty(hd[h].path)]

(***************************************************************************)
(* A file that is opened to be updated, and holds in its buffer exactly    *)
(* what the mount serves when it is closed, gets the bytes it had: "writes *)
(* return through the inverse path (commit) before being saved back to the *)
(* source files" (README.md:14).  O_TRUNC and Create are left out, they    *)
(* empty the buffer first.                                                 *)
(***************************************************************************)
UpdateWritesBack ==
  [][\A h \in Handles :
       /\ CommitTruncate(h, "flush") /\ ~hd[h].reset
       /\ ServeNow(hd[h].path) = [err |-> "ok", content |-> hd[h].buf]
       => hd'[h].payload = RawOrEmpty(hd[h].path)]_vars

(***************************************************************************)
(* Bytes appended to a file come after what the mount serves of it: a view *)
(* "of real files; writes decode back to source files"                     *)
(* (docs/DEEP_DIVE.md:181).                                                *)
(***************************************************************************)
AppendKeepsView ==
  [][\A h \in Handles, chunk \in Chunks :
       AppendToEnd(h, chunk) => FirstBytes(hd'[h].buf, Len(PreparedBuf(h))) = PreparedBuf(h)]_vars

\* Every edit is settled: saved, or given up when its file is closed.
DirtySettles == \A h \in Handles : hd[h].dirty ~> ~hd[h].dirty

-----------------------------------------------------------------------------
(***************************************************************************)
(* The inductive invariants behind the theorems.  What is always true of   *)
(* one handle is a predicate of its record: no other handle and no file    *)
(* can disturb it.                                                         *)
(***************************************************************************)
HandleShape(r) ==
  /\ r.kind = "closed" => r.ino = NoInode
  /\ r.kind = "loop" => r.ino \in Inodes
  /\ r.kind = "trans" => r.path \in Names
  /\ r.kind # "trans" => ~r.prepared /\ ~r.dirty /\ r.pc = "idle"
  /\ r.dirty => r.prepared /\ r.writable
  /\ r.pc # "idle" => r.dirty /\ r.ino \in Inodes
  /\ r.pc = "release" => r.acked = "error"

\* An answer "ok" to the last FLUSH means that nothing is unsaved.
AckedIsSaved(r) == r.acked = "ok" => ~r.dirty

GoodHandle(r) ==
  /\ r \in HandleSet
  /\ HandleShape(r)
  /\ AckedIsSaved(r)
  /\ r.prepared => r.path \notin Denied
  /\ r.pc # "idle" => /\ PCommit(r.path, r.buf).err = "ok"
                      /\ PCommit(r.path, r.buf).content = r.payload

HandleInv == \A h \in Handles : GoodHandle(hd[h])

(***************************************************************************)
(* Why a loopback write never reaches a transformed name, when no rename   *)
(* gives such a name to a file from a temporary one and no hard link makes *)
(* one file of the two kinds: a file under a transformed name has no other *)
(* name, and no loopback descriptor is open on it.                         *)
(***************************************************************************)
Discipline ==
  /\ \A p \in Renames : shouldTransformPath(p[2]) => shouldTransformPath(p[1])
  /\ \A p \in Links : ~shouldTransformPath(p[1]) /\ ~shouldTransformPath(p[2])

SourceUnshared ==
  \A a, b \in Names :
    shouldTransformPath(a) /\ dir[a] # NoInode /\ a # b => dir[a] # dir[b]

NoLoopOnSource ==
  \A h \in Handles, n \in Names :
    hd[h].kind = "loop" /\ shouldTransformPath(n) => dir[n] # hd[h].ino

CanonicalInv == SourceUnshared /\ NoLoopOnSource /\ SourceCanonical
=============================================================================
