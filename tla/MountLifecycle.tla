--------------------------- MODULE MountLifecycle ---------------------------
(***************************************************************************)
(* llmfs processes that mount the source tree at one mount point, from     *)
(* prepareMountpoint to the end of Mount (internal/mountfs/mount.go): the  *)
(* recovery from a mount that a dead process left behind, and the          *)
(* interrupts.  Each system call, and each run of an unmount helper, is a  *)
(* step, so that processes interleave between them.                        *)
(***************************************************************************)
EXTENDS Integers, Sequences, FiniteSets, SequencesExt

CONSTANTS
  Procs,
  Tries,      \* calls of forceUnmount: unmount(2) twice, then each helper installed
  Stacking,   \* TRUE: fs.Mount over a live mount succeeds, FALSE: it is busy
  MtabTrue,   \* TRUE: a helper says "not mounted" of no live mount
  OneStart,   \* TRUE: nobody starts llmfs while another start is under way
  MaxStack,   \* mounts on the mount point, one over the other
  MaxKills    \* processes that die without unmounting

ASSUME MountAssumption ==
  /\ Tries \in Nat /\ Tries >= 2 /\ MaxStack \in Nat \ {0} /\ MaxKills \in Nat
  /\ Stacking \in BOOLEAN /\ MtabTrue \in BOOLEAN /\ OneStart \in BOOLEAN

VARIABLES
  stack,    \* the mounts on the mount point, each with its process
  parent,   \* "stale": a dead mount covers the directory of the mount point
  entry,    \* what is at the mount point underneath
  source,   \* the files of the source tree: "intact", or "emptied" by a RemoveAll
  kills,
  ps        \* ps[p]: where process p is

vars == <<stack, parent, entry, source, kills, ps>>

MountSet == [by : Procs, live : BOOLEAN]
MountOf(p) == [by |-> p, live |-> TRUE]

(***************************************************************************)
(* Where a process is.  retry: mountWithRecovery is at its second try;     *)
(* from: who called recoverStaleMounts; target and try: where the loop     *)
(* over staleMountTargets and forceUnmount are.                            *)
(***************************************************************************)
Starting == {"stat", "replace", "mkdir", "mount", "unmount", "remove", "recreate"}
Up == {"ready", "serving", "unmounting", "waiting", "deaf"}

Process == [pc : Starting \cup Up \cup {"down", "failed"}, retry : BOOLEAN,
            from : {"prepare", "mount"}, target : {"mountpoint", "parent"}, try : 1..Tries]

Down == [pc |-> "down", retry |-> FALSE, from |-> "prepare", target |-> "mountpoint", try |-> 1]

TypeOK ==
  /\ stack \in BoundedSeq(MountSet, MaxStack)
  /\ parent \in {"plain", "stale"}
  /\ entry \in {"absent", "file", "dir"}
  /\ source \in {"intact", "emptied"}
  /\ kills \in 0..MaxKills
  /\ ps \in [Procs -> Process]

Init ==
  /\ stack = << >>
  /\ parent \in {"plain", "stale"}
  /\ entry \in {"absent", "file", "dir"}
  /\ source = "intact" /\ kills = 0
  /\ ps = [p \in Procs |-> Down]

-----------------------------------------------------------------------------
\* stat of the mount point answers ENOTCONN; a live mount answers it; a directory is there.
Disconnected == parent = "stale" \/ (stack # << >> /\ ~Last(stack).live)
LiveOnTop == ~Disconnected /\ stack # << >>
Plain(kind) == ~Disconnected /\ stack = << >> /\ entry = kind

Serves(p) == MountOf(p) \in ToSet(stack)

GoTo(p, pc) == ps' = [ps EXCEPT ![p].pc = pc]

Recover(p, from) ==
  ps' = [ps EXCEPT ![p].pc = "unmount", ![p].from = from,
                   ![p].target = "mountpoint", ![p].try = 1]

\* The process is gone; the kernel keeps its mount, dead.
Dies(p) ==
  /\ kills < MaxKills
  /\ kills' = kills + 1
  /\ stack' = [k \in DOMAIN stack |->
                 IF stack[k].by = p THEN [stack[k] EXCEPT !.live = FALSE] ELSE stack[k]]
  /\ ps' = [ps EXCEPT ![p] = Down]
  /\ UNCHANGED <<parent, entry, source>>

Start(p) ==
  /\ ps[p].pc \in {"down", "failed"}
  /\ OneStart => \A q \in Procs : ps[q].pc \notin Starting
  /\ ps' = [ps EXCEPT ![p] = [Down EXCEPT !.pc = "stat"]]
  /\ UNCHANGED <<stack, parent, entry, source, kills>>

-----------------------------------------------------------------------------
(* prepareMountpoint. *)

Stat(p) ==
  /\ ps[p].pc = "stat"
  /\ \/ Disconnected /\ Recover(p, "prepare")
     \/ (LiveOnTop \/ Plain("dir")) /\ GoTo(p, "mount")
     \/ Plain("file") /\ GoTo(p, "replace")
     \/ Plain("absent") /\ GoTo(p, "mkdir")
  /\ UNCHANGED <<stack, parent, entry, source, kills>>

\* os.Remove of what was a file: it fails on a mount and on nothing.
Replace(p) ==
  /\ ps[p].pc = "replace"
  /\ \/ (Plain("file") \/ Plain("dir")) /\ entry' = "absent" /\ GoTo(p, "mkdir")
     \/ (Disconnected \/ LiveOnTop \/ Plain("absent")) /\ UNCHANGED entry /\ GoTo(p, "failed")
  /\ UNCHANGED <<stack, parent, source, kills>>

\* os.MkdirAll: it fails on a file and on a dead mount.
Makes(p, next) ==
  \/ Plain("absent") /\ entry' = "dir" /\ next
  \/ (LiveOnTop \/ Plain("dir")) /\ UNCHANGED entry /\ next
  \/ (Disconnected \/ Plain("file")) /\ UNCHANGED entry /\ GoTo(p, "failed")

MkdirAll(p) ==
  /\ ps[p].pc = "mkdir"
  /\ Makes(p, GoTo(p, "mount"))
  /\ UNCHANGED <<stack, parent, source, kills>>

-----------------------------------------------------------------------------
(* mountWithRecovery. *)

FsMount(p) ==
  /\ ps[p].pc = "mount"
  /\ Plain("dir") \/ (LiveOnTop /\ Stacking)
  /\ Len(stack) < MaxStack
  /\ stack' = Append(stack, MountOf(p))
  /\ GoTo(p, "ready")
  /\ UNCHANGED <<parent, entry, source, kills>>

\* Recoverable: "transport endpoint is not connected", "device or resource busy",
\* "file exists", the last two also where no mount is.  Other errors are not.
FsMountFails(p) ==
  /\ ps[p].pc = "mount"
  /\ \/ /\ Disconnected \/ LiveOnTop \/ Plain("dir")
        /\ IF ps[p].retry THEN GoTo(p, "failed") ELSE Recover(p, "mount")
     \/ ~Disconnected /\ GoTo(p, "failed")
  /\ UNCHANGED <<stack, parent, entry, source, kills>>

-----------------------------------------------------------------------------
(* recoverStaleMounts: the mount point, then its parent directory. *)

\* Faulty: the parent directory is not a target.
NextTargetOnly(p) == GoTo(p, "remove")

NextTarget(p) ==
  ps' = IF ps[p].target = "mountpoint"
        THEN [ps EXCEPT ![p].target = "parent", ![p].try = 1]
        ELSE [ps EXCEPT ![p].pc = "remove"]

\* forceUnmount takes one mount away, whoever's it is.
Unmounts(p) ==
  /\ ps[p].pc = "unmount"
  /\ \/ /\ ps[p].target = "mountpoint" /\ parent = "plain" /\ stack # << >>
        /\ stack' = Front(stack) /\ UNCHANGED parent
     \/ /\ ps[p].target = "parent" /\ parent = "stale"
        /\ parent' = "plain" /\ UNCHANGED stack
  /\ NextTarget(p)
  /\ UNCHANGED <<entry, source, kills>>

\* It finds nothing to unmount.  A helper's "not connected", "not mounted" and
\* "not found in /etc/mtab" count as that, whatever unmount(2) said before.
UnmountsNothing(p) ==
  /\ ps[p].pc = "unmount"
  /\ \/ ps[p].target = "mountpoint" /\ parent = "plain" /\ stack = << >>
     \/ ps[p].target = "parent" /\ parent = "plain"
     \/ ps[p].try > 2 /\ (Disconnected \/ (LiveOnTop /\ ~MtabTrue))
  /\ NextTarget(p)
  /\ UNCHANGED <<stack, parent, entry, source, kills>>

\* Faulty: when nothing helps, the recovery goes on all the same.
UnmountGivesUp(p) ==
  /\ ps[p].pc = "unmount"
  /\ IF ps[p].try < Tries THEN ps' = [ps EXCEPT ![p].try = @ + 1] ELSE NextTarget(p)
  /\ UNCHANGED <<stack, parent, entry, source, kills>>

\* Faulty: one try too many.
UnmountOnceMore(p) ==
  /\ ps[p].pc = "unmount"
  /\ IF ps[p].try <= Tries THEN ps' = [ps EXCEPT ![p].try = @ + 1] ELSE GoTo(p, "failed")
  /\ UNCHANGED <<stack, parent, entry, source, kills>>

\* Faulty: unmount(2) is tried again and again, the helpers never.
UnmountAgain(p) ==
  /\ ps[p].pc = "unmount"
  /\ ps' = [ps EXCEPT ![p].try = IF @ = 1 THEN 2 ELSE 1]
  /\ UNCHANGED <<stack, parent, entry, source, kills>>

\* A call or a helper fails (busy, not permitted): the next one is tried.
UnmountFails(p) ==
  /\ ps[p].pc = "unmount"
  /\ IF ps[p].try < Tries THEN ps' = [ps EXCEPT ![p].try = @ + 1] ELSE GoTo(p, "failed")
  /\ UNCHANGED <<stack, parent, entry, source, kills>>

(***************************************************************************)
(* os.RemoveAll of the mount point.  Where a live mount is there, it goes  *)
(* down into it, and the mount removes the files of the source tree.       *)
(***************************************************************************)
RemoveAll(p) ==
  /\ ps[p].pc = "remove"
  /\ \/ Disconnected /\ UNCHANGED <<entry, source>> /\ GoTo(p, "failed")
     \/ LiveOnTop /\ source' = "emptied" /\ UNCHANGED entry /\ GoTo(p, "failed")
     \/ ~Disconnected /\ ~LiveOnTop /\ entry' = "absent" /\ UNCHANGED source /\ GoTo(p, "recreate")
  /\ UNCHANGED <<stack, parent, kills>>

\* Back to the caller: prepareMountpoint is done, mountWithRecovery prepares again.
Recreate(p) ==
  /\ ps[p].pc = "recreate"
  /\ Makes(p, ps' = IF ps[p].from = "prepare" THEN [ps EXCEPT ![p].pc = "mount"]
                    ELSE [ps EXCEPT ![p].pc = "stat", ![p].retry = TRUE])
  /\ UNCHANGED <<stack, parent, source, kills>>

-----------------------------------------------------------------------------
(* Serving, and the end.  "ready": "Press Ctrl+C to unmount" is printed,   *)
(* signal.Notify is not called yet.  "deaf": Unmount failed, the handler   *)
(* has returned and taken the signals off.                                 *)

NotifySignals(p) ==
  /\ ps[p].pc = "ready"
  /\ GoTo(p, "serving")
  /\ UNCHANGED <<stack, parent, entry, source, kills>>

\* An interrupt: the first one unmounts, where the handler is there to hear it.
Interrupt(p) ==
  \/ /\ ps[p].pc = "serving"
     /\ GoTo(p, "unmounting")
     /\ UNCHANGED <<stack, parent, entry, source, kills>>
  \/ /\ ps[p].pc \in Starting \cup {"ready", "unmounting", "waiting", "deaf"}
     /\ Dies(p)

\* Faulty: an unmount that failed is taken for one that will end the serving.
ServerUnmountIgnored(p) ==
  /\ ps[p].pc = "unmounting"
  /\ \/ parent = "plain" /\ stack # << >> /\ stack' = Front(stack)
     \/ UNCHANGED stack
  /\ GoTo(p, "waiting")
  /\ UNCHANGED <<parent, entry, source, kills>>

\* server.Unmount goes by the path: it takes the topmost mount, then waits for
\* its own connection to end.
ServerUnmount(p) ==
  /\ ps[p].pc = "unmounting"
  /\ \/ /\ parent = "plain" /\ stack # << >>
        /\ stack' = Front(stack) /\ GoTo(p, "waiting")
     \/ UNCHANGED stack /\ GoTo(p, "deaf")
  /\ UNCHANGED <<parent, entry, source, kills>>

\* server.Wait returns when the process's own mount is gone, by whoever's hand.
Exit(p) ==
  /\ ps[p].pc \in Up
  /\ ~Serves(p)
  /\ ps' = [ps EXCEPT ![p] = Down]
  /\ UNCHANGED <<stack, parent, entry, source, kills>>

Kill(p) == ps[p].pc \in Up /\ Dies(p)

-----------------------------------------------------------------------------
StartStep(p) ==
  \/ Stat(p) \/ Replace(p) \/ MkdirAll(p) \/ FsMount(p) \/ FsMountFails(p)
  \/ Unmounts(p) \/ UnmountsNothing(p) \/ UnmountFails(p) \/ RemoveAll(p) \/ Recreate(p)

ServeStep(p) == NotifySignals(p) \/ ServerUnmount(p) \/ Exit(p)

Next == \E p \in Procs :
  Start(p) \/ StartStep(p) \/ ServeStep(p) \/ Interrupt(p) \/ Kill(p)

Spec == Init /\ [][Next]_vars

\* A process that runs goes on; the user starts llmfs again when it is down; an
\* unmount that is tried again and again succeeds, or finds nothing, at some time.
FairSpec ==
  /\ Spec
  /\ \A p \in Procs : /\ WF_vars(StartStep(p)) /\ WF_vars(ServeStep(p))
                      /\ WF_vars(Start(p))
                      /\ SF_vars(Unmounts(p)) /\ SF_vars(UnmountsNothing(p))

-----------------------------------------------------------------------------
(***************************************************************************)
(* "Your real files on disk stay canonical" (README.md:5): no RemoveAll of *)
(* the recovery meets a live mount, through which it would remove the      *)
(* source files.                                                           *)
(***************************************************************************)
SourceSurvives == source = "intact"

(***************************************************************************)
(* Every start comes to an end, mounted or with an error: whatever dies    *)
(* and whatever cannot be unmounted, the recovery does not go on for ever. *)
(***************************************************************************)
StartSettles == \A p \in Procs : ps[p].pc \in Starting ~> ps[p].pc \notin Starting

(***************************************************************************)
(* A dead mount on the mount point or on its directory does not stay: some *)
(* later start takes it away.                                              *)
(***************************************************************************)
StaleHeals == Disconnected ~> ~Disconnected

(***************************************************************************)
(* An interrupt that was heard has an end: the process is gone, or it      *)
(* serves on because its unmount failed, and then the next interrupt kills *)
(* it.  It does not hang in server.Wait with its handler gone (mount.go:   *)
(* 78-107, server.Unmount goes by the path): that needs the mount it waits *)
(* for to be the one it took away.  "Press Ctrl+C to unmount" (:74).       *)
(***************************************************************************)
InterruptEnds ==
  \A p \in Procs : ps[p].pc = "unmounting" ~> ps[p].pc \in {"down", "deaf"}

-----------------------------------------------------------------------------
(***************************************************************************)
(* Why the source survives when starts do not overlap, a live mount is     *)
(* busy and helpers know the live mounts: at most one mount is there, and  *)
(* none under a dead parent; a recovery that is past the mount point has   *)
(* left no live mount there, and nobody else can mount before it is        *)
(* through.                                                                *)
(***************************************************************************)
OneStarting ==
  \A p, q \in Procs : ps[p].pc \in Starting /\ ps[q].pc \in Starting => p = q

OneMount == Len(stack) <= 1 /\ (parent = "stale" => stack = << >>)

PastMountPoint(p) ==
  ps[p].pc = "remove" \/ (ps[p].pc = "unmount" /\ ps[p].target = "parent")

ClearedAway ==
  \A p \in Procs : PastMountPoint(p) => \A k \in DOMAIN stack : ~stack[k].live

RecoveryInv == SourceSurvives /\ OneStarting /\ OneMount /\ ClearedAway
=============================================================================
