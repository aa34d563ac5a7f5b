---------------------------- MODULE MountProofs ----------------------------
(***************************************************************************)
(* Theorems about MountLifecycle, for every number of processes, unmount   *)
(* attempts, mounts and kills.                                             *)
(***************************************************************************)
EXTENDS MountLifecycle, SequenceTheorems, TLAPS

LEMMA BoundedSeqIs ==
  ASSUME NEW S, NEW n \in Nat, NEW s
  PROVE  s \in BoundedSeq(S, n) <=> s \in Seq(S) /\ Len(s) <= n
<1>1. ASSUME s \in BoundedSeq(S, n) PROVE s \in Seq(S) /\ Len(s) <= n
  <2>1. PICK m \in 0..n : s \in [1..m -> S]
    BY <1>1 DEF BoundedSeq, SeqOf
  <2>2. s \in Seq(S) /\ Len(s) = m
    BY <2>1
  <2> QED
    BY <2>1, <2>2
<1>2. ASSUME s \in Seq(S), Len(s) <= n PROVE s \in BoundedSeq(S, n)
  <2>1. Len(s) \in 0..n /\ s \in [1..Len(s) -> S]
    BY <1>2
  <2> QED
    BY <2>1 DEF BoundedSeq, SeqOf
<1> QED
  BY <1>1, <1>2

(***************************************************************************)
(* TypeOK with the stack as the sequence operators see it.                 *)
(***************************************************************************)
LEMMA StackType ==
  ASSUME MountAssumption
  PROVE  stack \in BoundedSeq(MountSet, MaxStack) <=> stack \in Seq(MountSet) /\ Len(stack) <= MaxStack
  BY BoundedSeqIs DEF MountAssumption

LEMMA StackTypeNext ==
  ASSUME MountAssumption
  PROVE  stack' \in BoundedSeq(MountSet, MaxStack) <=> stack' \in Seq(MountSet) /\ Len(stack') <= MaxStack
  BY BoundedSeqIs DEF MountAssumption

(***************************************************************************)
(* How the stack changes: a mount on top, the top one away, one that dies. *)
(***************************************************************************)
LEMMA Popped ==
  ASSUME NEW s \in Seq(MountSet), s # << >>
  PROVE  /\ Front(s) \in Seq(MountSet) /\ Len(Front(s)) = Len(s) - 1
         /\ \A k \in DOMAIN Front(s) : k \in DOMAIN s /\ Front(s)[k] = s[k]
<1>1. Len(s) \in Nat \ {0} /\ Front(s) = SubSeq(s, 1, Len(s) - 1)
  BY DEF Front
<1>2. /\ Len(SubSeq(s, 1, Len(s) - 1)) = Len(s) - 1
      /\ \A k \in 1..(Len(s) - 1) : SubSeq(s, 1, Len(s) - 1)[k] = s[k]
      /\ SubSeq(s, 1, Len(s) - 1) \in Seq(MountSet)
  <2> DEFINE n == Len(s) - 1
  <2>1. n \in Nat /\ n <= Len(s) /\ \A k \in 1..n : k \in 1..Len(s)
    BY <1>1
  <2> HIDE DEF n
  <2>2. SubSeq(s, 1, n) \in Seq(MountSet) /\ Len(SubSeq(s, 1, n)) = n
    <3>1. CASE n = 0
      BY <3>1, SubSeqProperties, EmptySeq
    <3>2. CASE 1 <= n
      BY <2>1, <3>2, SubSeqProperties
    <3> QED
      BY <2>1, <3>1, <3>2
  <2>3. \A k \in 1..n : SubSeq(s, 1, n)[k] = s[k]
    BY <2>1, SubSeqProperties
  <2> QED
    BY <2>2, <2>3 DEF n
<1> QED
  BY <1>1, <1>2

LEMMA Pushed ==
  ASSUME NEW s \in Seq(MountSet), NEW p \in Procs
  PROVE  /\ Append(s, MountOf(p)) \in Seq(MountSet)
         /\ Len(Append(s, MountOf(p))) = Len(s) + 1
  BY DEF MountSet, MountOf

LEMMA Orphaned ==
  ASSUME NEW s \in Seq(MountSet), NEW p \in Procs,
         NEW t, t = [k \in DOMAIN s |-> IF s[k].by = p THEN [s[k] EXCEPT !.live = FALSE] ELSE s[k]]
  PROVE  /\ t \in Seq(MountSet) /\ Len(t) = Len(s)
         /\ \A k \in DOMAIN t : t[k].live => s[k].live
<1>1. \A k \in 1..Len(s) : s[k] \in MountSet
  OBVIOUS
<1>2. ASSUME NEW k \in 1..Len(s) PROVE t[k] \in MountSet /\ (t[k].live => s[k].live)
  <2>1. s[k] \in MountSet
    BY <1>1
  <2>2. k \in DOMAIN s
    OBVIOUS
  <2>3. t[k] = IF s[k].by = p THEN [s[k] EXCEPT !.live = FALSE] ELSE s[k]
    BY <2>2
  <2>4. /\ [s[k] EXCEPT !.live = FALSE] \in MountSet
        /\ [s[k] EXCEPT !.live = FALSE].live = FALSE
    BY <2>1 DEF MountSet
  <2> QED
    BY <2>1, <2>3, <2>4
<1>3. DOMAIN t = 1..Len(s)
  OBVIOUS
<1>4. t \in [1..Len(s) -> MountSet]
  BY <1>2, <1>3
<1> QED
  BY <1>2, <1>4

-----------------------------------------------------------------------------
LEMMA TypeInit == ASSUME MountAssumption, Init PROVE TypeOK
<1>1. stack \in Seq(MountSet) /\ Len(stack) <= MaxStack
  BY DEF Init, MountAssumption
<1>2. Down \in Process
  BY DEF Down, Process, MountAssumption
<1> QED
  BY <1>1, <1>2, StackType DEF Init, TypeOK, MountAssumption

(***************************************************************************)
(* Where a process may go next.                                            *)
(***************************************************************************)
LEMMA Goes ==
  ASSUME MountAssumption, TypeOK, NEW p \in Procs,
         \/ \E pc \in Starting \cup Up \cup {"down", "failed"} : GoTo(p, pc)
         \/ \E from \in {"prepare", "mount"} : Recover(p, from)
         \/ NextTarget(p)
         \/ ps' = [ps EXCEPT ![p] = Down]
         \/ ps' = [ps EXCEPT ![p] = [Down EXCEPT !.pc = "stat"]]
         \/ ps' = [ps EXCEPT ![p].pc = "stat", ![p].retry = TRUE]
         \/ ps[p].try < Tries /\ ps' = [ps EXCEPT ![p].try = @ + 1]
  PROVE  ps' \in [Procs -> Process]
<1>1. ps \in [Procs -> Process] /\ ps[p] \in Process
  BY DEF TypeOK
<1>2. 1 \in 1..Tries /\ Down \in Process /\ "unmount" \in Starting /\ "remove" \in Starting /\ "stat" \in Starting
  BY DEF Down, Process, MountAssumption, Starting
<1>3. SUFFICES ASSUME NEW r \in Process, ps' = [ps EXCEPT ![p] = r] PROVE ps' \in [Procs -> Process]
  <2>1. ASSUME NEW pc \in Starting \cup Up \cup {"down", "failed"}, GoTo(p, pc)
        PROVE \E r \in Process : ps' = [ps EXCEPT ![p] = r]
    BY <1>1, <2>1 DEF GoTo, Process
  <2>2. ASSUME NEW from \in {"prepare", "mount"}, Recover(p, from)
        PROVE \E r \in Process : ps' = [ps EXCEPT ![p] = r]
    <3>1. [ps[p] EXCEPT !.pc = "unmount", !.from = from, !.target = "mountpoint", !.try = 1] \in Process
      BY <1>1, <1>2 DEF Process
    <3>2. ps' = [ps EXCEPT ![p] = [ps[p] EXCEPT !.pc = "unmount", !.from = from,
                                                !.target = "mountpoint", !.try = 1]]
      BY <1>1, <2>2 DEF Recover, Process
    <3> QED
      BY <3>1, <3>2
  <2>3. ASSUME NextTarget(p)
        PROVE \E r \in Process : ps' = [ps EXCEPT ![p] = r]
    <3>1. CASE ps[p].target = "mountpoint"
      <4>1. [ps[p] EXCEPT !.target = "parent", !.try = 1] \in Process
        BY <1>1, <1>2 DEF Process
      <4>2. ps' = [ps EXCEPT ![p] = [ps[p] EXCEPT !.target = "parent", !.try = 1]]
        BY <1>1, <2>3, <3>1 DEF NextTarget, Process
      <4> QED
        BY <4>1, <4>2
    <3>2. CASE ps[p].target # "mountpoint"
      <4>1. [ps[p] EXCEPT !.pc = "remove"] \in Process
        BY <1>1, <1>2 DEF Process
      <4>2. ps' = [ps EXCEPT ![p] = [ps[p] EXCEPT !.pc = "remove"]]
        BY <1>1, <2>3, <3>2 DEF NextTarget
      <4> QED
        BY <4>1, <4>2
    <3> QED
      BY <3>1, <3>2
  <2>4. ASSUME ps' = [ps EXCEPT ![p] = [Down EXCEPT !.pc = "stat"]]
        PROVE \E r \in Process : ps' = [ps EXCEPT ![p] = r]
    BY <1>2, <2>4 DEF Process
  <2>5. ASSUME ps' = [ps EXCEPT ![p].pc = "stat", ![p].retry = TRUE]
        PROVE \E r \in Process : ps' = [ps EXCEPT ![p] = r]
    <3>1. [ps[p] EXCEPT !.pc = "stat", !.retry = TRUE] \in Process
      BY <1>1, <1>2 DEF Process
    <3>2. ps' = [ps EXCEPT ![p] = [ps[p] EXCEPT !.pc = "stat", !.retry = TRUE]]
      BY <1>1, <2>5 DEF Process
    <3> QED
      BY <3>1, <3>2
  <2>6. ASSUME ps[p].try < Tries, ps' = [ps EXCEPT ![p].try = @ + 1]
        PROVE \E r \in Process : ps' = [ps EXCEPT ![p] = r]
    <3>1. ps[p].try + 1 \in 1..Tries
      BY <1>1, <2>6 DEF Process, MountAssumption
    <3>2. [ps[p] EXCEPT !.try = @ + 1] \in Process
      BY <1>1, <3>1 DEF Process
    <3> QED
      BY <1>1, <2>6, <3>2
  <2> QED
    BY <1>2, <2>1, <2>2, <2>3, <2>4, <2>5, <2>6
<1> QED
  BY <1>1, <1>3

LEMMA TypeStep ==
  ASSUME MountAssumption, TypeOK, [Next]_vars PROVE TypeOK'
<1>s. stack \in Seq(MountSet) /\ Len(stack) <= MaxStack
  BY StackType DEF TypeOK
<1>t. SUFFICES ASSUME NEW p \in Procs,
                      Start(p) \/ StartStep(p) \/ ServeStep(p) \/ Interrupt(p) \/ Kill(p)
               PROVE TypeOK'
  BY DEF Next, vars, TypeOK
<1>1. ASSUME stack' \in Seq(MountSet), Len(stack') <= MaxStack,
             parent' \in {"plain", "stale"}, entry' \in {"absent", "file", "dir"},
             source' \in {"intact", "emptied"}, kills' \in 0..MaxKills,
             ps' \in [Procs -> Process]
      PROVE TypeOK'
  BY <1>1, StackTypeNext DEF TypeOK
<1>pc. /\ {"stat", "replace", "mkdir", "mount", "unmount", "remove", "recreate"} = Starting
       /\ {"ready", "serving", "unmounting", "waiting", "deaf"} = Up
  BY DEF Starting, Up
<1>2. ASSUME Dies(p) PROVE TypeOK'
  <2>1. stack' \in Seq(MountSet) /\ Len(stack') = Len(stack)
    BY <1>s, <1>2, Orphaned DEF Dies
  <2>2. kills' \in 0..MaxKills
    BY <1>2 DEF Dies, TypeOK, MountAssumption
  <2>3. ps' \in [Procs -> Process]
    BY <1>2, Goes DEF Dies
  <2> QED
    BY <1>s, <1>1, <1>2, <2>1, <2>2, <2>3 DEF Dies, TypeOK
<1>3. ASSUME NEW q \in Procs, q = p, ps[q].pc \in {"unmount", "unmounting"}, stack # << >>, stack' = Front(stack)
      PROVE stack' \in Seq(MountSet) /\ Len(stack') <= MaxStack
  BY <1>s, <1>3, Popped DEF MountAssumption
<1>4. CASE Start(p)
  BY <1>s, <1>1, <1>4, Goes DEF Start, TypeOK
<1>5. CASE StartStep(p)
  <2>1. CASE Stat(p)
    BY <1>s, <1>1, <1>pc, <2>1, Goes DEF Stat, TypeOK
  <2>2. CASE Replace(p)
    BY <1>s, <1>1, <1>pc, <2>2, Goes DEF Replace, TypeOK
  <2>3. CASE MkdirAll(p)
    BY <1>s, <1>1, <1>pc, <2>3, Goes DEF MkdirAll, Makes, TypeOK
  <2>4. CASE FsMount(p)
    <3>1. stack' \in Seq(MountSet) /\ Len(stack') <= MaxStack
      BY <1>s, <2>4, Pushed DEF FsMount, MountAssumption
    <3> QED
      BY <1>1, <1>pc, <2>4, <3>1, Goes DEF FsMount, TypeOK
  <2>5. CASE FsMountFails(p)
    <3>1. (\E pc \in Starting \cup Up \cup {"down", "failed"} : GoTo(p, pc)) \/ Recover(p, "mount")
      BY <1>pc, <2>5 DEF FsMountFails
    <3>2. ps' \in [Procs -> Process]
      BY <3>1, Goes
    <3> QED
      BY <1>s, <1>1, <2>5, <3>2 DEF FsMountFails, TypeOK
  <2>6. CASE Unmounts(p)
    <3>1. stack' \in Seq(MountSet) /\ Len(stack') <= MaxStack
      BY <1>s, <1>3, <2>6 DEF Unmounts
    <3>2. ps' \in [Procs -> Process]
      BY <2>6, Goes DEF Unmounts
    <3> QED
      BY <1>1, <2>6, <3>1, <3>2 DEF Unmounts, TypeOK
  <2>7. CASE UnmountsNothing(p)
    BY <1>s, <1>1, <2>7, Goes DEF UnmountsNothing, TypeOK
  <2>8. CASE UnmountFails(p)
    <3>1. \/ ps[p].try < Tries /\ ps' = [ps EXCEPT ![p].try = @ + 1]
          \/ GoTo(p, "failed")
      BY <2>8 DEF UnmountFails
    <3>2. ps' \in [Procs -> Process]
      BY <1>pc, <3>1, Goes
    <3> QED
      BY <1>s, <1>1, <2>8, <3>2 DEF UnmountFails, TypeOK
  <2>9. CASE RemoveAll(p)
    BY <1>s, <1>1, <1>pc, <2>9, Goes DEF RemoveAll, TypeOK
  <2>10. CASE Recreate(p)
    <3>1. \/ \E pc \in Starting \cup Up \cup {"down", "failed"} : GoTo(p, pc)
          \/ ps' = [ps EXCEPT ![p].pc = "stat", ![p].retry = TRUE]
      BY <1>pc, <2>10 DEF Recreate, Makes, GoTo
    <3>2. ps' \in [Procs -> Process]
      BY <3>1, Goes
    <3> QED
      BY <1>s, <1>1, <2>10, <3>2 DEF Recreate, Makes, TypeOK
  <2> QED
    BY <1>5, <2>1, <2>2, <2>3, <2>4, <2>5, <2>6, <2>7, <2>8, <2>9, <2>10 DEF StartStep
<1>6. CASE ServeStep(p)
  <2>1. CASE NotifySignals(p)
    BY <1>s, <1>1, <1>pc, <2>1, Goes DEF NotifySignals, TypeOK
  <2>2. CASE ServerUnmount(p)
    <3>1. stack' \in Seq(MountSet) /\ Len(stack') <= MaxStack
      BY <1>s, <1>3, <2>2 DEF ServerUnmount
    <3>2. ps' \in [Procs -> Process]
      BY <1>pc, <2>2, Goes DEF ServerUnmount
    <3> QED
      BY <1>1, <2>2, <3>1, <3>2 DEF ServerUnmount, TypeOK
  <2>3. CASE Exit(p)
    BY <1>s, <1>1, <2>3, Goes DEF Exit, TypeOK
  <2> QED
    BY <1>6, <2>1, <2>2, <2>3 DEF ServeStep
<1>7. CASE Interrupt(p)
  <2>1. CASE Dies(p)
    BY <1>2, <2>1
  <2>2. CASE ~Dies(p)
    BY <1>s, <1>1, <1>pc, <1>7, <2>2, Goes DEF Interrupt, TypeOK
  <2> QED
    BY <2>1, <2>2
<1>8. CASE Kill(p)
  BY <1>2, <1>8 DEF Kill
<1> QED
  BY <1>t, <1>4, <1>5, <1>6, <1>7, <1>8

(***************************************************************************)
(* The mount point, its directory and the processes keep their types, for  *)
(* any number of processes, starts, tries and kills.                       *)
(***************************************************************************)
THEOREM MountTypeCorrect == Spec => []TypeOK
<1>1. Init => TypeOK
  BY MountAssumption, TypeInit
<1>2. TypeOK /\ [Next]_vars => TypeOK'
  BY MountAssumption, TypeStep
<1> QED
  BY <1>1, <1>2, PTL DEF Spec
-----------------------------------------------------------------------------
NoLive(s) == \A k \in DOMAIN s : ~s[k].live

Past(r) == r.pc = "remove" \/ (r.pc = "unmount" /\ r.target = "parent")

\* What one process may do to the invariant of the others: the record r is where
\* it goes, and only a process that mounts brings a live mount.
Harmless(p, r) ==
  /\ ps' = [ps EXCEPT ![p] = r]
  /\ r.pc \in Starting => ps[p].pc \in Starting \/ \A q \in Procs : ps[q].pc \notin Starting
  /\ NoLive(stack) => NoLive(stack') \/ ps[p].pc = "mount"
  /\ Past(r) => NoLive(stack')
  /\ OneMount'
  /\ source' = source

(***************************************************************************)
(* A step of one process that does no such harm keeps the invariant.       *)
(***************************************************************************)
LEMMA HarmlessKeeps ==
  ASSUME TypeOK, RecoveryInv, NEW p \in Procs, NEW r, Harmless(p, r)
  PROVE  RecoveryInv'
<1>1. \A q \in Procs : ps'[q] = IF q = p THEN r ELSE ps[q]
  BY DEF TypeOK, Harmless
<1>2. SourceSurvives' /\ OneMount'
  BY DEF RecoveryInv, SourceSurvives, Harmless
<1>3. OneStarting'
  BY <1>1 DEF RecoveryInv, OneStarting, Harmless
<1>4. ASSUME NEW q \in Procs, PastMountPoint(q)' PROVE NoLive(stack')
  <2>1. CASE q = p
    BY <1>1, <1>4, <2>1 DEF PastMountPoint, Past, Harmless
  <2>2. CASE q # p
    <3>1. PastMountPoint(q) /\ ps[q].pc \in Starting
      BY <1>1, <1>4, <2>2 DEF PastMountPoint, Starting
    <3>2. NoLive(stack)
      BY <3>1 DEF RecoveryInv, ClearedAway, NoLive
    <3>3. ps[p].pc # "mount"
      BY <2>2, <3>1 DEF RecoveryInv, OneStarting, Starting
    <3> QED
      BY <3>2, <3>3 DEF Harmless
  <2> QED
    BY <2>1, <2>2
<1> QED
  BY <1>2, <1>3, <1>4 DEF RecoveryInv, ClearedAway, NoLive

(***************************************************************************)
(* With at most one mount: the top is all there is, and without it there   *)
(* is nothing.                                                             *)
(***************************************************************************)
LEMMA OneOnTop ==
  ASSUME TypeOK, OneMount, MountAssumption, stack # << >>
  PROVE  /\ DOMAIN stack = {1} /\ Last(stack) = stack[1]
         /\ Front(stack) = << >> /\ NoLive(Front(stack))
<1>1. stack \in Seq(MountSet) /\ Len(stack) = 1
  <2>1. stack \in Seq(MountSet) /\ Len(stack) <= 1
    BY StackType DEF TypeOK, OneMount
  <2>2. Len(stack) \in Nat /\ Len(stack) # 0
    BY <2>1, EmptySeq
  <2>3. \A n \in Nat : n <= 1 /\ n # 0 => n = 1
    OBVIOUS
  <2>4. Len(stack) = 1
    BY <2>1, <2>2, <2>3
  <2> QED
    BY <2>1, <2>4
<1>2. DOMAIN stack = {1} /\ Last(stack) = stack[1]
  BY <1>1 DEF Last
<1>3. Len(Front(stack)) = 0 /\ Front(stack) \in Seq(MountSet)
  BY <1>1, Popped
<1>4. Front(stack) = << >>
  BY <1>3, EmptySeq
<1> QED
  BY <1>2, <1>4 DEF NoLive

LEMMA LiveSeen ==
  ASSUME TypeOK, OneMount, MountAssumption, NEW p \in Procs
  PROVE  /\ LiveOnTop => ~NoLive(stack)
         /\ Disconnected => NoLive(stack)
         /\ stack = << >> => NoLive(stack)
<1>1. stack = << >> => NoLive(stack)
  BY DEF NoLive
<1>2. stack # << >> => (NoLive(stack) <=> ~Last(stack).live)
  BY OneOnTop DEF NoLive
<1>3. ASSUME LiveOnTop PROVE ~NoLive(stack)
  BY <1>2, <1>3 DEF LiveOnTop, Disconnected
<1>4. ASSUME Disconnected PROVE NoLive(stack)
  BY <1>1, <1>2, <1>4 DEF Disconnected, OneMount
<1> QED
  BY <1>1, <1>3, <1>4

LEMMA RecoveryInit == ASSUME Init PROVE RecoveryInv
<1>1. \A p \in Procs : ps[p].pc = "down"
  BY DEF Init, Down
<1> QED
  BY <1>1 DEF Init, RecoveryInv, SourceSurvives, OneStarting, OneMount, ClearedAway,
              PastMountPoint, Starting

LEMMA RecoveryStep ==
  ASSUME MountAssumption, OneStart, ~Stacking, MtabTrue, TypeOK, RecoveryInv, [Next]_vars
  PROVE  RecoveryInv'
<1>1. CASE UNCHANGED vars
  BY <1>1 DEF vars, RecoveryInv, SourceSurvives, OneStarting, OneMount, ClearedAway, PastMountPoint
<1>2. ASSUME NEW p \in Procs,
             Start(p) \/ StartStep(p) \/ ServeStep(p) \/ Interrupt(p) \/ Kill(p)
      PROVE  \E r : Harmless(p, r)
  <2>t. ps \in [Procs -> Process] /\ ps[p] \in Process
    BY DEF TypeOK
  <2>o. OneMount /\ (PastMountPoint(p) => NoLive(stack))
    BY DEF RecoveryInv, ClearedAway, NoLive
  <2>g. ASSUME NEW pc, GoTo(p, pc)
        PROVE ps' = [ps EXCEPT ![p] = [ps[p] EXCEPT !.pc = pc]] /\ [ps[p] EXCEPT !.pc = pc].pc = pc
    BY <2>t, <2>g DEF GoTo, Process
  <2>h. ASSUME NEW pc, GoTo(p, pc), ps[p].pc \in Starting \/ pc \notin Starting,
               pc \notin {"remove", "unmount"},
               NoLive(stack) => NoLive(stack') \/ ps[p].pc = "mount", OneMount', source' = source
        PROVE \E r : Harmless(p, r)
    <3>1. ~Past([ps[p] EXCEPT !.pc = pc])
      BY <2>g, <2>h DEF Past
    <3> QED
      BY <2>g, <2>h, <3>1 DEF Harmless
  <2>u. ASSUME UNCHANGED <<stack, parent>> PROVE OneMount' /\ (NoLive(stack) => NoLive(stack'))
    BY <2>o, <2>u DEF OneMount
  <2>d. ASSUME Dies(p) PROVE \E r : Harmless(p, r)
    <3>s. stack \in Seq(MountSet)
      BY StackType DEF TypeOK
    <3>1. /\ stack' \in Seq(MountSet) /\ Len(stack') = Len(stack)
          /\ \A k \in DOMAIN stack' : stack'[k].live => stack[k].live
      BY <2>d, <3>s, Orphaned DEF Dies
    <3>2. OneMount'
      BY <2>d, <2>o, <3>s, <3>1, EmptySeq DEF OneMount, Dies
    <3>3. NoLive(stack) => NoLive(stack')
      BY <3>s, <3>1 DEF NoLive
    <3>4. Down.pc \notin Starting /\ ~Past(Down)
      BY DEF Down, Starting, Past
    <3> QED
      BY <2>d, <3>2, <3>3, <3>4 DEF Dies, Harmless
  <2>1. CASE Start(p)
    <3> DEFINE r == [Down EXCEPT !.pc = "stat"]
    <3>1. r.pc = "stat" /\ ~Past(r)
      BY DEF Down, Past
    <3>2. Harmless(p, r)
      BY <2>1, <2>u, <3>1 DEF Start, Harmless
    <3> QED
      BY <3>2
  <2>2. CASE Stat(p)
    <3>1. CASE Recover(p, "prepare")
      <4> DEFINE r == [ps[p] EXCEPT !.pc = "unmount", !.from = "prepare",
                                    !.target = "mountpoint", !.try = 1]
      <4>1. ps' = [ps EXCEPT ![p] = r] /\ ~Past(r) /\ ps[p].pc \in Starting
        BY <2>t, <2>2, <3>1 DEF Recover, Stat, Past, Process, Starting
      <4>2. Harmless(p, r)
        BY <2>2, <2>u, <4>1 DEF Stat, Harmless
      <4> QED
        BY <4>2
    <3>2. CASE \E pc \in {"mount", "replace", "mkdir"} : GoTo(p, pc)
      BY <2>2, <2>h, <2>u, <3>2 DEF Stat, Starting
    <3> QED
      BY <2>2, <3>1, <3>2 DEF Stat
  <2>3. CASE Replace(p)
    BY <2>3, <2>h, <2>u DEF Replace, Starting
  <2>4. CASE MkdirAll(p)
    BY <2>4, <2>h, <2>u DEF MkdirAll, Makes, Starting
  <2>5. CASE FsMount(p)
    <3>1. stack = << >> /\ parent # "stale"
      BY <2>5 DEF FsMount, Plain, Disconnected
    <3>2. Len(stack') = 1 /\ parent' # "stale"
      BY <2>5, <3>1 DEF FsMount
    <3>3. OneMount'
      BY <3>2 DEF OneMount
    <3> QED
      BY <2>5, <2>h, <3>3 DEF FsMount, Starting
  <2>6. CASE FsMountFails(p)
    <3>1. CASE Recover(p, "mount")
      <4> DEFINE r == [ps[p] EXCEPT !.pc = "unmount", !.from = "mount",
                                    !.target = "mountpoint", !.try = 1]
      <4>1. ps' = [ps EXCEPT ![p] = r] /\ ~Past(r) /\ ps[p].pc \in Starting
        BY <2>t, <2>6, <3>1 DEF Recover, FsMountFails, Past, Process, Starting
      <4>2. Harmless(p, r)
        BY <2>6, <2>u, <4>1 DEF FsMountFails, Harmless
      <4> QED
        BY <4>2
    <3>2. CASE GoTo(p, "failed")
      BY <2>6, <2>h, <2>u, <3>2 DEF FsMountFails, Starting
    <3> QED
      BY <2>6, <3>1, <3>2 DEF FsMountFails
  <2>n. ASSUME NextTarget(p), ps[p].pc = "unmount", NoLive(stack'), OneMount', source' = source
        PROVE \E r : Harmless(p, r)
    <3> DEFINE r == IF ps[p].target = "mountpoint" THEN [ps[p] EXCEPT !.target = "parent", !.try = 1]
                    ELSE [ps[p] EXCEPT !.pc = "remove"]
    <3>1. ps' = [ps EXCEPT ![p] = r]
      BY <2>t, <2>n DEF NextTarget, Process
    <3>2. Harmless(p, r)
      BY <2>n, <3>1 DEF Harmless, Starting
    <3> QED
      BY <3>2
  <2>7. CASE Unmounts(p)
    <3>1. CASE ps[p].target = "mountpoint" /\ parent = "plain" /\ stack # << >>
               /\ stack' = Front(stack) /\ UNCHANGED parent
      <4>1. stack' = << >> /\ NoLive(stack') /\ OneMount'
        BY <2>o, <3>1, OneOnTop DEF OneMount
      <4> QED
        BY <2>7, <2>n, <4>1 DEF Unmounts
    <3>2. CASE ps[p].target = "parent" /\ parent' = "plain" /\ UNCHANGED stack
      <4>1. NoLive(stack') /\ OneMount'
        BY <2>7, <2>o, <3>2 DEF Unmounts, OneMount, PastMountPoint
      <4> QED
        BY <2>7, <2>n, <4>1 DEF Unmounts
    <3> QED
      BY <2>7, <3>1, <3>2 DEF Unmounts
  <2>8. CASE UnmountsNothing(p)
    <3>1. NoLive(stack)
      BY <2>8, <2>o, <2>t, LiveSeen DEF UnmountsNothing, PastMountPoint
    <3> QED
      BY <2>8, <2>n, <2>u, <3>1 DEF UnmountsNothing
  <2>9. CASE UnmountFails(p)
    <3>1. CASE ps[p].try < Tries
      <4> DEFINE r == [ps[p] EXCEPT !.try = @ + 1]
      <4>1. ps' = [ps EXCEPT ![p] = r] /\ r.pc = ps[p].pc /\ r.target = ps[p].target
        BY <2>t, <2>9, <3>1 DEF UnmountFails, Process
      <4>2. Past(r) => NoLive(stack')
        BY <2>9, <2>o, <4>1 DEF UnmountFails, Past, PastMountPoint
      <4>3. Harmless(p, r)
        BY <2>9, <2>u, <4>1, <4>2 DEF UnmountFails, Harmless
      <4> QED
        BY <4>3
    <3>2. CASE GoTo(p, "failed")
      BY <2>9, <2>h, <2>u, <3>2 DEF UnmountFails, Starting
    <3> QED
      BY <2>9, <3>1, <3>2 DEF UnmountFails
  <2>10. CASE RemoveAll(p)
    <3>1. NoLive(stack) /\ ~LiveOnTop
      BY <2>10, <2>o, LiveSeen DEF RemoveAll, PastMountPoint
    <3> QED
      BY <2>10, <2>h, <2>u, <3>1 DEF RemoveAll, Starting
  <2>11. CASE Recreate(p)
    <3>1. CASE \E pc \in {"mount", "failed"} : GoTo(p, pc)
      BY <2>11, <2>h, <2>u, <3>1 DEF Recreate, Starting
    <3>2. CASE ps' = [ps EXCEPT ![p].pc = "stat", ![p].retry = TRUE]
      <4> DEFINE r == [ps[p] EXCEPT !.pc = "stat", !.retry = TRUE]
      <4>1. ps' = [ps EXCEPT ![p] = r] /\ r.pc = "stat"
        BY <2>t, <3>2 DEF Process
      <4>2. Harmless(p, r)
        BY <2>11, <2>u, <4>1 DEF Recreate, Harmless, Past, Starting
      <4> QED
        BY <4>2
    <3> QED
      BY <2>11, <3>1, <3>2 DEF Recreate, Makes, GoTo
  <2>12. CASE NotifySignals(p)
    BY <2>12, <2>h, <2>u DEF NotifySignals, Starting
  <2>13. CASE ServerUnmount(p)
    <3>1. CASE stack # << >> /\ stack' = Front(stack)
      <4>1. stack' = << >> /\ NoLive(stack') /\ OneMount'
        BY <2>o, <3>1, OneOnTop DEF OneMount
      <4> QED
        BY <2>13, <2>h, <4>1 DEF ServerUnmount, Starting
    <3>2. CASE UNCHANGED stack
      BY <2>13, <2>h, <2>u, <3>2 DEF ServerUnmount, Starting
    <3> QED
      BY <2>13, <3>1, <3>2 DEF ServerUnmount
  <2>14. CASE Exit(p)
    <3>1. Down.pc \notin Starting /\ ~Past(Down)
      BY DEF Down, Starting, Past
    <3> QED
      BY <2>14, <2>u, <3>1 DEF Exit, Harmless
  <2>15. CASE Interrupt(p)
    <3>1. CASE ps[p].pc = "serving" /\ GoTo(p, "unmounting") /\ UNCHANGED <<stack, parent, entry, source, kills>>
      BY <2>h, <2>u, <3>1 DEF Starting
    <3> QED
      BY <2>15, <2>d, <3>1 DEF Interrupt
  <2>16. CASE Kill(p)
    BY <2>16, <2>d DEF Kill
  <2> QED
    BY <1>2, <2>1, <2>2, <2>3, <2>4, <2>5, <2>6, <2>7, <2>8, <2>9, <2>10, <2>11, <2>12,
       <2>13, <2>14, <2>15, <2>16 DEF StartStep, ServeStep
<1> QED
  BY <1>1, <1>2, HarmlessKeeps DEF Next

(***************************************************************************)
(* When starts do not overlap, a live mount cannot be mounted over and no  *)
(* helper calls it "not mounted", the recovery never removes files of the  *)
(* source tree: os.RemoveAll meets no live mount, for any number of        *)
(* processes and wherever one of them dies.                                *)
(***************************************************************************)
THEOREM RecoverySparesSource ==
  ASSUME OneStart, ~Stacking, MtabTrue PROVE Spec => []SourceSurvives
<1> DEFINE IInv == TypeOK /\ RecoveryInv
<1>1. Init => IInv
  BY MountAssumption, TypeInit, RecoveryInit
<1>2. IInv /\ [Next]_vars => IInv'
  BY MountAssumption, TypeStep, RecoveryStep
<1>3. IInv => SourceSurvives
  BY DEF RecoveryInv
<1> HIDE DEF IInv
<1> QED
  BY <1>1, <1>2, <1>3, PTL DEF Spec
=============================================================================
