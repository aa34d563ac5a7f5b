--------------------------- MODULE TransFileStore ---------------------------
(***************************************************************************)
(* TransFile implements OverlayStore, when each file has one writer at a   *)
(* time and nobody renames, links, removes, cuts or edits files beside it. *)
(***************************************************************************)
EXTENDS TransFile

\* The files the mount transforms, and what is in them.
Transformed == {n \in Names : shouldTransformPath(n)}
StoreOf == [n \in Transformed |-> File(n)]

StateOf(r) == IF r.kind # "trans" THEN "closed"
              ELSE IF r.pc # "idle" THEN "saving"
              ELSE IF r.dirty THEN "edited" ELSE "clean"

\* A request in os.WriteFile has not been answered: the last answer still counts.
SessionOf(r) ==
  [state |-> StateOf(r),
   name |-> IF r.kind = "trans" THEN r.path ELSE NoName,
   held |-> r.prepared,
   view |-> IF r.kind = "trans" THEN r.buf ELSE Empty,
   told |-> r.dirty /\ r.acked = "error"]

Sessions == [h \in Handles |-> SessionOf(hd[h])]

Store == INSTANCE OverlayStore WITH
  Files <- Transformed, store <- StoreOf, session <- Sessions

(***************************************************************************)
(* Every run of the handles is one of the store: opens, edits, saves and   *)
(* failures of the code are steps of OverlayStore, and the rest is not     *)
(* seen.  In particular a save leaves the commit of the session's view,    *)
(* one that breaks keeps the view and tells the client, and a session ends *)
(* only when nothing is lost that the client does not know of.             *)
(***************************************************************************)
ImplementsStore == Store!Spec

-----------------------------------------------------------------------------
(***************************************************************************)
(* The discipline under which this is so, and what is then always true: a  *)
(* transformed handle is on a transformed name, no other one writes there, *)
(* and while it is inside os.WriteFile its file is the one it truncated.   *)
(***************************************************************************)
Quiet ==
  /\ Exclusive
  /\ Renames = {} /\ Links = {} /\ Removable = {} /\ Cuts = {} /\ Edits = {}
  /\ AgentName \notin TempNames

TransPaths == \A h \in Handles : hd[h].kind = "trans" => hd[h].path \in Transformed

OneWriter ==
  \A g, h \in Handles :
    /\ hd[g].kind = "trans" /\ hd[g].writable
    /\ hd[h].kind = "trans" /\ hd[h].writable
    /\ hd[g].path = hd[h].path
    => g = h

Window ==
  \A h \in Handles :
    hd[h].pc # "idle" => dir[hd[h].path] = hd[h].ino /\ data[hd[h].ino] = Empty

QuietInv == TransPaths /\ OneWriter /\ Window

\* What Serve makes of a file, Commit takes back, whatever the agent file holds.
PipelineReversible ==
  \A n \in Names, raw \in Contents, agent \in Contents \cup {Missing} :
    PServe(n, raw, agent).err = "ok"
    => PCommit(n, PServe(n, raw, agent).content) = [err |-> "ok", content |-> raw]
=============================================================================
