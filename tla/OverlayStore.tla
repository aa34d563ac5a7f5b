---------------------------- MODULE OverlayStore ----------------------------
(***************************************************************************)
(* What the mount promises clients when each file has one writer at a time *)
(* and is changed through the mount only: a store of files, and sessions   *)
(* on them.  There are no inodes, no open flags and no bytes on their way. *)
(*                                                                         *)
(* A session holds the view it edits; a save puts the commit of that view  *)
(* into the store, whole.  While the save is under way the file is empty,  *)
(* and a save that breaks leaves a beginning of the new bytes: no promise  *)
(* anyone would ask for, but all there is.                                 *)
(***************************************************************************)
EXTENDS ByteSeq

CONSTANTS
  Files,            \* the files of the store
  NoName,           \* the file of a session that is closed
  AgentName,        \* the name ".env.agent"
  Handles,          \* the sessions
  Mounts, MountOf,  \* the processes that serve them
  Contents,         \* what a file may hold
  Views,            \* what a session may hold
  Missing,          \* the content of a file that is not there
  Chunks,           \* what an edit writes
  PServe(_, _, _),  \* the pipeline, as in TransFile
  PCommit(_, _)

VARIABLES
  store,    \* store[n]: the source file n
  session   \* session[h]: what a client has open

Closed ==
  [state |-> "closed", name |-> NoName,
   held |-> FALSE,   \* the session has a view of its own
   view |-> Empty,   \* that view
   told |-> FALSE]   \* the client knows that the view is not saved

Opened(n) == [Closed EXCEPT !.state = "clean", !.name = n]

Init ==
  /\ store \in [Files -> Contents \cup {Missing}]
  /\ session = [h \in Handles |-> Closed]

In(h, states) == session[h].state \in states

\* Opening finds the file, or makes or empties it.
Open(h, n) ==
  /\ In(h, {"closed"})
  /\ \/ store[n] # Missing /\ UNCHANGED store
     \/ store' = [store EXCEPT ![n] = Empty]
  /\ session' = [session EXCEPT ![h] = Opened(n)]

Served(n) ==
  PServe(n, IF store[n] = Missing THEN Empty ELSE store[n],
         IF AgentName \in Files THEN store[AgentName] ELSE Missing)

\* The view a session has, or may start from: what is served or, when it
\* truncates, nothing; neither if the pipeline refuses the file.
Starts(h) ==
  IF session[h].held THEN {session[h].view}
  ELSE LET r == Served(session[h].name)
       IN IF r.err = "ok" THEN {r.content, Empty} ELSE {}

\* The session gets its view.
Fetch(h) ==
  /\ In(h, {"clean", "edited"})
  /\ \E view \in Starts(h) :
       session' = [session EXCEPT ![h] = [@ EXCEPT !.held = TRUE, !.view = view]]
  /\ UNCHANGED store

\* One write changes the bytes it covers and keeps the others.
IsEdit(old, new) ==
  \E chunk \in Chunks : \E off \in 0..Len(new) : new = Splice(old, off, chunk)

Edit(h) ==
  LET new == session'[h].view
  IN /\ In(h, {"clean", "edited"})
     /\ \E old \in Starts(h) : IsEdit(old, new)
     /\ session' = [session EXCEPT ![h] =
                      [@ EXCEPT !.state = "edited", !.held = TRUE, !.view = new, !.told = FALSE]]
     /\ UNCHANGED store

\* A close that cannot save tells the client.
Refuse(h) ==
  /\ In(h, {"edited"})
  /\ session' = [session EXCEPT ![h] = [@ EXCEPT !.told = TRUE]]
  /\ UNCHANGED store

New(h) == PCommit(session[h].name, session[h].view)

BeginSave(h) ==
  /\ In(h, {"edited"})
  /\ New(h).err = "ok"
  /\ store' = [store EXCEPT ![session[h].name] = Empty]
  /\ session' = [session EXCEPT ![h] = [@ EXCEPT !.state = "saving"]]

\* The save is complete: the file is the commit of the session's view.
EndSave(h) ==
  /\ In(h, {"saving"})
  /\ store' = [store EXCEPT ![session[h].name] = New(h).content]
  /\ \/ session' = [session EXCEPT ![h] = [@ EXCEPT !.state = "clean", !.told = FALSE]]
     \/ session' = [session EXCEPT ![h] = Closed]

\* The save breaks after some bytes.  The client is told, and the session keeps its
\* view, to try again; it may be over only if the client was told before.
Tear(h) ==
  /\ In(h, {"saving"})
  /\ \E k \in 0..Len(New(h).content) :
       store' = [store EXCEPT ![session[h].name] = FirstBytes(New(h).content, k)]
  /\ \/ session' = [session EXCEPT ![h] = [@ EXCEPT !.state = "edited", !.told = TRUE]]
     \/ session[h].told /\ session' = [session EXCEPT ![h] = Closed]

\* A session ends without edits, or with edits its client knows to be lost.
Close(h) ==
  /\ In(h, {"clean"}) \/ (In(h, {"edited"}) /\ session[h].told)
  /\ session' = [session EXCEPT ![h] = Closed]
  /\ UNCHANGED store

\* A mount dies with its sessions; a file in the middle of a save stays empty.
Crash(m) ==
  /\ session' = [h \in Handles |-> IF MountOf[h] = m THEN Closed ELSE session[h]]
  /\ UNCHANGED store

SessionStep(h) ==
  \/ \E n \in Files : Open(h, n)
  \/ Fetch(h) \/ Edit(h) \/ Refuse(h)
  \/ BeginSave(h) \/ EndSave(h) \/ Tear(h)
  \/ Close(h)

Next == (\E h \in Handles : SessionStep(h)) \/ \E m \in Mounts : Crash(m)

Spec == Init /\ [][Next]_<<store, session>>
=============================================================================
