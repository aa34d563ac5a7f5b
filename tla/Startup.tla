------------------------------ MODULE Startup ------------------------------
(***************************************************************************)
(* The commands of cmd/llmfs/main.go and the four files under .llmfs/ they *)
(* share: appcfg.LoadOrInit reads or creates settings.json and             *)
(* candidates.txt, runExplore and ensureConfig generate config.json and    *)
(* the instructions, codec.LoadConfig reads the config back.  Every        *)
(* os.WriteFile truncates and then writes, so a process that dies or a     *)
(* disk that fills up leaves a part, and two processes mix.  A document is *)
(* a sequence of cells; what its cells say is left out.                    *)
(***************************************************************************)
EXTENDS ByteSeq, FiniteSets

CONSTANTS
  Procs,
  DefaultSettings, UserSettings,   \* documents of settings.json
  DefaultList, UserLists,          \* documents of candidates.txt
  Trees,                           \* source trees and flags a dictionary is built from
  Cells,                           \* how many cells a document has
  MaxStarts,                       \* commands started
  MaxEdits                         \* edits of settings.json or candidates.txt, removals

Settings == {DefaultSettings} \cup UserSettings
Lists == {DefaultList} \cup UserLists

ASSUME CellsAssumption == Cells \in [Settings \cup Lists \cup Trees -> Nat \ {0}]
ASSUME BoundsAssumption == MaxStarts \in Nat /\ MaxEdits \in Nat
ASSUME OwnAssumption == DefaultSettings \notin UserSettings /\ DefaultList \notin UserLists

VARIABLES
  there,    \* the files that exist
  text,     \* text[f]: the cells of file f
  pc,       \* pc[p]: where the command of process p is
  opened,   \* opened[p]: p has truncated the file of its stage and not yet written it
  cmd,      \* cmd[p]: which command
  mem,      \* mem[p]: what p has read or generated
  faults,   \* what has gone wrong so far
  starts, edits

vars == <<there, text, pc, opened, cmd, mem, faults, starts, edits>>

(***************************************************************************)
(* Documents.  A cell says which document it is of, its place in it and    *)
(* how many cells the document has.                                        *)
(***************************************************************************)
Doc(v, n) == [k \in 1..n |-> <<v, k, n>>]
SettingsDoc(v) == Doc(v, Cells[v])
ListDoc(v) == Doc(v, Cells[v])
DictionaryDoc(d) == Doc(d, Cells[d.tree])

Whole(s) == Len(s) > 0 /\ s = Doc(s[1][1], s[1][3])

\* json.Unmarshal with an empty file taken for an empty object.
ReadableOrEmpty(s) == \A k \in 1..Len(s) : s[k][2] = s[k][3] <=> k = Len(s)

\* What json.Unmarshal makes of a file: the value ends with the last cell, and
\* nothing follows it.  A mixture that ends so is taken to parse.
Readable(s) == Len(s) > 0 /\ \A k \in 1..Len(s) : s[k][2] = s[k][3] <=> k = Len(s)

UserCells == (Settings \cup Lists) \X Nat \X Nat
Dictionaries == [settings : Seq(UserCells), list : Seq(UserCells), tree : Trees]
DictionaryCells == Dictionaries \X Nat \X Nat

(***************************************************************************)
(* The stages of a command.  In a writing stage it writes one file.        *)
(***************************************************************************)
Commands == {"run", "init", "explore", "codec"}
WriteStages == {"defaults", "settings", "list", "config", "instructions"}
Running == WriteStages \cup
           {"stat", "readSettings", "statList", "readList", "statConfig", "build", "load"}
Ended == {"off", "done", "mounted", "refused", "unreadable"}
Files == {"settings", "candidates", "config", "instructions"}

FileOf(stage) == IF stage \in {"defaults", "list"} THEN "candidates" ELSE stage
RunningProcs == {p \in Procs : pc[p] \in Running}

Fresh == [settings |-> SettingsDoc(DefaultSettings), list |-> ListDoc(DefaultList),
          config |-> Empty]

Payload(p) ==
  CASE pc[p] \in {"defaults", "list"} -> ListDoc(DefaultList)
    [] pc[p] = "settings" -> SettingsDoc(DefaultSettings)
    [] OTHER -> mem[p].config

\* The config written and the instructions left for later.
NextStageConfigOnly(p) ==
  CASE pc[p] = "defaults" -> "settings"
    [] pc[p] = "settings" -> "statList"
    [] pc[p] = "list" -> "readList"
    [] OTHER -> IF cmd[p] = "run" THEN "load" ELSE "done"

NextStage(p) ==
  CASE pc[p] = "defaults" -> "settings"
    [] pc[p] = "settings" -> "statList"
    [] pc[p] = "list" -> "readList"
    [] pc[p] = "config" -> "instructions"
    [] OTHER -> IF cmd[p] = "run" THEN "load" ELSE "done"

TypeOK ==
  /\ there \subseteq Files
  /\ text \in [Files -> Seq(UserCells) \cup Seq(DictionaryCells)]
  /\ text["settings"] \in Seq(UserCells) /\ text["candidates"] \in Seq(UserCells)
  /\ text["config"] \in Seq(DictionaryCells) /\ text["instructions"] \in Seq(DictionaryCells)
  /\ \A f \in Files \ there : text[f] = Empty
  /\ pc \in [Procs -> Running \cup Ended]
  /\ opened \in [Procs -> BOOLEAN]
  /\ \A p \in Procs : opened[p] => pc[p] \in WriteStages /\ FileOf(pc[p]) \in there
  /\ cmd \in [Procs -> Commands]
  /\ mem \in [Procs -> [settings : Seq(UserCells), list : Seq(UserCells),
                        config : Seq(DictionaryCells)]]
  /\ faults \subseteq {"crash", "cut", "refused", "overlap"}
  /\ starts \in 0..MaxStarts /\ edits \in 0..MaxEdits

Init ==
  /\ there = {} /\ text = [f \in Files |-> Empty]
  /\ pc = [p \in Procs |-> "off"] /\ opened = [p \in Procs |-> FALSE]
  /\ cmd = [p \in Procs |-> "run"] /\ mem = [p \in Procs |-> Fresh]
  /\ faults = {} /\ starts = 0 /\ edits = 0

Go(p, stage) == pc' = [pc EXCEPT ![p] = stage]

\* The process is gone, and what it had in memory with it.
Exit(p, how) == Go(p, how) /\ mem' = [mem EXCEPT ![p] = Fresh]
FilesUnchanged == UNCHANGED <<there, text>>
Quiet == UNCHANGED <<faults, starts, edits>>

(***************************************************************************)
(* LoadOrInit.  An error of os.Stat other than "does not exist", of        *)
(* MkdirAll or of reading is Refuse.                                       *)
(***************************************************************************)
\* The default files written outside of the if.
StatSettingsRefresh(p) ==
  /\ pc[p] = "stat"
  /\ Go(p, "defaults")
  /\ FilesUnchanged /\ Quiet /\ UNCHANGED <<opened, cmd, mem>>

StatSettings(p) ==
  /\ pc[p] = "stat"
  /\ Go(p, IF "settings" \in there THEN "readSettings" ELSE "defaults")
  /\ FilesUnchanged /\ Quiet /\ UNCHANGED <<opened, cmd, mem>>

ReadSettings(p) ==
  /\ pc[p] = "readSettings"
  /\ IF Readable(text["settings"])
       THEN /\ Go(p, "statList")
            /\ mem' = [mem EXCEPT ![p].settings = text["settings"]]
       ELSE Exit(p, "unreadable")
  /\ FilesUnchanged /\ Quiet /\ UNCHANGED <<opened, cmd>>

StatList(p) ==
  /\ pc[p] = "statList"
  /\ Go(p, IF "candidates" \in there THEN "readList" ELSE "list")
  /\ FilesUnchanged /\ Quiet /\ UNCHANGED <<opened, cmd, mem>>

\* The defaults dropped for an empty file.
ReadListAsIs(p) ==
  /\ pc[p] = "readList"
  /\ mem' = [mem EXCEPT ![p].list = text["candidates"]]
  /\ Go(p, IF cmd[p] = "run" THEN "statConfig" ELSE "build")
  /\ FilesUnchanged /\ Quiet /\ UNCHANGED <<opened, cmd>>

\* init that keeps a config it finds.
ReadListEnsure(p) ==
  /\ pc[p] = "readList"
  /\ mem' = [mem EXCEPT ![p].list =
               IF Len(text["candidates"]) > 0 THEN text["candidates"] ELSE ListDoc(DefaultList)]
  /\ Go(p, IF cmd[p] # "explore" /\ "config" \in there THEN "load" ELSE "build")
  /\ FilesUnchanged /\ Quiet /\ UNCHANGED <<opened, cmd>>

\* Any lines will do (they are trimmed, which is left out); a file with none,
\* or that cannot be read, leaves the defaults in place.
ReadList(p) ==
  /\ pc[p] = "readList"
  /\ mem' = [mem EXCEPT ![p].list =
               IF Len(text["candidates"]) > 0 THEN text["candidates"] ELSE ListDoc(DefaultList)]
  /\ Go(p, IF cmd[p] = "run" THEN "statConfig" ELSE "build")
  /\ FilesUnchanged /\ Quiet /\ UNCHANGED <<opened, cmd>>

(***************************************************************************)
(* ensureConfig and runExplore.  A config that is there is never looked    *)
(* into before LoadConfig.                                                 *)
(***************************************************************************)
\* The generation left to a separate init.
StatConfigNever(p) ==
  /\ pc[p] = "statConfig"
  /\ Go(p, "load")
  /\ FilesUnchanged /\ Quiet /\ UNCHANGED <<opened, cmd, mem>>

StatConfig(p) ==
  /\ pc[p] = "statConfig"
  /\ Go(p, IF "config" \in there THEN "load" ELSE "build")
  /\ FilesUnchanged /\ Quiet /\ UNCHANGED <<opened, cmd, mem>>

Build(p) ==
  /\ pc[p] = "build"
  /\ \E t \in Trees :
       mem' = [mem EXCEPT ![p].config =
                 DictionaryDoc([settings |-> mem[p].settings, list |-> mem[p].list, tree |-> t])]
  /\ Go(p, IF cmd[p] = "explore" THEN "done" ELSE "config")
  /\ FilesUnchanged /\ Quiet /\ UNCHANGED <<opened, cmd>>

\* LoadConfig, of run and of encode and decode.  The pipeline and the mount
\* that follow touch none of the four files.
Load(p) ==
  /\ pc[p] = "load"
  /\ IF Readable(text["config"])
       THEN /\ Go(p, IF cmd[p] = "run" THEN "mounted" ELSE "done")
            /\ mem' = [mem EXCEPT ![p].config = text["config"]]
       ELSE Exit(p, "unreadable")
  /\ FilesUnchanged /\ Quiet /\ UNCHANGED <<opened, cmd>>

(***************************************************************************)
(* os.WriteFile of the file of the stage: it is created or truncated, then *)
(* written from its start.                                                 *)
(***************************************************************************)
\* An open that does not create the file.
TruncateNoCreate(p) ==
  /\ pc[p] \in WriteStages /\ ~opened[p]
  /\ text' = [text EXCEPT ![FileOf(pc[p])] = Empty]
  /\ opened' = [opened EXCEPT ![p] = TRUE]
  /\ Quiet /\ UNCHANGED <<there, pc, cmd, mem>>

Truncate(p) ==
  /\ pc[p] \in WriteStages /\ ~opened[p]
  /\ there' = there \cup {FileOf(pc[p])}
  /\ text' = [text EXCEPT ![FileOf(pc[p])] = Empty]
  /\ opened' = [opened EXCEPT ![p] = TRUE]
  /\ Quiet /\ UNCHANGED <<pc, cmd, mem>>

Write(p) ==
  /\ opened[p]
  /\ text' = [text EXCEPT ![FileOf(pc[p])] = WriteAtStart(@, Payload(p))]
  /\ Go(p, NextStage(p))
  /\ opened' = [opened EXCEPT ![p] = FALSE]
  /\ Quiet /\ UNCHANGED <<there, cmd, mem>>

\* The disk is full: a part is written, WriteFile returns the error and the
\* command exits.
CutShort(p) ==
  /\ opened[p]
  /\ \E k \in 0..(Len(Payload(p)) - 1) :
       text' = [text EXCEPT ![FileOf(pc[p])] = WriteAtStart(@, FirstBytes(Payload(p), k))]
  /\ Exit(p, "refused")
  /\ opened' = [opened EXCEPT ![p] = FALSE]
  /\ faults' = faults \cup {"cut"}
  /\ UNCHANGED <<there, cmd, starts, edits>>

\* A call fails and has changed nothing; BuildDictionary finds nothing to do.
Refuse(p) ==
  /\ pc[p] \in Running /\ ~opened[p]
  /\ Exit(p, "refused")
  /\ faults' = faults \cup {"refused"}
  /\ FilesUnchanged /\ UNCHANGED <<opened, cmd, starts, edits>>

Crash(p) ==
  /\ pc[p] \in Running
  /\ Exit(p, "off")
  /\ opened' = [opened EXCEPT ![p] = FALSE]
  /\ faults' = faults \cup {"crash"}
  /\ FilesUnchanged /\ UNCHANGED <<cmd, starts, edits>>

(***************************************************************************)
(* The user starts and stops commands and edits the files.                 *)
(***************************************************************************)
Overlap == IF RunningProcs = {} THEN {} ELSE {"overlap"}

Start(p, c) ==
  /\ pc[p] \in Ended /\ starts < MaxStarts
  /\ starts' = starts + 1
  /\ Go(p, IF c = "codec" THEN "load" ELSE "stat")
  /\ cmd' = [cmd EXCEPT ![p] = c]
  /\ mem' = [mem EXCEPT ![p] = Fresh]
  /\ faults' = faults \cup Overlap
  /\ FilesUnchanged /\ UNCHANGED <<opened, edits>>

Edit(f, s) ==
  /\ edits < MaxEdits
  /\ edits' = edits + 1
  /\ there' = there \cup {f} /\ text' = [text EXCEPT ![f] = s]
  /\ faults' = faults \cup Overlap
  /\ UNCHANGED <<pc, opened, cmd, mem, starts>>

\* A removal falls outside of the time a process has the file open.
Remove(f) ==
  /\ edits < MaxEdits /\ f \in there
  /\ \A p \in Procs : opened[p] => FileOf(pc[p]) # f
  /\ edits' = edits + 1
  /\ there' = there \ {f} /\ text' = [text EXCEPT ![f] = Empty]
  /\ faults' = faults \cup Overlap
  /\ UNCHANGED <<pc, opened, cmd, mem, starts>>

User ==
  \/ \E p \in Procs, c \in Commands : Start(p, c)
  \/ \E u \in UserSettings : Edit("settings", SettingsDoc(u))
  \/ \E u \in UserLists : Edit("candidates", ListDoc(u))
  \/ \E f \in {"settings", "candidates", "config"} : Remove(f)

Step(p) ==
  \/ StatSettings(p) \/ ReadSettings(p) \/ StatList(p) \/ ReadList(p)
  \/ StatConfig(p) \/ Build(p) \/ Load(p)
  \/ Truncate(p) \/ Write(p) \/ CutShort(p) \/ Refuse(p) \/ Crash(p)

Command == \E p \in Procs : Step(p)

Next == Command \/ User
Spec == Init /\ [][Next]_vars

(***************************************************************************)
(* Properties.  Each says which faults it holds in spite of.               *)
(***************************************************************************)
Spared(some) == faults \cap some = {}

(***************************************************************************)
(* No mount runs on a part of a config or of a settings file, or on a      *)
(* mixture of two: after crashes and full disks when commands run one at a *)
(* time, and after crashes and overlapping commands when no write is cut   *)
(* short (settings.go:84, codec.go:315: a part is not JSON).               *)
(***************************************************************************)
MountsAreWhole ==
  ~({"cut", "overlap"} \subseteq faults) =>
    \A p \in Procs : pc[p] = "mounted" => Whole(mem[p].config) /\ Whole(mem[p].settings)

(***************************************************************************)
(* A start fails on a file it cannot parse, or on a config that is not     *)
(* there, only after a crash, a full disk or an overlap: a command that    *)
(* returned an error on its own never stops the next one (settings.go:84,  *)
(* mount.go:25).                                                           *)
(***************************************************************************)
OnlyDamageStops ==
  Spared({"crash", "cut", "overlap"}) =>
    \A p \in Procs : pc[p] = "unreadable" => cmd[p] = "codec"

(***************************************************************************)
(* While nothing has gone wrong and no command is under way, the           *)
(* instructions given to the model describe the config that the next mount *)
(* will use (main.go:214).                                                 *)
(***************************************************************************)
InstructionsDescribeConfig ==
  faults = {} /\ RunningProcs = {} /\ "config" \in there
    => text["instructions"] = text["config"]

(***************************************************************************)
(* A dictionary is generated from whole settings and a whole list even     *)
(* when a command died inside one of them: a list that is empty gives way  *)
(* to the defaults (settings.go:107).                                      *)
(***************************************************************************)
BuiltFromWholeFiles ==
  Spared({"cut", "overlap"}) =>
    \A p \in Procs : pc[p] \in {"config", "instructions"} =>
      Whole(mem[p].config[1][1].settings) /\ Whole(mem[p].config[1][1].list)

(***************************************************************************)
(* An init that comes to its end, alone, leaves a whole config that its    *)
(* instructions describe and that was built from the settings and the list *)
(* on disk, whatever crash or full disk came before: it is the way out of  *)
(* a config that cannot be loaded (main.go:111).                           *)
(***************************************************************************)
InitDone(p) == cmd[p] = "init" /\ pc[p] # "done" /\ pc'[p] = "done"

InitRepairs ==
  [][Spared({"overlap"}) =>
       \A p \in Procs : InitDone(p) =>
         /\ Whole(text'["config"]) /\ text'["instructions"] = text'["config"]
         /\ LET d == text'["config"][1][1]
            IN /\ d.settings = text'["settings"]
               /\ d.list = text'["candidates"] \/ Len(text'["candidates"]) = 0]_vars

(***************************************************************************)
(* Commands that run one at a time leave the user's settings alone, and    *)
(* the user's candidates as long as there is a settings.json, whatever     *)
(* crash, error or full disk comes between (settings.go:77-84, 101).       *)
(***************************************************************************)
UsersSettings == \E u \in UserSettings : text["settings"] = SettingsDoc(u)
UsersList == \E u \in UserLists : text["candidates"] = ListDoc(u)

UsersFilesKept ==
  [][Command /\ Spared({"overlap"}) =>
       /\ UsersSettings => text'["settings"] = text["settings"]
       /\ UsersList /\ "settings" \in there => text'["candidates"] = text["candidates"]]_vars
=============================================================================
