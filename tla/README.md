# llmfs: specifications, model checks and proofs

llmfs mounts a source tree at a second place through FUSE. A client of the
mount sees each file in a compressed form, the *view*; what it writes is turned
back before it is saved to the source file. These modules specify the parts of
that program that decide whether a source file is right after a series of
opens, writes, closes, renames, crashes and restarts; TLC checks small
instances of them and TLAPS proves the most important statements for all.

Paths below are relative to the repository (`internal/...`, `cmd/...`).

## 1. The system

| Part | State it keeps | Operations |
| --- | --- | --- |
| Overlay files, `internal/mountfs/fs.go` | per open file: path, flags, buffer, `prepared`, `dirty`, a mutex | Open, Create, Read, Write, Flush, Release; everything else inherited from go-fuse's loopback node |
| Pipeline, `internal/transform` | the ordered middlewares | `Serve` (raw to view), `Commit` (view to raw, in reverse order) |
| Middlewares, `internal/middleware` | none | deny_env_dotfiles, redirect_env_to_agent, codec, deny_binary |
| Codec, `internal/codec` | dictionary, two tries | New, Encode, Decode (formats tce1 and tce2), BuildConfig, LoadConfig, SaveConfig |
| Explorer, `internal/explorer` | texts read so far, counts | BuildDictionary: walk, score, choose codes and escape |
| Mount life cycle, `internal/mountfs/mount.go` | the kernel's mounts, the mount point | prepareMountpoint, mountWithRecovery, recoverStaleMounts, interrupts |
| Settings, `internal/appcfg` | settings.json, candidates.txt | LoadOrInit, normalizeSet |
| Command line, `cmd/llmfs/main.go` | config.json, instructions | init/explore, mount, encode, decode |

How they meet. `mount` loads the settings, makes sure that a dictionary exists
(running the explorer if not), builds the pipeline and mounts. Each request of
the kernel runs in its own goroutine. A handle reads the source file and calls
`Serve` for each READ until its first WRITE, which *prepares* a buffer with the
whole view; later reads and writes use the buffer; FLUSH (at each close) and
RELEASE (after the last) *commit* it: `Commit`, then `os.WriteFile` on the path
the handle was opened under. Names such as `f.tmp` or `f.swp` bypass all that:
they get a loopback file, in view form as the client writes it.

What is hard:

- several handles, and local tools, work on one source file; the mutex is per
  handle, and os.WriteFile is two system calls;
- a crash or a full disk between the truncation and the write;
- FLUSH errors are reported, RELEASE errors are not;
- renames, links, unlinks and truncations by path go past the open handles;
- codec formats with an escape, where values may contain codes and escapes and
  edited views may end anywhere;
- a dictionary that is built from files that change meanwhile, and built twice;
- mounts that outlive their process, with recovery steps that fail half-way,
  remove a directory tree, and race with other processes and interrupts;
- four files under `.llmfs/` that every command reads, and writes in place when
  they are missing, without a lock.

What makes each part correct:

- overlay: canonical bytes in the source; no edit lost without an error; what is
  saved is the commit of the buffer, whole; saving what was served changes
  nothing; denied names are neither served nor written;
- codec: decoding is the inverse of encoding for every text, and ends;
  an edited or cut view is refused or decodes to what its parts say;
- explorer: its dictionaries are ones for which that holds, lose nothing of
  what was measured, and leave the scanned files without escapes; the scan
  keeps its limits;
- life cycle: starts end, dead mounts go away, nothing removes source files,
  and a process that is interrupted ends or serves on;
- settings and commands: nothing runs on half a file, an init repairs what a crash
  has left, the user's own files survive, the instructions fit the dictionary.

`PROJECT.json` lists the places where this could go wrong ("hazards"), each with
the properties that watch it.

## 2. The modules

| Module | Models | Lines of code it stands for |
| --- | --- | --- |
| `ByteSeq` | make/copy of a buffer, write(2) and truncate(2) on bytes | `fs.go` 143-149 |
| `Pipeline`, `PipelineProofs` | NewPipeline, Serve, Commit, the four middlewares; theorems | `pipeline.go`, `internal/middleware` |
| `TransFile` | handles over a source file system | `fs.go` |
| `OverlayStore` | what the mount promises its clients: files and sessions | abstract |
| `TransFileStore` | TransFile as an implementation of OverlayStore, and under which discipline | - |
| `MCTransFile` | instances of TransFile with the real pipeline and codec | - |
| `TransFileProofs` | theorems about TransFile | - |
| `TransFileStoreProofs` | theorems under the one-writer discipline; the refinement; the mount as a whole | - |
| `Codec` | New's checks, one turn of each loop, Encode, Decode | `codec.go` 15-295 |
| `CodecLoop` | a file encoded and decoded turn by turn | `codec.go` 144-247 |
| `MCCodecLoop`, `CodecProofs` | instances; theorems about the loops | - |
| `CodecFunctionProofs` | theorems about Encode and Decode as functions | - |
| `Explorer` | scan, selection, save, load | `explorer.go`, `codec.go` 309-355, `main.go` 161-188 |
| `MCExplorer`, `ExplorerProofs` | instances of Explorer; theorems | - |
| `MountLifecycle` | processes that start, recover, serve, stop and die | `mount.go` |
| `MountProofs` | theorems about MountLifecycle | - |
| `Startup` | the commands and the files of `.llmfs/` | `settings.go` 32-140, `main.go` 27-225, `codec.go` 297-329 |
| `MCStartup`, `StartupProofs` | an instance; theorems | - |

`MCTransFile` composes TransFile with `Pipeline` and `Codec` by INSTANCE; the
handle module itself knows the pipeline only as the operators `PServe` and
`PCommit`, so that its theorems hold for every pipeline. `Explorer` extends
`Codec`: what it generates is judged by the codec's own acceptance test and by
the condition `Reversible`, under which `CodecFunctionProofs` and `CodecProofs`
prove the round trip.

### TransFile

`dir` binds names to inodes, `data` holds their bytes, `hd[h]` is the record of
a transFileHandle (or of a loopback file). `origin` is a ghost: which inodes
hold bytes that a client put there through a loopback file. An inode model is
needed because loopback descriptors follow the file, while transformed handles
follow the path.

| Action | Code |
| --- | --- |
| `OpenTrans`, `OpenLoop` | `TransNode.Open` (38-45) for the two kinds of names |
| `Create` | `TransNode.Create` (49-71), with O_CREAT on a file that is already there |
| `Write`, `AppendToEnd`, `WriteTooFar` | `Write`, at any offset and at the one the kernel takes for the end, with `prepareWriteLocked`; the last is the panic that `recoverAsErrno` turns into EIO after the buffer was prepared |
| `CommitClean`, `CommitRefused`, `CommitTruncate`, then `CommitWrite` or `CommitWriteFails` | Flush and Release through `commitLocked`; a refusal covers Pipeline.Commit's error and an open(2) that fails; the last three are the two system calls of os.WriteFile |
| `LoopWrite`, `LoopRelease`, `Rename`, `Link`, `Unlink`, `Setattr` | what TransNode inherits; also what local tools do |
| `LocalEdit` | an edit beside the mount |
| `Crash` | the end of a mount process: its handles vanish, the files stay |

One action is one critical section of the handle's mutex, except that the
commit is two, so that other handles, tools and crashes come between the
truncation and the write. READ changes nothing and is the operator
`currentView`. Requests that the code refuses without a change of state are not
steps. Negative offsets never reach a file handle. An error of ReadFile other
than "not exist" leaves everything as it is and is no step either.

### OverlayStore and TransFileStore

`OverlayStore` has no inodes, flags, mutexes or buffers in flight: `store[n]` is
the content of a file, `session[h]` what a client has open. A session is clean,
edited or saving; `held` says whether it has a view of its own; `told`, whether
its client knows that the view is not saved. `BeginSave` empties the file,
`EndSave` puts the whole commit of the view there, `Tear` leaves a beginning of
it, tells the client and keeps the view; a session closes only when it is clean
or its client was told. `Fetch` gives a session its view, from what is served or
from nothing.

`TransFileStore` maps TransFile to it: the files are the transformed names,
`store[n]` the bytes of the inode the name is bound to, `SessionOf` reads state,
view and `told` off a handle record. `ImplementsStore` is the abstract
specification under that mapping. It holds under `Quiet`: opens for writing are
exclusive per name, and nobody renames, links, removes, cuts or edits the files
beside the mount. Loopback handles are not seen by the store.

### Codec and CodecLoop

A text is a sequence of symbols; `hasPrefixAt`, `ValueMatch` and `CodeMatch`
stand for the tries' longest match. `EncodeStep` and `DecodeStep` are one turn
of the loops, `Encode` and `Decode` the loops as functions; CodecLoop runs the
turns with the code's two positions, and keeps in `marks` where each turn began.
The two are tied by `LoopsAreFunctions`: a loop that is done holds what the
function gives. What a client makes of a view is not a step of its own:
`EditKeepsTextBefore` and `CutViewIsPrefix` ask it of each finished encoding,
for all `Tails` an editor may leave behind it and for every place it may be cut.

### Explorer

The walk with skip rules and limits (`ScanSkip`, `ScanRead`, `ScanEnd`, and
`ScanFails` where a directory cannot be read, with `Edit` in between), `Select` for scoring, codes and escape, `Save` for the
second BuildConfig, `Load` for the mount's check. The tokenizer is the constant
operator `Tokens`; a skip pattern is the set of paths that matchSkipPattern
accepts for it, with its negation and its rank in byte order. A sort
(`InOrder`) puts at place k the element before which k - 1 others come, a
definition that a proof can use as well as TLC; `Fresh` is the walk through the
list of possible symbols, `Paired` the loop and the sort of BuildConfig.

### MountLifecycle

`stack` is the mounts on the mount point, live or dead; `parent` says whether
its directory lies under a dead mount; `entry` is what is at the mount point
underneath; `ps[p]` is where process p is. Each system call or unmount helper
is a step: `Stat`, `Replace`, `MkdirAll` (prepareMountpoint); `FsMount`,
`FsMountFails` (mountWithRecovery); `Unmounts`, `UnmountsNothing`,
`UnmountFails`, `RemoveAll`, `Recreate` (recoverStaleMounts, forceUnmount);
`NotifySignals`, `Interrupt`, `ServerUnmount`, `Exit` (the signal handling),
`Kill` (a death from outside). `RemoveAll` on a live mount removes the source
files through it. Constants: `OneStart` keeps starts from overlapping;
`Stacking` says whether mounting over a live mount succeeds, which on Linux it
usually does, or is busy; `MtabTrue`, that no helper calls a live mount "not
mounted". The passing run and the second theorem are about the busy case and
helpers that know; for the others see the notes in section 5. `FsMountFails` may
also come without a mount in the way (no permission, or "busy" and "file exists"
for other reasons), and is then recovered from or not, as its message says.

### Startup

`there` and `text` are the four files; a document is a sequence of cells that
say which document they belong to, at which place of how many. `pc[p]` is the
stage of p's command, `opened[p]` says that it is between the open with O_TRUNC
and the write of os.WriteFile, `mem[p]` what it has read or generated, `faults`
what has gone wrong so far: "crash", "cut" (the disk is full), "refused" (a
call failed and changed nothing), "overlap" (a command was started, or a file
edited, while a command was under way).

| Action | Code |
| --- | --- |
| `Start` | `main`'s switch: run (and mount), init, explore, and encode or decode ("codec") |
| `StatSettings`, `ReadSettings` | LoadOrInit, `settings.go` 68-101; settings that do not parse end the command |
| `StatList`, `ReadList` | 103-119; a list without lines gives way to the defaults |
| `StatConfig`, `Build` | ensureConfig, `main.go` 161-181; runExplore, 94-110 |
| `Load` | codec.LoadConfig, from Mount or from encode and decode |
| `Truncate`, `Write` | the two calls of each os.WriteFile: defaults, settings, list, config, instructions, in the order `NextStage` gives |
| `CutShort`, `Refuse`, `Crash` | a full disk inside a write, a call that fails, a process that dies |
| `Edit`, `Remove` | the user |

A file parses (`Readable`) when it ends where its value ends. A part of a
document never does; a mixture of two may, and does in the model.

## 3. What the runs check

Passing runs:

| Run | Instance | Shows |
| --- | --- | --- |
| `SaveQuiet` | deny_binary on; names `f.go` and `.env.local`; two handles, one writer per name; disk faults and crashes; files up to 2 bytes, buffers up to 4 | `ImplementsStore`: the handles are an implementation of OverlayStore. `SavedIsWhole`: a flush that cleans a handle leaves exactly the commit of its buffer. `CleanBufferIsSource`: a clean prepared buffer agrees with the file, also after failures and retries. `UnchangedSaveIsNoOp`: saving what is served changes nothing. `DeniedNeverPrepared`: a denied name never gets a buffer, even through O_TRUNC, and is never readable. `DirtySettles`: every edit is saved or given up, though deny_binary may refuse each commit. |
| `Canonical` | two unrestricted writers on `f.go` and the loopback names `f.go.tmp` and `f.go.bak`; a rename of the file to its backup, hard links between the two temporary names, removals, truncation by path, local edits, disk faults, crashes | `SourceCanonical`: no view bytes under a transformed name. `CommitIsOfBuffer`: the bytes being written are the commit of the buffer the handle has now. `LossIsReported`: unsaved edits vanish only after a FLUSH has reported an error, or in a crash; also where RELEASE's own write fails after the truncation. |
| `Reversible` | all reversible dictionaries of up to two entries in both formats, codes of one and of two symbols; all texts up to 4 symbols over letters, escape and code; all tails up to 2 symbols and all cuts of each view | `RoundTrip`, `InStep`, `LoopsAreFunctions`, `Ends`. `EditKeepsTextBefore`: what stands behind a view does not change how the view decodes. `CutViewIsPrefix`: a view cut anywhere is refused or gives a beginning of the text. |
| `Generate` | three files, seven contents, edits during the scan, three lists of skip patterns, both formats, dictionary sizes 1 to 3 | `GeneratedIsReversible`, `SavedAsMeasured`, `ScanBounded`. `ScannedNeedNoEscape`: in tce2 no scanned file is served with an escape. |
| `Recovery` | two processes, starts one at a time, two deaths, one helper, each first state of the mount point and its parent | `SourceSurvives`: no RemoveAll goes into a live mount. `StartSettles`, `StaleHeals`: starts end, dead mounts go away. `InterruptEnds`: a process whose handler heard an interrupt ends, or serves on with its unmount failed; it does not wait on without a handler. And no deadlock |
| `Startup` | two processes, three starts in all, one edit or removal by the user, any number of crashes, full disks and failing calls; documents of two and three cells | `MountsAreWhole`: no mount runs on a part or a mixture. `OnlyDamageStops`: a command that merely returned an error never stops the next. `InstructionsDescribeConfig`. `BuiltFromWholeFiles`: no dictionary comes from half a list. `InitRepairs`: init is the way out of a broken config. `UsersFilesKept`: commands leave the user's files alone. |

Runs that TLC finds violated, each a place where a document says one thing and
the code does another:

| Run | Property | What happens |
| --- | --- | --- |
| `TempRename` | `SourceCanonical` | a client saves by writing `f.go.tmp` and renaming it to `f.go`: the view becomes the source (README.md:5) |
| `TwoWriters` | `SavedIsWhole` | two commits interleave in os.WriteFile; both report success, the file is a mixture (docs/DEEP_DIVE.md:181) |
| `Append` | `AppendKeepsView` | the size a client sees is that of the raw file: what it appends lands inside the view (docs/DEEP_DIVE.md:181) |
| `EnvSave` | `UpdateWritesBack` | `.env` is served as `.env.agent`; opened for an update and closed with what is served, it gets that content over its own, which differs (README.md:14; docs/DEEP_DIVE.md:141 promises the redirect for reads only) |
| `SkipNegation` | `NegationReincludes` | normalizeSet sorts `!` patterns to the front, where they have no effect (docs/DEEP_DIVE.md:122) |
| `StackedMounts` | `SourceSurvives` | the dead mount on top is taken away, RemoveAll goes into the live one beneath (README.md:5) |

### Bounds

- Source files of up to 2 bytes and buffers of up to 4 over {a, b, escape, code,
  NUL}, 1 and 2 where renames or liveness make the state space large: b and the
  escape are longer in the view, so a truncation, a tail left by a shorter
  write, a half code at the end and a NUL gap all occur. `Views`
  leaves out buffers whose commit would be longer than `MaxRaw`; `Write` is not
  taken there.
- Two handles suffice for interference between two commits. A third inode lets
  a removed or renamed file live on while its name is used again.
- Texts of 4 symbols and two entries: values that are prefixes of each other,
  overlap, and contain a code or stand next to the escape.
- Each property of Startup names the faults in spite of which it holds, and none
  of these exemptions can be dropped: TLC then finds a counterexample within
  three starts. Three starts are a command that is damaged, one that meets the
  damage, and one more beside it. The documents differ in length, so that a
  short one over a long one leaves a rest; a third length adds no new mixture.
  A removal falls outside of the time that a process has the file open (it would
  write to a file without a name).
- Two scan limits that are met in some walks and not in others; alphabets in which
  the first choice of code symbol is used up by some files.
- `Tries` = 3: unmount(2) twice and one helper; more helpers repeat the last
  case. `MaxKills` = 2: the recovering process can die as well as the first. In
  `StackedMounts` `MaxStack` = 2; a mount beyond `MaxStack` is simply not made,
  which is an artefact of the bound (with `Stacking` FALSE, as in `Recovery`,
  it is never reached).
- `EnvSave` begins with `a` in `.env` and `1` in `.env.agent`, and its trace opens
  without O_TRUNC: what is lost is what `.env` held before.
- `VIEW Reachable` drops the bytes of inodes nobody can reach; symmetry over
  handles, inodes and processes is used in runs without liveness only.

### Fairness

- TransFile: a system call of os.WriteFile that has begun returns; a client
  closes its file at some time, so that FLUSH comes (weak), and RELEASE after
  the last FLUSH (strong: a WRITE through another descriptor disables it).
- CodecLoop: the program goes on. Explorer: none.
- Startup: none; everything stated of it is safety.
- MountLifecycle: a running process goes on; the user starts llmfs again when
  it is down; and an unmount that is tried again and again succeeds or finds
  nothing, at some time (strong). Nothing is assumed of interrupts and deaths.

`Recovery` checks for deadlock. In the other runs the system may stop: a codec
that is done, commands that have ended with no start left, an explorer that has loaded its dictionary, a mount without
clients whose bounds are used up.

## 4. What is proved

TLAPS proves, for every value of the constants that meets the named
assumptions:

| Theorem | States | From |
| --- | --- | --- |
| `TransFileProofs!TypeCorrect` | types of the handle module | the pipeline answers with bytes or an error (`PipelineAssumption`) |
| `TransFileProofs!CommitsTheBuffer` | `CommitIsOfBuffer` | the same |
| `TransFileProofs!DeniedIsNeverWritten` | `DeniedNeverPrepared` | the same |
| `TransFileProofs!NoSilentLoss` | `LossIsReported` | the same |
| `TransFileProofs!SourceStaysCanonical` | `SourceCanonical` | `Discipline`: no rename gives a transformed name to a file from a temporary one, and no hard link joins the kinds |
| `TransFileStoreProofs!SavesAreWhole` | `SavedIsWhole` | `Quiet` |
| `TransFileStoreProofs!CleanBuffersAgree` | `CleanBufferIsSource` | `Quiet`, and `PipelineReversible`: commit undoes serve |
| `TransFileStoreProofs!HandlesImplementStore` | `ImplementsStore` | `Quiet`; any pipeline |
| `TransFileStoreProofs!MountKeepsFiles` | `UnchangedSaveIsNoOp`, of the pipeline as it is built | `RealMount`: the dictionary is `Reversible`, the list of middlewares mounts, and no file is a redirected `.env` |
| `PipelineProofs!CommitUndoesServe` | Commit turns what Serve made of a file back into that file | any list of middlewares, in any order, that mounts; decoding undoes encoding; the name is not a redirected `.env` |
| `PipelineProofs!DeniedIsNotServed` | with deny_env_dotfiles in the list no `.env.*` is served | any such list |
| `CodecFunctionProofs!TurnIsUndone` | wherever the output of a turn of Encode stands in a text, one turn of Decode takes just that and gives back what the turn took | the dictionary is `Reversible` |
| `CodecFunctionProofs!DecodeUndoesEncode` | Decode of Encode is the text, for all texts | the dictionary is `Reversible` |
| `CodecProofs!CodecRoundTrip` | `RoundTrip` for all texts | all configurations are reversible |
| `CodecProofs!DecodeFollowsEncode` | `InStep` | the same |
| `CodecProofs!EditsAfterKeepText`, `CutsGiveBeginnings` | `EditKeepsTextBefore`, `CutViewIsPrefix`, for all texts, tails and cuts | the same |
| `CodecFunctionProofs!TailKeepsText`, `CutViewDecodes` | the same two of the functions | the dictionary is `Reversible` |
| `CodecProofs!LoopsComputeFunctions` | `LoopsAreFunctions` for all texts | configurations of texts (`CodecAssumption`) that New accepts, reversible or not |
| `ExplorerProofs!ScanKeepsLimits` | `ScanBounded` | files are texts or not UTF-8; any walk, limits and edits |
| `ExplorerProofs!ExploreIsReversible` | `GeneratedIsReversible` | the same, and `Counted`: the tokenizer gives numbers; each list of symbols names a symbol once, and `~` is no code of tce1 (`SymbolAssumption`) |
| `ExplorerProofs!ExploreSavesWhatItMeasured`, `ExploreEscapesNothing` | `SavedAsMeasured`, `ScannedNeedNoEscape` | the same |
| `ExplorerProofs!ExploreRoundTrips` | every text comes back through the config that explore writes | the same |
| `MountProofs!MountTypeCorrect` | types of the life cycle | - |
| `MountProofs!RecoverySparesSource` | `SourceSurvives` | `OneStart`, no `Stacking` and `MtabTrue`; any number of processes |
| `StartupProofs!TypeCorrect` | types of the startup | documents have at least one cell |
| `StartupProofs!MountsUseWholeFiles`, `StartsAreStoppedByDamage`, `InstructionsAgree`, `DictionariesFromWholeFiles` | `MountsAreWhole`, `OnlyDamageStops`, `InstructionsDescribeConfig`, `BuiltFromWholeFiles` | the same; any number of processes, starts and edits, documents of any length |
| `StartupProofs!InitIsTheWayOut`, `UsersFilesSurvive` | `InitRepairs`, `UsersFilesKept` | the same |

The arguments:

- *Handles.* `HandleInv` says of each handle record alone: dirty implies
  prepared and writable; a request in os.WriteFile has the commit of its buffer
  as payload; a prepared handle's name is not denied; an answer "ok" means
  clean. Being about one record, it survives every step of others, and each
  step of the handle itself is one case. `CommitIsOfBuffer` needs the
  "dirty implies prepared and writable" of a handle that is about to commit.
- *Canonical source.* `SourceCanonical` alone is not inductive: a loopback
  descriptor open on a file that also has a transformed name would break it.
  `CanonicalInv` adds that a file under a transformed name has no other name
  and no loopback descriptor. `Discipline` is exactly what rename and link must
  keep; the run `TempRename` shows what happens without it.
- *One writer.* What `Quiet` gives is the invariant `QuietInv`: a transformed
  handle is on a transformed name (`TransPaths`), no two writing handles share
  one (`OneWriter`), and a handle inside os.WriteFile finds under its path the
  inode it truncated, still empty (`Window`). `SavedIsWhole` is `Window` at the write;
  `CleanBufferIsSource` adds that a clean prepared handle's file does not change
  under it, which is `OneWriter` for the commits of others. `Quiet` and
  `PipelineReversible` hold of the instance `SaveQuiet`.
- *Refinement.* Initial states map to initial states; each action of a handle is
  shown to be one action of the store or a stutter: opens are `Open`, a WRITE is
  `Edit`, a prepare that panics `Fetch`, and `CommitTruncate`, `CommitWrite` and
  `CommitWriteFails` are `BeginSave`, `EndSave` and `Tear`. `Window` is what
  makes the last two leave the right bytes, and `LossIsReported`'s invariant (a
  RELEASE of a dirty handle comes after a FLUSH that failed) what lets a session
  close whose RELEASE fails, in the pipeline or in its write.
- *Codec.* `LoopInv` says that the turns of Encode form a chain of marks through
  text and output, and that the decoder stands at a mark with the text before it
  restored (`InStep`). `TurnIsUndone` moves the decoder from one
  mark to the next: when codes have one symbol in tce2, when none continues
  another and none begins with the escape, the decoder finds at a mark the
  entry the encoder wrote there, whatever follows. The loop's own steps carry
  the induction.
- *Functions.* For the recursive functions the induction has to be made. The
  library's induction rules take a predicate as parameter, which the provers
  cannot instantiate; so the predicate is a set of numbers, and `LeastNumber` (a
  set of numbers that is not empty has a least element, from the
  well-foundedness of <) gives `Forwards` and `Backwards`. A recursive function
  is a CHOOSE; `Recursion` shows once that a function exists whose calls go
  down a measure, which for Encode and Decode is the rest of the text
  (`EncodeFromIs`, `DecodeFromIs`). After that the functions unfold turn by
  turn, and `DecodeUndoesEncode` is `TurnIsUndone` from the last turn to the
  first. `LoopsComputeFunctions` adds to the loops' invariant that what is done
  and what is still to come make up the function's value; where a turn of
  Decode fails, so does the function. `TailKeepsText` is the same way back from
  the last turn, with the tail's own decoding where the empty one stood;
  `CutViewDecodes` goes down the turns that the cut leaves whole, each of which
  gives back its part of the text; what is left of the turn the cut falls into (a
  lone escape, or an escape and half a code) is refused.
- *The mount as a whole.* Commit runs the middlewares in reverse; `CommitUndoesServe`
  goes down the list with the bytes each of them was given. Each built-in
  either passes bytes on, or refuses them on both ways, or is the codec, for
  which `DecodeUndoesEncode` holds, or is redirect_env_to_agent, which gives another
  file's bytes for `.env`. The run `EnvSave` shows that this exception is
  real. With `CommitUndoesServe` the abstract pipeline of TransFile is
  `PipelineReversible`, and `MountKeepsFiles` follows.
- *Scan.* A text is added below both limits only, and `totalBytes` without the
  last text is what was tested.
- *Choice of a dictionary.* `InOrderIs`: in a strict total order of a finite set
  the number of elements before one is different for each, so that `InOrder`
  is a permutation. Byte order is such an order (`BeforeStrict`,
  `BeforeTransitive`, `BeforeTotal`), so is the order of gain (`RankingIsStrict`;
  here the tokenizer must count), and candidates are finitely many because the files
  are (`CandidatesAre`). So the values are different texts without the escape
  (`ValuesAre`), escape and codes different symbols (`SymbolsAre`), and whatever
  way they are paired, the result is `Reversible` (`PairsAreDictionary`).
  `ExploreInv` keeps from Select on what Save and Load need: the Result's codes
  are the first as many of the codes as there are entries, and none without a
  value left (`Chosen`). Without the latter BuildConfig, given no code, would
  take those of tce1. That no scanned file is served with an escape comes from
  `BlobIs`, each symbol of a file is in the joined text in which the escape and
  the codes were looked for, and from `NothingEscaped`, an encoding of symbols
  that are neither has the escape nowhere.
- *Life cycle.* `RecoveryInv`: one process starts at a time; one mount at most;
  and a recovery that is past the mount point has left no live mount there.
- *Startup.* The key is two shapes a file can have. As long as no write was cut
  short it begins with a whole document, whatever was mixed behind it
  (`Begins`); as long as commands did not overlap it is the first cells of one
  (`Partial`). In either shape only a whole document parses. `ReadInv` says that
  what a command on its own has read is still on disk, `SoundInv` that a file
  that nobody has open is whole unless something went wrong, `DescribesInv` that
  config and instructions differ only while they are being written.

Only model-checked: the liveness properties (`DirtySettles`, `Ends`,
`StartSettles`, `StaleHeals`, `InterruptEnds`), which rest on fairness and ENABLED. Every safety
invariant and action property of the passing runs is a theorem.

## 5. What is not modelled

- READ has no steps: a file read in several chunks while it is saved, and the
  empty file a reader may see inside os.WriteFile.
- A .env.agent that exists and cannot be read; two mounts that show each other.
- JSON, flags, printing, progress, buildInstructions; the installer and CI. What
  encode and decode read and write beside the config.
- In Startup: a settings file that names another candidates file, the trimming of
  the list's lines, and what the explorer makes of the settings.
- A live file system on the parent of the mount point, which the recovery also
  force-unmounts.

Noted while reading, and not stated as properties:

- `New` accepts dictionaries whose codes continue one another or begin with the
  escape, which do not round-trip; the codec's runs and theorems are about
  reversible ones, and `GeneratedIsReversible` says that explore's are.
- The default candidates are written to candidates.txt and read back line by
  line, trimmed (`settings.go` 149-164): "package " loses its blank and "\n\n" is
  gone.
- candidates.txt is overwritten when settings.json is missing, though it may be
  the user's (`settings.go` 127); `UsersFilesKept` therefore asks for a settings
  file. docs/DEEP_DIVE.md:66-69 says "creates".
- `skip_paths: []` cannot clear the defaults (`settings.go` 92).
- A cut settings.json stops every command until somebody edits it, a cut
  config.json until the next init; a cut candidates.txt silently becomes the
  list.
- server.Unmount goes by the path (`mount.go` 85). Where a second llmfs is mounted
  over the first, an interrupt of the first takes the second's mount away, and
  the first waits on for its own to end, its handler gone: with `Stacking` TRUE,
  `MaxStack` 2 and without the deadlock check, TLC finds `InterruptEnds`
  violated so.
- A helper's "not mounted" or "not found in /etc/mtab" counts as nothing to unmount
  although unmount(2) has failed on what is there (`mount.go` 253-256), and
  RemoveAll follows: with `MtabTrue` FALSE TLC finds `SourceSurvives` violated.
  That needs a helper that does not know a live mount.
- A dictionary may make a file longer: a code may have three bytes where its value
  has two, and the gain of every entry is counted with the tokens of the first code
  (`explorer.go` 241-245). `ScannedNeedNoEscape` is about escapes only.
- The second BuildConfig pairs codes that are sorted with values that are not:
  a value may have another code in config.json than when it was measured.
  `SavedAsMeasured` compares the sets; nothing says that the pairs must stay.
- The config path is relative to the working directory, the settings path to the
  root; a config that is there is never generated again, whatever its
  instructions say (`main.go` 162).

## 6. Plan

Done, in this order: TransFile with the pipeline and the codec; CodecLoop;
Explorer; MountLifecycle; OverlayStore and the refinement; Startup; the proofs,
last those of the functions, of the pipeline and of the explorer's choices.

What is left:

1. READ in steps, and what a reader may see while a file is saved.
2. MountLifecycle with a live parent file system.
3. `ExploreRoundTrips` carried on to the mount: that the dictionary in `RealMount`
   is one Explorer has saved is so far said by `ExploreIsReversible` alone.
