---------------------------- MODULE MCTransFile ----------------------------
(***************************************************************************)
(* TransFile over the real pipeline and a tce1 codec with one entry, for   *)
(* TLC.  The bytes are a, b, the escape E, the code 1 and NUL; the entry   *)
(* maps b to 1, so that "b" is served as "E1", a view of another length,   *)
(* "E" is served as "EE", and a view that ends in a lone "E" does not      *)
(* decode.                                                                 *)
(***************************************************************************)
EXTENDS TransFileStore, SequencesExt

CONSTANTS
  goFile,    \* a plain file, "f.go"
  tempFile, bakFile,  \* "f.go.tmp" and "f.go.bak": no such files at first
  envLocal,  \* ".env.local"
  envFile,   \* ".env"
  MaxRaw,    \* the longest source file
  MaxView    \* the longest buffer

Cdc == INSTANCE Codec

Dictionary == [version |-> "tce1", escape |-> <<"E">>,
               entries |-> <<[code |-> <<"1">>, value |-> <<"b">>]>>]

MCEncode(raw) == Cdc!Encode(Dictionary, raw)
MCDecode(view) == Cdc!Decode(Dictionary, view)

Module(name, enabled) == [name |-> name, enabled |-> enabled]

DefaultModules ==
  <<Module("deny_env_dotfiles", TRUE), Module("redirect_env_to_agent", TRUE),
    Module("codec", TRUE), Module("deny_binary", FALSE)>>

\* With deny_binary on and before the codec, as the ordering guidance has it.
StrictModules ==
  <<Module("deny_env_dotfiles", TRUE), Module("redirect_env_to_agent", TRUE),
    Module("deny_binary", TRUE), Module("codec", TRUE)>>

Default == INSTANCE Pipeline WITH
  Configs <- DefaultModules,
  EnvNames <- {envFile} \cap Names, EnvDotNames <- {envLocal, AgentName} \cap Names,
  Encode <- MCEncode, Decode <- MCDecode

Strict == INSTANCE Pipeline WITH
  Configs <- StrictModules,
  EnvNames <- {envFile} \cap Names, EnvDotNames <- {envLocal, AgentName} \cap Names,
  Encode <- MCEncode, Decode <- MCDecode

ASSUME MountableAssumption == Default!Mountable /\ Strict!Mountable

Bytes == {"a", "b", "E", "1", Zero}

MCContents == BoundedSeq(Bytes, MaxRaw)

\* The buffers whose commit, if there is one, is a source file of the instance.
MCViews ==
  {v \in BoundedSeq(Bytes, MaxView) :
     MCDecode(v).err = "ok" => MCDecode(v).content \in MCContents}

\* What the pipelines answer, as functions: TLC computes each once.
ServeCases == Names \X MCContents \X (MCContents \cup {Missing})
CommitCases == Names \X MCViews

DefaultServes == [c \in ServeCases |-> Default!Serve(c[1], c[2], c[3])]
DefaultCommits == [c \in CommitCases |-> Default!Commit(c[1], c[2])]
StrictServes == [c \in ServeCases |-> Strict!Serve(c[1], c[2], c[3])]
StrictCommits == [c \in CommitCases |-> Strict!Commit(c[1], c[2])]

DefaultServe(n, raw, agent) == DefaultServes[<<n, raw, agent>>]
DefaultCommit(n, view) == DefaultCommits[<<n, view>>]
StrictServe(n, raw, agent) == StrictServes[<<n, raw, agent>>]
StrictCommit(n, view) == StrictCommits[<<n, view>>]

\* The tree before the mount: the plain file and the agent's have contents of their own.
Before(n) == IF n = goFile THEN <<"b">> ELSE IF n = AgentName THEN <<"1">> ELSE <<"a">>

MCInit ==
  /\ dir \in [Names -> Inodes \cup {NoInode}]
  /\ \A n \in Names : dir[n] = NoInode <=> n \in {tempFile, bakFile}
  /\ data = [i \in Inodes |->
               IF \E n \in Names : dir[n] = i
               THEN Before(CHOOSE n \in Names : dir[n] = i) ELSE Empty]
  /\ Init

MCSpec == MCInit /\ [][Next]_vars
MCFairSpec == MCSpec /\ Fairness

Symmetry == Permutations(Inodes) \cup Permutations(Handles)

\* The bytes of an inode nobody can reach do not matter.
Reachable ==
  <<dir, [i \in Inodes |-> IF Unused(i) THEN <<Empty, "source">> ELSE <<data[i], origin[i]>>], hd>>

\* Values of the constants of TransFile.
None == {}
MCChunks == {<<"a">>, <<"E">>, <<"1">>}
MCEscapeChunks == {<<"E">>, <<"1">>}
MCEscapeOnly == {<<"E">>}
MCRawTexts == {<<"1">>}
MCEdits == {<<goFile, <<"a">>>>}
MCRenames == {<<goFile, tempFile>>, <<tempFile, goFile>>}
MCBackupRename == {<<goFile, tempFile>>}
MCLinks == {<<tempFile, bakFile>>}
MCCuts == {<<goFile, 0>>}
MCOneMount == [h \in Handles |-> CHOOSE m \in Mounts : TRUE]
=============================================================================
