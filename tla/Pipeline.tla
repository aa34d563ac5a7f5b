------------------------------ MODULE Pipeline ------------------------------
(***************************************************************************)
(* The middleware pipeline: internal/transform/pipeline.go run over the    *)
(* built-in middlewares of internal/middleware.  Serve turns the raw bytes *)
(* of a source file into the view of the mount, Commit turns a view back.  *)
(* A file name is a member of a small set; what the middlewares ask of its *)
(* base name is which of the sets below it belongs to.                     *)
(***************************************************************************)
EXTENDS ByteSeq, SequencesExt

CONSTANTS
  Configs,       \* the middlewares of settings.json: records [name, enabled]
  EnvNames,      \* names whose base is ".env"
  EnvDotNames,   \* names whose base starts with ".env."
  Missing,       \* what stands for the content of a file that is not there
  Encode(_),     \* codec.Encode
  Decode(_)      \* codec.Decode: a record [err, content]

\* The registry (defaults.go) knows these names only.
BuiltIns == {"deny_env_dotfiles", "redirect_env_to_agent", "codec", "deny_binary"}

(***************************************************************************)
(* NewPipeline: the enabled middlewares in order.  An unknown name is an   *)
(* error, and the tree is not mounted.                                     *)
(***************************************************************************)
Modules ==
  LET upTo[k \in 0..Len(Configs)] ==
        IF k = 0 THEN << >>
        ELSE IF Configs[k].enabled THEN Append(upTo[k - 1], Configs[k].name)
        ELSE upTo[k - 1]
  IN upTo[Len(Configs)]

Mountable == \A k \in 1..Len(Configs) : Configs[k].enabled => Configs[k].name \in BuiltIns

Allow(content)  == [err |-> "ok", content |-> content]
Reject == [err |-> "rejected", content |-> Empty]     \* Allowed = false

HasNul(content) == \E i \in DOMAIN content : content[i] = Zero

DenyEnvDotfiles(stage, name, content) ==
  IF stage = "serve" /\ name \in EnvDotNames THEN Reject ELSE Allow(content)

\* agent is the content of the .env.agent beside the file, read at this moment.
RedirectEnvToAgent(stage, name, content, agent) ==
  IF stage # "serve" \/ name \notin EnvNames THEN Allow(content)
  ELSE IF agent = Missing THEN Reject ELSE Allow(agent)

CodecHandle(stage, content) ==
  IF stage = "serve" THEN Allow(Encode(content)) ELSE Decode(content)

\* The same test on both stages: views as well as raw bytes.
DenyBinary(content) == IF HasNul(content) THEN Reject ELSE Allow(content)

Handle(m, stage, name, content, agent) ==
  CASE m = "deny_env_dotfiles"     -> DenyEnvDotfiles(stage, name, content)
    [] m = "redirect_env_to_agent" -> RedirectEnvToAgent(stage, name, content, agent)
    [] m = "codec"                 -> CodecHandle(stage, content)
    [] m = "deny_binary"           -> DenyBinary(content)

(***************************************************************************)
(* The loop of Pipeline.run: the first middleware that rejects or fails    *)
(* ends it, otherwise each one gets the content the one before returned.   *)
(***************************************************************************)
Run(order, stage, name, content, agent) ==
  LET after[k \in 0..Len(order)] ==
        IF k = 0 THEN Allow(content)
        ELSE LET r == after[k - 1]
             IN IF r.err # "ok" THEN r ELSE Handle(order[k], stage, name, r.content, agent)
  IN after[Len(order)]

Serve(name, raw, agent) == Run(Modules, "serve", name, raw, agent)

\* Commit never looks at the agent file: redirect_env_to_agent is serve-only.
Commit(name, view) == Run(Reverse(Modules), "commit", name, view, Missing)
=============================================================================
