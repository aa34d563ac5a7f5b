--------------------------- MODULE PipelineProofs ---------------------------
(***************************************************************************)
(* What the pipeline does to a file, for every list of middlewares: Commit *)
(* undoes Serve when the codec's Decode undoes its Encode, and a name that *)
(* deny_env_dotfiles denies is never served.                               *)
(***************************************************************************)
EXTENDS Pipeline, SequenceTheorems, TLAPS

\* The lemmas on induction.
Cdc == INSTANCE CodecFunctionProofs

-----------------------------------------------------------------------------
(* The two loops as functions. *)

ModulesRec(f) ==
  f = [k \in 0..Len(Configs) |->
        IF k = 0 THEN << >>
        ELSE IF Configs[k].enabled THEN Append(f[k - 1], Configs[k].name)
        ELSE f[k - 1]]

ModulesUpTo == CHOOSE f : ModulesRec(f)

LEMMA ModulesIsUpTo == Modules = ModulesUpTo[Len(Configs)]
  BY DEF Modules, ModulesUpTo, ModulesRec

OneMore(order, k, stage, name, r, agent) ==
  IF r.err # "ok" THEN r ELSE Handle(order[k], stage, name, r.content, agent)

RunRec(f, order, stage, name, content, agent) ==
  f = [k \in 0..Len(order) |->
        IF k = 0 THEN Allow(content) ELSE OneMore(order, k, stage, name, f[k - 1], agent)]

RunUpTo(order, stage, name, content, agent) ==
  CHOOSE f : RunRec(f, order, stage, name, content, agent)

LEMMA RunIsUpTo ==
  ASSUME NEW order, NEW stage, NEW name, NEW content, NEW agent
  PROVE Run(order, stage, name, content, agent)
          = RunUpTo(order, stage, name, content, agent)[Len(order)]
  BY DEF Run, RunUpTo, RunRec, OneMore

(***************************************************************************)
(* Both loops end.  A recursion from 0 to N has a solution up to each k.   *)
(***************************************************************************)
LEMMA RunUnfolds ==
  ASSUME NEW order, Len(order) \in Nat, NEW stage, NEW name, NEW content, NEW agent
  PROVE  /\ RunUpTo(order, stage, name, content, agent)[0] = Allow(content)
         /\ \A k \in 1..Len(order) :
              RunUpTo(order, stage, name, content, agent)[k] =
                OneMore(order, k, stage, name,
                        RunUpTo(order, stage, name, content, agent)[k - 1], agent)
<1> DEFINE N == Len(order)
           Next(k, r) == OneMore(order, k, stage, name, r, agent)
           Solves(f, n) == f = [k \in 0..n |-> IF k = 0 THEN Allow(content) ELSE Next(k, f[k - 1])]
           T == {n \in 0..N : \E f : Solves(f, n)}
           f0 == RunUpTo(order, stage, name, content, agent)
<1> HIDE DEF Next
<1>1. 0 \in T
  <2> DEFINE f == [k \in 0..0 |-> Allow(content)]
  <2>1. Solves(f, 0)
    OBVIOUS
  <2> HIDE DEF f, Solves
  <2>2. 0 \in 0..N /\ \E g : Solves(g, 0)
    BY <2>1
  <2> QED
    BY <2>2
<1>2. ASSUME NEW n \in 0..N, n \in T, n < N PROVE n + 1 \in T
  <2>1. PICK f : Solves(f, n)
    BY <1>2
  <2> DEFINE g == [k \in 0..(n + 1) |-> IF k <= n THEN f[k] ELSE Next(n + 1, f[n])]
  <2>2. ASSUME NEW k \in 0..(n + 1) PROVE g[k] = IF k = 0 THEN Allow(content) ELSE Next(k, g[k - 1])
    <3>1. CASE k = 0
      BY <2>1, <3>1
    <3>2. CASE k # 0 /\ k <= n
      <4>1. k - 1 \in 0..(n + 1) /\ k - 1 <= n /\ k \in 0..n
        BY <3>2
      <4>2. g[k - 1] = f[k - 1] /\ g[k] = f[k]
        BY <3>2, <4>1
      <4>3. f[k] = Next(k, f[k - 1])
        BY <2>1, <3>2, <4>1
      <4> QED
        BY <3>2, <4>2, <4>3
    <3>3. CASE k = n + 1
      <4>1. g[k] = Next(n + 1, f[n]) /\ g[n] = f[n] /\ k - 1 = n /\ k # 0
        BY <3>3
      <4> QED
        BY <3>3, <4>1
    <3> QED
      BY <3>1, <3>2, <3>3
  <2>3. Solves(g, n + 1)
    <3>1. g = [k \in 0..(n + 1) |-> g[k]]
      OBVIOUS
    <3> HIDE DEF g
    <3> QED
      BY <2>2, <3>1
  <2> HIDE DEF g, Solves
  <2>4. n + 1 \in 0..N /\ \E h : Solves(h, n + 1)
    BY <1>2, <2>3
  <2> QED
    BY <2>4
<1>3. N \in T
  <2> HIDE DEF T
  <2>1. \A k \in 0..N : k \in T
    BY <1>1, <1>2, Cdc!Forwards
  <2> QED
    BY <2>1
<1>4. \E f : RunRec(f, order, stage, name, content, agent)
  BY <1>3 DEF RunRec, Next
<1>5. RunRec(f0, order, stage, name, content, agent)
  BY <1>4 DEF RunUpTo
<1>6. Solves(f0, N)
  <2> HIDE DEF f0
  <2> QED
    BY <1>5 DEF RunRec, Next
<1> HIDE DEF f0
<1>7. f0[0] = Allow(content)
  BY <1>6
<1>8. ASSUME NEW k \in 1..N PROVE f0[k] = Next(k, f0[k - 1])
  BY <1>6
<1> QED
  BY <1>7, <1>8 DEF f0, Next

Uses(n, m) == \E k \in 1..n : Configs[k].enabled /\ Configs[k].name = m

\* The settings list records with a name and a switch.
ConfigType == Configs \in Seq([name : STRING, enabled : BOOLEAN])

LEMMA ModulesUnfolds ==
  ASSUME Len(Configs) \in Nat
  PROVE  /\ ModulesUpTo[0] = << >>
         /\ \A k \in 1..Len(Configs) :
              ModulesUpTo[k] = IF Configs[k].enabled THEN Append(ModulesUpTo[k - 1], Configs[k].name)
                               ELSE ModulesUpTo[k - 1]
<1> DEFINE N == Len(Configs)
           Next(k, r) == IF Configs[k].enabled THEN Append(r, Configs[k].name) ELSE r
           Solves(f, n) == f = [k \in 0..n |-> IF k = 0 THEN << >> ELSE Next(k, f[k - 1])]
           T == {n \in 0..N : \E f : Solves(f, n)}
           f0 == ModulesUpTo
<1>r. \A f : ModulesRec(f) <=> Solves(f, N)
  BY DEF ModulesRec
<1> HIDE DEF Next
<1>1. 0 \in T
  <2> DEFINE f == [k \in 0..0 |-> << >>]
  <2>1. Solves(f, 0)
    OBVIOUS
  <2> HIDE DEF f, Solves
  <2>2. 0 \in 0..N /\ \E g : Solves(g, 0)
    BY <2>1
  <2> QED
    BY <2>2
<1>2. ASSUME NEW n \in 0..N, n \in T, n < N PROVE n + 1 \in T
  <2>1. PICK f : Solves(f, n)
    BY <1>2
  <2> DEFINE g == [k \in 0..(n + 1) |-> IF k <= n THEN f[k] ELSE Next(n + 1, f[n])]
  <2>2. ASSUME NEW k \in 0..(n + 1) PROVE g[k] = IF k = 0 THEN << >> ELSE Next(k, g[k - 1])
    <3>1. CASE k = 0
      BY <2>1, <3>1
    <3>2. CASE k # 0 /\ k <= n
      <4>1. k - 1 \in 0..(n + 1) /\ k - 1 <= n /\ k \in 0..n
        BY <3>2
      <4>2. g[k - 1] = f[k - 1] /\ g[k] = f[k]
        BY <3>2, <4>1
      <4>3. f[k] = Next(k, f[k - 1])
        BY <2>1, <3>2, <4>1
      <4> QED
        BY <3>2, <4>2, <4>3
    <3>3. CASE k = n + 1
      <4>1. g[k] = Next(n + 1, f[n]) /\ g[n] = f[n] /\ k - 1 = n /\ k # 0
        BY <3>3
      <4> QED
        BY <3>3, <4>1
    <3> QED
      BY <3>1, <3>2, <3>3
  <2>3. Solves(g, n + 1)
    <3>1. g = [k \in 0..(n + 1) |-> g[k]]
      OBVIOUS
    <3> HIDE DEF g
    <3> QED
      BY <2>2, <3>1
  <2> HIDE DEF g, Solves
  <2>4. n + 1 \in 0..N /\ \E h : Solves(h, n + 1)
    BY <1>2, <2>3
  <2> QED
    BY <2>4
<1>3. N \in T
  <2> HIDE DEF T
  <2>1. \A k \in 0..N : k \in T
    BY <1>1, <1>2, Cdc!Forwards
  <2> QED
    BY <2>1
<1>4. \E f : ModulesRec(f)
  BY <1>3, <1>r
<1>5. Solves(f0, N)
  <2>1. ModulesRec(f0)
    BY <1>4 DEF ModulesUpTo
  <2> HIDE DEF f0, Solves
  <2> QED
    BY <1>r, <2>1
<1> HIDE DEF f0
<1>6. f0[0] = << >>
  BY <1>5
<1>7. ASSUME NEW k \in 1..N PROVE f0[k] = Next(k, f0[k - 1])
  BY <1>5
<1> QED
  BY <1>6, <1>7 DEF f0, Next

(***************************************************************************)
(* NewPipeline creates the enabled middlewares and no other.               *)
(***************************************************************************)
LEMMA ModulesAreUsed ==
  ASSUME ConfigType, Mountable
  PROVE  /\ Modules \in Seq(BuiltIns)
         /\ \A m : Uses(Len(Configs), m) <=> \E k \in 1..Len(Modules) : Modules[k] = m
<1> DEFINE N == Len(Configs)
           Right(n) == /\ ModulesUpTo[n] \in Seq(BuiltIns)
                       /\ \A m : Uses(n, m) <=> \E k \in 1..Len(ModulesUpTo[n]) : ModulesUpTo[n][k] = m
           T == {n \in 0..N : Right(n)}
<1>1. N \in Nat
  BY LenProperties DEF ConfigType
<1>2. 0 \in T
  <2>1. ModulesUpTo[0] = << >> /\ << >> \in Seq(BuiltIns) /\ Len(<< >>) = 0
    BY <1>1, ModulesUnfolds
  <2>2. \A m : ~Uses(0, m)
    BY DEF Uses
  <2>3. \A m : ~ \E k \in 1..0 : ModulesUpTo[0][k] = m
    OBVIOUS
  <2>4. Right(0)
    BY <2>1, <2>2, <2>3
  <2> HIDE DEF Right
  <2> QED
    BY <1>1, <2>4
<1>3. ASSUME NEW n \in 0..N, n \in T, n < N PROVE n + 1 \in T
  <2> DEFINE r == ModulesUpTo[n]
             c == Configs[n + 1]
  <2>1. n + 1 \in 1..N /\ n + 1 - 1 = n
    BY <1>1, <1>3
  <2>2. ModulesUpTo[n + 1] = IF c.enabled THEN Append(r, c.name) ELSE r
    BY <1>1, <2>1, ModulesUnfolds
  <2>3. r \in Seq(BuiltIns) /\ Len(r) \in Nat
        /\ \A m : Uses(n, m) <=> \E k \in 1..Len(r) : r[k] = m
    BY <1>3, LenProperties
  <2> HIDE DEF r
  <2>4. c.enabled => c.name \in BuiltIns
    BY <2>1 DEF Mountable
  <2>5. \A m : Uses(n + 1, m) <=> Uses(n, m) \/ (c.enabled /\ c.name = m)
    <3>1. 1..(n + 1) = 1..n \cup {n + 1}
      OBVIOUS
    <3> QED
      BY <3>1 DEF Uses
  <2>6. Right(n + 1)
    <3>1. CASE ~c.enabled
      BY <2>2, <2>3, <2>5, <3>1
    <3>2. CASE c.enabled
      <4> DEFINE q == Append(r, c.name)
      <4>1. /\ q \in Seq(BuiltIns) /\ Len(q) = Len(r) + 1
            /\ \A k \in 1..Len(r) : q[k] = r[k]
            /\ q[Len(r) + 1] = c.name
        BY <2>3, <2>4, <3>2, AppendProperties
      <4>2. ModulesUpTo[n + 1] = q
        BY <2>2, <3>2
      <4> HIDE DEF q
      <4>3. \A m : (\E k \in 1..Len(q) : q[k] = m) <=> (\E k \in 1..Len(r) : r[k] = m) \/ c.name = m
        <5>1. 1..Len(q) = 1..Len(r) \cup {Len(r) + 1}
          BY <2>3, <4>1
        <5> QED
          BY <4>1, <5>1
      <4>4. \A m : Uses(n + 1, m) <=> \E k \in 1..Len(q) : q[k] = m
        BY <2>3, <2>5, <3>2, <4>3
      <4> QED
        BY <4>1, <4>2, <4>4
    <3> QED
      BY <3>1, <3>2
  <2> HIDE DEF Right
  <2> QED
    BY <2>1, <2>6
<1>4. N \in T
  <2> HIDE DEF T
  <2>1. \A k \in 0..N : k \in T
    BY <1>1, <1>2, <1>3, Cdc!Forwards
  <2> QED
    BY <1>1, <2>1
<1> QED
  BY <1>4, ModulesIsUpTo

-----------------------------------------------------------------------------
(* Serve and Commit. *)

\* An answer that is not "ok" is the answer of the pipeline.
LEMMA ErrorStays ==
  ASSUME NEW order, Len(order) \in Nat, NEW stage, NEW name, NEW content, NEW agent,
         NEW k \in 0..Len(order), RunUpTo(order, stage, name, content, agent)[k].err # "ok"
  PROVE  Run(order, stage, name, content, agent).err # "ok"
<1> DEFINE N == Len(order)
           f == RunUpTo(order, stage, name, content, agent)
           T == {j \in 0..N : k <= j => f[j].err # "ok"}
<1>1. \A j \in 1..N : f[j] = OneMore(order, j, stage, name, f[j - 1], agent)
  BY RunUnfolds
<1>k. f[k].err # "ok"
  OBVIOUS
<1>2. Run(order, stage, name, content, agent) = f[N]
  BY RunIsUpTo
<1> HIDE DEF f
<1>3. 0 \in T
  BY <1>k
<1>4. ASSUME NEW j \in 0..N, j \in T, j < N PROVE j + 1 \in T
  <2>1. CASE k <= j
    <3>1. f[j].err # "ok"
      BY <1>4, <2>1
    <3>2. f[j + 1] = OneMore(order, j + 1, stage, name, f[j + 1 - 1], agent)
      BY <1>1, <1>4
    <3>3. j + 1 - 1 = j
      OBVIOUS
    <3>4. f[j + 1] = f[j]
      BY <3>1, <3>2, <3>3 DEF OneMore
    <3> QED
      BY <1>4, <3>1, <3>4
  <2>2. CASE ~(k <= j)
    <3>1. k <= j + 1 => k = j + 1
      BY <2>2
    <3> QED
      BY <1>4, <1>k, <3>1
  <2> QED
    BY <2>1, <2>2
<1>5. N \in T
  <2> HIDE DEF T
  <2>1. \A j \in 0..N : j \in T
    BY <1>3, <1>4, Cdc!Forwards
  <2> QED
    BY <2>1
<1> QED
  BY <1>2, <1>5

(***************************************************************************)
(* deny_env_dotfiles "blocks .env.* path content" (docs/DEEP_DIVE.md), in  *)
(* whatever place of the list it is: the pipeline does not serve a name    *)
(* that begins with ".env." (denyenvdotfiles.go:20-33, pipeline.go:80-98). *)
(***************************************************************************)
THEOREM DeniedIsNotServed ==
  ASSUME ConfigType, Mountable, Uses(Len(Configs), "deny_env_dotfiles"),
         NEW name \in EnvDotNames, NEW raw, NEW agent
  PROVE  Serve(name, raw, agent).err # "ok"
<1> DEFINE f == RunUpTo(Modules, "serve", name, raw, agent)
<1>1. Modules \in Seq(BuiltIns) /\ Len(Modules) \in Nat
  BY ModulesAreUsed, LenProperties
<1>2. PICK k \in 1..Len(Modules) : Modules[k] = "deny_env_dotfiles"
  BY ModulesAreUsed
<1>3. f[k] = OneMore(Modules, k, "serve", name, f[k - 1], agent)
  BY <1>1, RunUnfolds
<1> HIDE DEF f
<1>4. f[k].err # "ok"
  <2>1. CASE f[k - 1].err # "ok"
    BY <1>3, <2>1 DEF OneMore
  <2>2. CASE f[k - 1].err = "ok"
    <3>1. f[k] = Handle("deny_env_dotfiles", "serve", name, f[k - 1].content, agent)
      BY <1>2, <1>3, <2>2 DEF OneMore
    <3>2. f[k] = Reject
      BY <3>1 DEF Handle, DenyEnvDotfiles
    <3> QED
      BY <3>2 DEF Reject
  <2> QED
    BY <2>1, <2>2
<1>5. k \in 0..Len(Modules)
  OBVIOUS
<1> QED
  BY <1>1, <1>4, <1>5, ErrorStays DEF Serve, f

\* What the pipeline asks of a codec, on a set of texts.
DecodeUndoes(V) == \A v \in V : Encode(v) \in V /\ Decode(Encode(v)) = Allow(v)

\* m serves the file that is asked for.
KeepsName(m, name) == m = "redirect_env_to_agent" => name \notin EnvNames

\* Serve made r of the text x, and commit makes x of what r holds.
Undone(V, m, name, x, r) ==
  /\ r.content \in V /\ r = Allow(r.content)
  /\ Handle(m, "commit", name, r.content, Missing) = Allow(x)

(***************************************************************************)
(* One middleware undone on the way back.                                  *)
(***************************************************************************)
LEMMA HandleUndone ==
  ASSUME NEW V, DecodeUndoes(V),
         NEW m \in BuiltIns, NEW name, NEW x \in V, NEW agent,
         KeepsName(m, name), Handle(m, "serve", name, x, agent).err = "ok"
  PROVE  Undone(V, m, name, x, Handle(m, "serve", name, x, agent))
<1> DEFINE r == Handle(m, "serve", name, x, agent)
           Back(y) == Handle(m, "commit", name, y, Missing) = Allow(x)
<1>1. r # Reject
  BY DEF Reject
<1>2. \A y : Allow(y).content = y
  BY DEF Allow
<1>3. SUFFICES \E y \in V : r = Allow(y) /\ Back(y)
  <2> HIDE DEF r
  <2>1. ASSUME NEW y \in V, r = Allow(y), Back(y)
        PROVE r.content \in V /\ r = Allow(r.content) /\ Back(r.content)
    <3>1. r.content = y
      BY <1>2, <2>1
    <3> HIDE DEF Back
    <3> QED
      BY <2>1, <3>1
  <2> QED
    BY <1>3, <2>1 DEF r, Undone
<1>4. CASE m = "deny_env_dotfiles"
  <2>1. r = DenyEnvDotfiles("serve", name, x) /\ \A y : Back(y) <=> DenyEnvDotfiles("commit", name, y) = Allow(x)
    BY <1>4 DEF Handle
  <2>2. r = Allow(x) /\ Back(x)
    BY <1>1, <2>1 DEF DenyEnvDotfiles
  <2> QED
    BY <2>2
<1>5. CASE m = "redirect_env_to_agent"
  <2>1. r = RedirectEnvToAgent("serve", name, x, agent)
        /\ \A y : Back(y) <=> RedirectEnvToAgent("commit", name, y, Missing) = Allow(x)
    BY <1>5 DEF Handle
  <2>2. r = Allow(x) /\ Back(x)
    BY <1>5, <2>1 DEF RedirectEnvToAgent, KeepsName
  <2> QED
    BY <2>2
<1>6. CASE m = "codec"
  <2>1. r = CodecHandle("serve", x) /\ \A y : Back(y) <=> CodecHandle("commit", y) = Allow(x)
    BY <1>6 DEF Handle
  <2>2. Encode(x) \in V /\ r = Allow(Encode(x)) /\ Back(Encode(x))
    BY <2>1 DEF CodecHandle, DecodeUndoes
  <2> QED
    BY <2>2
<1>7. CASE m = "deny_binary"
  <2>1. r = DenyBinary(x) /\ \A y : Back(y) <=> DenyBinary(y) = Allow(x)
    BY <1>7 DEF Handle
  <2>2. r = Allow(x) /\ Back(x)
    BY <1>1, <2>1 DEF DenyBinary
  <2> QED
    BY <2>2
<1> QED
  BY <1>4, <1>5, <1>6, <1>7 DEF BuiltIns

(***************************************************************************)
(* "writes return through the inverse path" (README.md:14): when decoding  *)
(* undoes encoding, whatever Serve makes of a file, Commit turns back into *)
(* that file, for every list of middlewares in every order.  The one       *)
(* exception is redirect_env_to_agent, which serves another file's bytes   *)
(* under the name .env (pipeline.go:72-98).                                *)
(***************************************************************************)
THEOREM CommitUndoesServe ==
  ASSUME ConfigType, Mountable,
         NEW V, DecodeUndoes(V),
         NEW name, Uses(Len(Configs), "redirect_env_to_agent") => name \notin EnvNames,
         NEW raw \in V, NEW agent, Serve(name, raw, agent).err = "ok"
  PROVE  Commit(name, Serve(name, raw, agent).content) = Allow(raw)
<1> DEFINE N == Len(Modules)
           back == Reverse(Modules)
           f == RunUpTo(Modules, "serve", name, raw, agent)
           view == Serve(name, raw, agent).content
           g == RunUpTo(back, "commit", name, view, Missing)
           Served(k) == f[k].err = "ok" /\ f[k] = Allow(f[k].content) /\ f[k].content \in V
           T == {k \in 0..N : Served(k)}
           U == {k \in 0..N : g[k] = f[N - k]}
<1>1. Modules \in Seq(BuiltIns) /\ N \in Nat
  BY ModulesAreUsed, LenProperties
<1>2. \A k \in 1..N : /\ Modules[k] \in BuiltIns
                      /\ Modules[k] = "redirect_env_to_agent" => name \notin EnvNames
  BY <1>1, ModulesAreUsed, ElementOfSeq
<1>3. Len(back) = N /\ \A k \in 1..N : back[k] = Modules[N - k + 1]
  <2>1. back = [k \in 1..N |-> Modules[N - k + 1]]
    BY DEF Reverse
  <2> HIDE DEF back
  <2> QED
    BY <1>1, <2>1
<1>4. f[0] = Allow(raw) /\ \A k \in 1..N : f[k] = OneMore(Modules, k, "serve", name, f[k - 1], agent)
  BY <1>1, RunUnfolds
<1>5. Serve(name, raw, agent) = f[N]
  BY RunIsUpTo DEF Serve
<1>6. \A k \in 0..N : f[k].err = "ok"
  BY <1>1, ErrorStays DEF Serve
<1> HIDE DEF f, back
<1>7. g[0] = Allow(view) /\ \A k \in 1..N : g[k] = OneMore(back, k, "commit", name, g[k - 1], Missing)
  BY <1>1, <1>3, RunUnfolds
<1>8. Commit(name, view) = g[N]
  BY <1>3, RunIsUpTo DEF Commit, back
<1> HIDE DEF g
<1>9. ASSUME NEW k \in 1..N, Served(k - 1)
      PROVE /\ f[k] = Handle(Modules[k], "serve", name, f[k - 1].content, agent)
            /\ Served(k)
            /\ Handle(Modules[k], "commit", name, f[k].content, Missing) = f[k - 1]
  <2>1. f[k] = Handle(Modules[k], "serve", name, f[k - 1].content, agent)
    BY <1>4, <1>9 DEF OneMore
  <2>2. f[k].err = "ok"
    BY <1>6
  <2>3. f[k - 1].content \in V
    BY <1>9
  <2>4. /\ f[k].content \in V /\ f[k] = Allow(f[k].content)
        /\ Handle(Modules[k], "commit", name, f[k].content, Missing) = Allow(f[k - 1].content)
    <3> DEFINE m == Modules[k]
               x == f[k - 1].content
    <3>1. m \in BuiltIns /\ KeepsName(m, name) /\ x \in V
      BY <1>2, <2>3 DEF KeepsName
    <3>2. f[k] = Handle(m, "serve", name, x, agent)
      BY <2>1
    <3> HIDE DEF m, x
    <3>3. Handle(m, "serve", name, x, agent).err = "ok"
      BY <2>2, <3>2
    <3>4. Undone(V, m, name, x, f[k])
      BY <3>1, <3>2, <3>3, HandleUndone
    <3> QED
      BY <3>4 DEF m, x, Undone
  <2> QED
    BY <1>9, <2>1, <2>2, <2>4
<1>10. \A k \in 0..N : Served(k)
  <2>1. 0 \in T
    BY <1>1, <1>4 DEF Allow
  <2>2. ASSUME NEW k \in 0..N, k \in T, k < N PROVE k + 1 \in T
    <3>1. k + 1 \in 1..N /\ k + 1 - 1 = k /\ k + 1 \in 0..N
      BY <1>1, <2>2
    <3>2. Served(k)
      BY <2>2
    <3> HIDE DEF Served
    <3>3. Served(k + 1)
      BY <1>9, <3>1, <3>2
    <3> QED
      BY <3>1, <3>3
  <2> HIDE DEF T
  <2>3. \A k \in 0..N : k \in T
    BY <1>1, <2>1, <2>2, Cdc!Forwards
  <2> QED
    BY <2>3 DEF T
<1>11. \A k \in 0..N : k \in U
  <2>1. 0 \in U
    <3>1. f[N] = Allow(f[N].content)
      BY <1>1, <1>10
    <3>2. view = f[N].content
      BY <1>5
    <3> HIDE DEF view
    <3> QED
      BY <1>1, <1>7, <3>1, <3>2
  <2>2. ASSUME NEW k \in 0..N, k \in U, k < N PROVE k + 1 \in U
    <3> DEFINE p == N - k
    <3>1. p \in 1..N /\ k + 1 \in 1..N /\ k + 1 - 1 = k /\ N - (k + 1) + 1 = p /\ N - (k + 1) = p - 1
          /\ p \in 0..N /\ p - 1 \in 0..N
      BY <1>1, <2>2
    <3>2. g[k] = f[p] /\ back[k + 1] = Modules[p]
      BY <1>3, <2>2, <3>1
    <3>3. g[k + 1] = OneMore(back, k + 1, "commit", name, g[k], Missing)
      <4>1. g[k + 1] = OneMore(back, k + 1, "commit", name, g[k + 1 - 1], Missing)
        BY <1>7, <3>1
      <4> QED
        BY <3>1, <4>1
    <3>4. Served(p - 1) /\ f[p].err = "ok"
      BY <1>10, <3>1
    <3> HIDE DEF p, Served
    <3>5. g[k + 1] = Handle(Modules[p], "commit", name, f[p].content, Missing)
      BY <3>2, <3>3, <3>4 DEF OneMore
    <3>6. Handle(Modules[p], "commit", name, f[p].content, Missing) = f[p - 1]
      BY <1>9, <3>1, <3>4
    <3>7. g[k + 1] = f[N - (k + 1)]
      BY <3>1, <3>5, <3>6
    <3> QED
      BY <3>1, <3>7
  <2> HIDE DEF U
  <2> QED
    BY <1>1, <2>1, <2>2, Cdc!Forwards
<1>12. g[N] = f[0]
  <2>1. N \in 0..N /\ N - N = 0
    BY <1>1
  <2> HIDE DEF N
  <2> QED
    BY <1>11, <2>1
<1> QED
  BY <1>4, <1>8, <1>12
=============================================================================
