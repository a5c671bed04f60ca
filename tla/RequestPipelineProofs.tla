------------------------ MODULE RequestPipelineProofs ------------------------
(***************************************************************************)
(* Theorems about RequestPipeline, for every list of hooks in every stage. *)
(***************************************************************************)
EXTENDS RequestPipeline, SequenceTheorems, TLAPS

(* The order in which the kinds of steps follow each other on every way.   *)
Kinds == {"guard", "validate", "handler", "error", "post", "observe", "apply"}
Rank(kind) ==
  IF kind \in {"guard", "validate"} THEN 1
  ELSE IF kind = "handler" THEN 2
  ELSE IF kind = "error" THEN 3
  ELSE IF kind = "post" THEN 4
  ELSE IF kind = "observe" THEN 5 ELSE 6

AllGuards == HooksOf({"request", "beforeHandle", "routeBefore"})
HooksFor(kind) ==
  IF kind = "guard" THEN AllGuards
  ELSE IF kind = "post" THEN PostHooks
  ELSE IF kind = "observe" THEN Observers
  ELSE IF kind = "error" THEN HooksOf({"error"}) ELSE {}

Steps == [kind : Kinds, chains : Seq(Seq(HookNames))]

(* A hook in a chain and in a step, and that none is there twice.          *)
In(chain, h) == \E i \in 1 .. Len(chain) : chain[i] = h
Has(step, h) == \E c \in 1 .. Len(step.chains) : In(step.chains[c], h)
Unrepeated(chain) == \A i, j \in 1 .. Len(chain) : chain[i] = chain[j] => i = j
Distinct(step) ==
  /\ \A c \in 1 .. Len(step.chains) : Unrepeated(step.chains[c])
  /\ \A c, d \in 1 .. Len(step.chains) : \A h \in HookNames :
       In(step.chains[c], h) /\ In(step.chains[d], h) => c = d
Fits(step) == \A h \in HookNames : Has(step, h) => h \in HooksFor(step.kind)

(* The steps of t have ranks from lo to hi in this order and hold hooks of *)
(* their kind, no response hook twice.                                     *)
Ranked(t, lo, hi) ==
  /\ \A s \in 1 .. Len(t) : lo <= Rank(t[s].kind) /\ Rank(t[s].kind) <= hi
  /\ \A a, b \in 1 .. Len(t) : a <= b => Rank(t[a].kind) <= Rank(t[b].kind)
Holds(t) == \A s \in 1 .. Len(t) : Fits(t[s]) /\ Distinct(t[s])
Once(t) ==
  \A s, r \in 1 .. Len(t) : \A h \in HookNames :
    t[s].kind = "post" /\ t[r].kind = "post" /\ Has(t[s], h) /\ Has(t[r], h) => s = r
OnePost(t) ==
  \A s, r \in 1 .. Len(t) : t[s].kind = "post" /\ t[r].kind = "post" => s = r
Elems(t) == {t[s] : s \in 1 .. Len(t)}
Proper(t, lo, hi) == t \in Seq(Steps) /\ Ranked(t, lo, hi) /\ Holds(t) /\ Once(t)

-----------------------------------------------------------------------------
(* The hooks of one stage.                                                 *)
LEMMA StageFacts ==
  ASSUME NEW x \in DOMAIN Stages
  PROVE  /\ Stages[x] \in Seq(HookNames)
         /\ \A i \in 1 .. Len(Stages[x]) : Stages[x][i] \in HooksOf({x})
         /\ \A i, j \in 1 .. Len(Stages[x]) : Stages[x][i] = Stages[x][j] => i = j
<1>1. Stages[x] \in Seq(HookNames)
  BY PipelineAssumption DEF PipelineAssumption
<1>2. DOMAIN Stages[x] = 1 .. Len(Stages[x])
  BY <1>1, LenProperties
<1>3. \A i \in 1 .. Len(Stages[x]) : Stages[x][i] \in HooksOf({x})
  BY <1>2 DEF HooksOf
<1>4. \A i, j \in DOMAIN Stages[x] : Stages[x][i] = Stages[x][j] => i = j
  BY PipelineAssumption DEF PipelineAssumption
<1> QED
  BY <1>1, <1>2, <1>3, <1>4

(* Different stages share no hook.                                         *)
LEMMA StagesDisjoint ==
  ASSUME NEW A \in SUBSET DOMAIN Stages, NEW B \in SUBSET DOMAIN Stages, A \cap B = {}
  PROVE  HooksOf(A) \cap HooksOf(B) = {}
  BY PipelineAssumption DEF PipelineAssumption, HooksOf

(* Two different stages share no hook.                                     *)
LEMMA TwoDisjoint ==
  ASSUME NEW x \in DOMAIN Stages, NEW y \in DOMAIN Stages, x # y
  PROVE  HooksOf({x}) \cap HooksOf({y}) = {}
<1>1. {x} \in SUBSET DOMAIN Stages /\ {y} \in SUBSET DOMAIN Stages /\ {x} \cap {y} = {}
  OBVIOUS
<1> QED
  BY <1>1, StagesDisjoint

(* The stages apart, and the parts of HookNames.                           *)
LEMMA NamesApart ==
  /\ AllGuards \cap PostHooks = {} /\ AllGuards \cap Observers = {}
  /\ AllGuards \cap HooksOf({"error"}) = {} /\ PostHooks \cap Observers = {}
  /\ PostHooks \cap HooksOf({"error"}) = {} /\ Observers \cap HooksOf({"error"}) = {}
  /\ AllGuards \subseteq HookNames /\ PostHooks \subseteq HookNames
  /\ Observers \subseteq HookNames /\ HooksOf({"error"}) \subseteq HookNames
<1> DEFINE G == {"request", "beforeHandle", "routeBefore"}
           P == {"routeAfter", "afterHandle", "mapResponse"}
           O == {"afterResponse", "trace"}
           E == {"error"}
<1>1. /\ G \in SUBSET DOMAIN Stages /\ P \in SUBSET DOMAIN Stages
      /\ O \in SUBSET DOMAIN Stages /\ E \in SUBSET DOMAIN Stages
  BY PipelineAssumption DEF PipelineAssumption
<1>2. G \cap P = {} /\ G \cap O = {} /\ G \cap E = {} /\ P \cap O = {} /\ P \cap E = {} /\ O \cap E = {}
  OBVIOUS
<1>3. \A A \in SUBSET DOMAIN Stages : HooksOf(A) \subseteq HookNames
  BY DEF HooksOf, HookNames
<1> HIDE DEF G, P, O, E
<1>4. /\ HooksOf(G) \cap HooksOf(P) = {} /\ HooksOf(G) \cap HooksOf(O) = {}
      /\ HooksOf(G) \cap HooksOf(E) = {} /\ HooksOf(P) \cap HooksOf(O) = {}
      /\ HooksOf(P) \cap HooksOf(E) = {} /\ HooksOf(O) \cap HooksOf(E) = {}
  BY <1>1, <1>2, StagesDisjoint
<1> QED
  BY <1>1, <1>3, <1>4 DEF G, P, O, E, AllGuards, PostHooks, Observers

-----------------------------------------------------------------------------
(* A step after a step.                                                    *)
LEMMA Concatenated ==
  ASSUME NEW s, NEW t, NEW lo \in Nat, NEW m \in Nat, NEW n \in Nat, NEW hi \in Nat,
         Proper(s, lo, m), Proper(t, n, hi), lo <= m, m < n, n <= hi
  PROVE  /\ Proper(s \o t, lo, hi)
         /\ Elems(s \o t) = Elems(s) \cup Elems(t)
         /\ OnePost(s) /\ OnePost(t) => OnePost(s \o t)
<1> DEFINE u == s \o t
<1>1. /\ s \in Seq(Steps) /\ t \in Seq(Steps) /\ Len(s) \in Nat /\ Len(t) \in Nat
      /\ u \in Seq(Steps) /\ Len(u) = Len(s) + Len(t)
      /\ \A i \in 1 .. Len(u) : u[i] = IF i <= Len(s) THEN s[i] ELSE t[i - Len(s)]
  BY ConcatProperties, LenProperties DEF Proper
<1> HIDE DEF u
<1>2. \A i \in 1 .. Len(u) : \/ i \in 1 .. Len(s) /\ u[i] = s[i]
                             \/ \E k \in 1 .. Len(t) : u[i] = t[k] /\ i = Len(s) + k
  <2> TAKE i \in 1 .. Len(u)
  <2>1. CASE i <= Len(s)
    BY <2>1, <1>1
  <2>2. CASE ~(i <= Len(s))
    <3>1. i - Len(s) \in 1 .. Len(t) /\ u[i] = t[i - Len(s)] /\ i = Len(s) + (i - Len(s))
      BY <2>2, <1>1
    <3> QED
      BY <3>1
  <2> QED
    BY <2>1, <2>2
<1>0. \A kind : Rank(kind) \in Nat
  BY DEF Rank
<1>3. Ranked(u, lo, hi)
  <2>1. \A k \in 1 .. Len(s) : lo <= Rank(s[k].kind) /\ Rank(s[k].kind) <= m
    BY DEF Ranked, Proper
  <2>2. \A k \in 1 .. Len(t) : n <= Rank(t[k].kind) /\ Rank(t[k].kind) <= hi
    BY DEF Ranked, Proper
  <2>3. ASSUME NEW i \in 1 .. Len(u) PROVE lo <= Rank(u[i].kind) /\ Rank(u[i].kind) <= hi
    <3>1. CASE i \in 1 .. Len(s) /\ u[i] = s[i]
      BY <1>0, <2>1, <3>1
    <3>2. ASSUME NEW k \in 1 .. Len(t), u[i] = t[k]
          PROVE  lo <= Rank(u[i].kind) /\ Rank(u[i].kind) <= hi
      BY <1>0, <2>2, <3>2
    <3> QED
      BY <1>2, <3>1, <3>2
  <2>4. ASSUME NEW a \in 1 .. Len(u), NEW b \in 1 .. Len(u), a <= b
        PROVE  Rank(u[a].kind) <= Rank(u[b].kind)
    <3>1. CASE b \in 1 .. Len(s) /\ u[b] = s[b]
      <4>1. a \in 1 .. Len(s) /\ u[a] = s[a]
        BY <1>1, <2>4, <3>1
      <4> QED
        BY <2>4, <3>1, <4>1 DEF Ranked, Proper
    <3>2. ASSUME NEW k \in 1 .. Len(t), u[b] = t[k], b = Len(s) + k,
                 NEW j \in 1 .. Len(t), u[a] = t[j], a = Len(s) + j
          PROVE  Rank(u[a].kind) <= Rank(u[b].kind)
      <4>1. j <= k
        BY <1>1, <2>4, <3>2
      <4> QED
        BY <3>2, <4>1 DEF Ranked, Proper
    <3>3. ASSUME NEW k \in 1 .. Len(t), u[b] = t[k], a \in 1 .. Len(s), u[a] = s[a]
          PROVE  Rank(u[a].kind) <= Rank(u[b].kind)
      BY <1>0, <2>1, <2>2, <3>3
    <3>4. CASE \E k \in 1 .. Len(t) : u[b] = t[k] /\ b = Len(s) + k
      <4>1. PICK k \in 1 .. Len(t) : u[b] = t[k] /\ b = Len(s) + k
        BY <3>4
      <4>2. \/ a \in 1 .. Len(s) /\ u[a] = s[a]
            \/ \E j \in 1 .. Len(t) : u[a] = t[j] /\ a = Len(s) + j
        BY <1>2
      <4> QED
        BY <3>2, <3>3, <4>1, <4>2
    <3>5. \/ b \in 1 .. Len(s) /\ u[b] = s[b]
          \/ \E k \in 1 .. Len(t) : u[b] = t[k] /\ b = Len(s) + k
      BY <1>2
    <3> QED
      BY <3>1, <3>4, <3>5
  <2> QED
    BY <2>3, <2>4 DEF Ranked
<1>4. Holds(u)
  <2> SUFFICES ASSUME NEW i \in 1 .. Len(u) PROVE Fits(u[i]) /\ Distinct(u[i])
    BY DEF Holds
  <2>1. CASE i \in 1 .. Len(s) /\ u[i] = s[i]
    BY <2>1 DEF Holds, Proper
  <2>2. CASE \E k \in 1 .. Len(t) : u[i] = t[k]
    BY <2>2 DEF Holds, Proper
  <2> QED
    BY <2>1, <2>2, <1>2
<1>5. \A a \in 1 .. Len(s), b \in 1 .. Len(t) : ~(s[a].kind = "post" /\ t[b].kind = "post")
  <2>1. \A a \in 1 .. Len(s), b \in 1 .. Len(t) :
          Rank(s[a].kind) <= m /\ n <= Rank(t[b].kind)
    BY DEF Proper, Ranked
  <2> QED
    BY <2>1, <1>0
<1>6. Once(u)
  <2> SUFFICES ASSUME NEW a \in 1 .. Len(u), NEW b \in 1 .. Len(u), NEW h \in HookNames,
                      u[a].kind = "post", u[b].kind = "post", Has(u[a], h), Has(u[b], h)
               PROVE  a = b
    BY DEF Once
  <2>1. CASE a \in 1 .. Len(s) /\ u[a] = s[a] /\ b \in 1 .. Len(s) /\ u[b] = s[b]
    BY <2>1 DEF Once, Proper
  <2>2. ASSUME NEW x \in 1 .. Len(t), NEW y \in 1 .. Len(t),
               u[a] = t[x], a = Len(s) + x, u[b] = t[y], b = Len(s) + y
        PROVE  a = b
    BY <2>2 DEF Once, Proper
  <2> QED
    BY <2>1, <2>2, <1>2, <1>5
<1>7. OnePost(s) /\ OnePost(t) => OnePost(u)
  <2> SUFFICES ASSUME OnePost(s), OnePost(t), NEW a \in 1 .. Len(u), NEW b \in 1 .. Len(u),
                      u[a].kind = "post", u[b].kind = "post"
               PROVE  a = b
    BY DEF OnePost
  <2>1. CASE a \in 1 .. Len(s) /\ u[a] = s[a] /\ b \in 1 .. Len(s) /\ u[b] = s[b]
    BY <2>1 DEF OnePost
  <2>2. ASSUME NEW x \in 1 .. Len(t), NEW y \in 1 .. Len(t),
               u[a] = t[x], a = Len(s) + x, u[b] = t[y], b = Len(s) + y
        PROVE  a = b
    BY <2>2 DEF OnePost
  <2> QED
    BY <2>1, <2>2, <1>2, <1>5
<1>8. Elems(u) = Elems(s) \cup Elems(t)
  <2>1. Elems(u) \subseteq Elems(s) \cup Elems(t)
    BY <1>2 DEF Elems
  <2>2. ASSUME NEW i \in 1 .. Len(s) PROVE s[i] \in Elems(u)
    <3>1. i \in 1 .. Len(u) /\ u[i] = s[i]
      BY <1>1
    <3> QED
      BY <3>1 DEF Elems
  <2>3. ASSUME NEW i \in 1 .. Len(t) PROVE t[i] \in Elems(u)
    <3>1. /\ Len(s) + i \in 1 .. Len(u) /\ ~(Len(s) + i <= Len(s))
          /\ (Len(s) + i) - Len(s) = i
      BY <1>1
    <3>2. u[Len(s) + i] = t[i]
      BY <1>1, <3>1
    <3> QED
      BY <3>1, <3>2 DEF Elems
  <2> QED
    BY <2>1, <2>2, <2>3 DEF Elems
<1> QED
  BY <1>1, <1>3, <1>4, <1>6, <1>7, <1>8 DEF Proper, u

(* Nothing, and one step.                                                 *)
LEMMA Nothing ==
  /\ \A lo, hi \in Nat : Proper(<<>>, lo, hi)
  /\ Elems(<<>>) = {} /\ OnePost(<<>>)
  BY EmptySeq DEF Proper, Ranked, Holds, Once, OnePost, Elems

(* A list of one step that fits is proper.                                 *)
LEMMA Single ==
  ASSUME NEW step \in Steps, Fits(step), Distinct(step)
  PROVE  /\ Proper(<<step>>, Rank(step.kind), Rank(step.kind))
         /\ Elems(<<step>>) = {step} /\ OnePost(<<step>>)
<1> DEFINE t == <<step>>
<1>1. t \in Seq(Steps) /\ Len(t) = 1 /\ \A s \in 1 .. Len(t) : t[s] = step
  OBVIOUS
<1>2. Rank(step.kind) \in Nat
  BY DEF Rank
<1> HIDE DEF t
<1>3. Ranked(t, Rank(step.kind), Rank(step.kind)) /\ Holds(t) /\ Once(t)
  BY <1>1, <1>2 DEF Ranked, Holds, Once
<1>4. Elems(t) = {step} /\ OnePost(t)
  BY <1>1 DEF Elems, OnePost
<1> QED
  BY <1>1, <1>3, <1>4 DEF Proper, t

(* A step without hooks.                                                   *)
LEMMA PlainStep ==
  ASSUME NEW kind \in Kinds
  PROVE  Plain(kind) \in Steps /\ Plain(kind).kind = kind /\ Plain(kind).chains = <<>>
         /\ Fits(Plain(kind)) /\ Distinct(Plain(kind))
<1>1. Plain(kind) \in Steps /\ Plain(kind).kind = kind /\ Plain(kind).chains = <<>>
  BY EmptySeq DEF Plain, Step, Steps
<1> QED
  BY <1>1 DEF Fits, Distinct, Has

(* The step of one stage, and of two stages.                               *)
LEMMA ChainStep ==
  ASSUME NEW kind \in Kinds, NEW x \in DOMAIN Stages, HooksOf({x}) \subseteq HooksFor(kind)
  PROVE  Chain(kind, x) \in Steps /\ Chain(kind, x).kind = kind
         /\ Fits(Chain(kind, x)) /\ Distinct(Chain(kind, x))
         /\ (\A h : Has(Chain(kind, x), h) <=> h \in HooksOf({x}))
<1> DEFINE step == Chain(kind, x)
<1>1. Stages[x] \in Seq(HookNames) /\ DOMAIN Stages[x] = 1 .. Len(Stages[x])
  BY StageFacts, LenProperties
<1>2. /\ step \in Steps /\ step.kind = kind /\ Len(step.chains) = 1
      /\ \A c \in 1 .. Len(step.chains) : c = 1 /\ step.chains[c] = Stages[x]
  BY <1>1 DEF Chain, Step, Steps
<1> HIDE DEF step
<1>3. \A h : In(Stages[x], h) <=> h \in HooksOf({x})
  BY <1>1 DEF In, HooksOf
<1>4. \A h : Has(step, h) <=> h \in HooksOf({x})
  BY <1>2, <1>3 DEF Has
<1>5. Unrepeated(Stages[x])
  BY StageFacts DEF Unrepeated
<1>6. Distinct(step)
  BY <1>2, <1>5 DEF Distinct
<1>7. Fits(step)
  BY <1>2, <1>4 DEF Fits
<1> QED
  BY <1>2, <1>4, <1>6, <1>7 DEF step

(* A step of two stages run as a chain each, as the tracer does.           *)
LEMMA TwoChainStep ==
  ASSUME NEW kind \in Kinds, NEW x \in DOMAIN Stages, NEW y \in DOMAIN Stages, x # y,
         HooksOf({x}) \subseteq HooksFor(kind), HooksOf({y}) \subseteq HooksFor(kind)
  PROVE  Step(kind, <<Stages[x], Stages[y]>>) \in Steps
         /\ Step(kind, <<Stages[x], Stages[y]>>).kind = kind
         /\ Fits(Step(kind, <<Stages[x], Stages[y]>>))
         /\ Distinct(Step(kind, <<Stages[x], Stages[y]>>))
         /\ (\A h \in HooksOf({x, y}) : Has(Step(kind, <<Stages[x], Stages[y]>>), h))
<1> DEFINE step == Step(kind, <<Stages[x], Stages[y]>>)
<1>1. /\ Stages[x] \in Seq(HookNames) /\ DOMAIN Stages[x] = 1 .. Len(Stages[x])
      /\ Stages[y] \in Seq(HookNames) /\ DOMAIN Stages[y] = 1 .. Len(Stages[y])
  BY StageFacts, LenProperties
<1>2. /\ step \in Steps /\ step.kind = kind /\ Len(step.chains) = 2
      /\ step.chains[1] = Stages[x] /\ step.chains[2] = Stages[y]
  BY <1>1 DEF Step, Steps
<1> HIDE DEF step
<1>3. \A h : /\ In(Stages[x], h) <=> h \in HooksOf({x})
             /\ In(Stages[y], h) <=> h \in HooksOf({y})
  BY <1>1 DEF In, HooksOf
<1>4. HooksOf({x, y}) = HooksOf({x}) \cup HooksOf({y})
  BY DEF HooksOf
<1>5. \A h : Has(step, h) <=> h \in HooksOf({x, y})
  <2>1. \A h : Has(step, h) <=> In(step.chains[1], h) \/ In(step.chains[2], h)
    BY <1>2 DEF Has
  <2> QED
    BY <1>2, <1>3, <1>4, <2>1
<1>6. Unrepeated(Stages[x]) /\ Unrepeated(Stages[y])
  BY StageFacts DEF Unrepeated
<1>7. HooksOf({x}) \cap HooksOf({y}) = {}
  BY TwoDisjoint
<1>8. Distinct(step)
  <2>1. \A c \in 1 .. Len(step.chains) : c = 1 \/ c = 2
    BY <1>2
  <2>2. \A c \in 1 .. Len(step.chains) : Unrepeated(step.chains[c])
    BY <1>2, <1>6, <2>1
  <2>3. \A h : ~(In(step.chains[1], h) /\ In(step.chains[2], h))
    BY <1>2, <1>3, <1>7
  <2> QED
    BY <2>1, <2>2, <2>3 DEF Distinct
<1>9. Fits(step)
  BY <1>2, <1>4, <1>5 DEF Fits
<1> QED
  BY <1>2, <1>5, <1>8, <1>9 DEF step

(* A step of two stages run as one chain, as the untraced pipeline does.   *)
LEMMA JoinedStep ==
  ASSUME NEW kind \in Kinds, NEW x \in DOMAIN Stages, NEW y \in DOMAIN Stages, x # y,
         HooksOf({x}) \subseteq HooksFor(kind), HooksOf({y}) \subseteq HooksFor(kind)
  PROVE  Step(kind, <<Stages[x] \o Stages[y]>>) \in Steps
         /\ Step(kind, <<Stages[x] \o Stages[y]>>).kind = kind
         /\ Fits(Step(kind, <<Stages[x] \o Stages[y]>>))
         /\ Distinct(Step(kind, <<Stages[x] \o Stages[y]>>))
         /\ (\A h \in HooksOf({x, y}) : Has(Step(kind, <<Stages[x] \o Stages[y]>>), h))
<1> DEFINE chain == Stages[x] \o Stages[y]
           step == Step(kind, <<chain>>)
<1>1. /\ Stages[x] \in Seq(HookNames) /\ DOMAIN Stages[x] = 1 .. Len(Stages[x])
      /\ Stages[y] \in Seq(HookNames) /\ DOMAIN Stages[y] = 1 .. Len(Stages[y])
      /\ Len(Stages[x]) \in Nat /\ Len(Stages[y]) \in Nat
  BY StageFacts, LenProperties
<1>2. /\ chain \in Seq(HookNames) /\ Len(chain) = Len(Stages[x]) + Len(Stages[y])
      /\ \A i \in 1 .. Len(chain) :
           chain[i] = IF i <= Len(Stages[x]) THEN Stages[x][i] ELSE Stages[y][i - Len(Stages[x])]
  BY <1>1, ConcatProperties
<1> HIDE DEF chain
<1>3. /\ step \in Steps /\ step.kind = kind /\ Len(step.chains) = 1
      /\ \A c \in 1 .. Len(step.chains) : c = 1 /\ step.chains[c] = chain
  BY <1>2 DEF Step, Steps
<1> HIDE DEF step
<1>4. \A h : /\ In(Stages[x], h) <=> h \in HooksOf({x})
             /\ In(Stages[y], h) <=> h \in HooksOf({y})
  BY <1>1 DEF In, HooksOf
<1>5. HooksOf({x, y}) = HooksOf({x}) \cup HooksOf({y})
  BY DEF HooksOf
<1>6. \A i \in 1 .. Len(chain) :
        \/ i \in 1 .. Len(Stages[x]) /\ chain[i] = Stages[x][i]
        \/ \E k \in 1 .. Len(Stages[y]) : i = Len(Stages[x]) + k /\ chain[i] = Stages[y][k]
  <2> TAKE i \in 1 .. Len(chain)
  <2>1. CASE i <= Len(Stages[x])
    BY <2>1, <1>1, <1>2
  <2>2. CASE ~(i <= Len(Stages[x]))
    <3>1. /\ i - Len(Stages[x]) \in 1 .. Len(Stages[y])
          /\ chain[i] = Stages[y][i - Len(Stages[x])]
          /\ i = Len(Stages[x]) + (i - Len(Stages[x]))
      BY <2>2, <1>1, <1>2
    <3> QED
      BY <3>1
  <2> QED
    BY <2>1, <2>2
<1>7. \A h : In(chain, h) => h \in HooksOf({x, y})
  BY <1>4, <1>5, <1>6 DEF In
<1>8. \A h \in HooksOf({x, y}) : In(chain, h)
  <2>1. ASSUME NEW h, In(Stages[x], h) PROVE In(chain, h)
    <3>1. PICK i \in 1 .. Len(Stages[x]) : Stages[x][i] = h
      BY <2>1 DEF In
    <3>2. i \in 1 .. Len(chain) /\ chain[i] = h
      BY <3>1, <1>1, <1>2
    <3> QED
      BY <3>2 DEF In
  <2>2. ASSUME NEW h, In(Stages[y], h) PROVE In(chain, h)
    <3>1. PICK k \in 1 .. Len(Stages[y]) : Stages[y][k] = h
      BY <2>2 DEF In
    <3>2. k + Len(Stages[x]) \in 1 .. Len(chain) /\ chain[k + Len(Stages[x])] = h
      BY <3>1, <1>1, <1>2
    <3> QED
      BY <3>2 DEF In
  <2> QED
    BY <1>4, <1>5, <2>1, <2>2
<1>9. Unrepeated(chain)
  <2> SUFFICES ASSUME NEW i \in 1 .. Len(chain), NEW j \in 1 .. Len(chain), chain[i] = chain[j]
               PROVE  i = j
    BY DEF Unrepeated
  <2>1. HooksOf({x}) \cap HooksOf({y}) = {}
    BY TwoDisjoint
  <2>2. CASE i \in 1 .. Len(Stages[x]) /\ chain[i] = Stages[x][i]
    <3>1. chain[j] \notin HooksOf({y})
      BY <2>1, <2>2, StageFacts
    <3>2. j \in 1 .. Len(Stages[x]) /\ chain[j] = Stages[x][j]
      BY <3>1, <1>6, StageFacts
    <3> QED
      BY <2>2, <3>2, StageFacts
  <2>3. ASSUME NEW k \in 1 .. Len(Stages[y]), i = Len(Stages[x]) + k, chain[i] = Stages[y][k]
        PROVE  i = j
    <3>1. chain[j] \notin HooksOf({x})
      BY <2>1, <2>3, StageFacts
    <3>2. PICK l \in 1 .. Len(Stages[y]) : j = Len(Stages[x]) + l /\ chain[j] = Stages[y][l]
      BY <3>1, <1>6, StageFacts
    <3>3. k = l
      BY <2>3, <3>2, StageFacts
    <3> QED
      BY <2>3, <3>2, <3>3
  <2> QED
    BY <1>6, <2>2, <2>3
<1>10. Distinct(step)
  BY <1>3, <1>9 DEF Distinct
<1>11. Fits(step) /\ \A h \in HooksOf({x, y}) : Has(step, h)
  <2>1. \A h : Has(step, h) <=> In(chain, h)
    BY <1>3 DEF Has
  <2> QED
    BY <1>3, <1>5, <1>7, <1>8, <2>1 DEF Fits
<1> QED
  BY <1>3, <1>10, <1>11 DEF step, chain

-----------------------------------------------------------------------------
(* The parts of the ways of a request.                                     *)
LEMMA ApplyFacts == Proper(Apply, 6, 6) /\ Elems(Apply) = {Plain("apply")} /\ OnePost(Apply)
<1>1. "apply" \in Kinds /\ Rank("apply") = 6
  BY DEF Kinds, Rank
<1> QED
  BY <1>1, PlainStep, Single DEF Apply

(* Which hooks the stages of each kind of step hold.                       *)
LEMMA HooksOfStages ==
  /\ \A x \in {"request", "beforeHandle", "routeBefore"} :
       x \in DOMAIN Stages /\ HooksOf({x}) \subseteq HooksFor("guard")
  /\ \A x \in {"routeAfter", "afterHandle", "mapResponse"} :
       x \in DOMAIN Stages /\ HooksOf({x}) \subseteq HooksFor("post")
  /\ \A x \in {"afterResponse", "trace"} :
       x \in DOMAIN Stages /\ HooksOf({x}) \subseteq HooksFor("observe")
  /\ "error" \in DOMAIN Stages /\ HooksOf({"error"}) \subseteq HooksFor("error")
<1>1. /\ HooksFor("guard") = AllGuards /\ HooksFor("post") = PostHooks
      /\ HooksFor("observe") = Observers /\ HooksFor("error") = HooksOf({"error"})
  BY DEF HooksFor
<1>2. DOMAIN Stages = {"request", "beforeHandle", "routeBefore", "routeAfter", "afterHandle",
                      "mapResponse", "afterResponse", "trace", "error"}
  BY PipelineAssumption DEF PipelineAssumption
<1>3. \A A, x : x \in A => HooksOf({x}) \subseteq HooksOf(A)
  BY DEF HooksOf
<1>4. \A x \in {"request", "beforeHandle", "routeBefore"} : HooksOf({x}) \subseteq AllGuards
  BY <1>3 DEF AllGuards
<1>5. \A x \in {"routeAfter", "afterHandle", "mapResponse"} : HooksOf({x}) \subseteq PostHooks
  BY <1>3 DEF PostHooks
<1>6. \A x \in {"afterResponse", "trace"} : HooksOf({x}) \subseteq Observers
  BY <1>3 DEF Observers
<1> QED
  BY <1>1, <1>2, <1>4, <1>5, <1>6

(* The observers of a way through the pipeline are a proper list.          *)
LEMMA ObservesFacts ==
  /\ Proper(Observes, 5, 5) /\ OnePost(Observes)
  /\ \A step \in Elems(Observes) : step.kind = "observe"
<1> DEFINE A == Chain("observe", "afterResponse")
           T == Chain("observe", "trace")
<1>1. /\ A \in Steps /\ A.kind = "observe" /\ Fits(A) /\ Distinct(A)
      /\ T \in Steps /\ T.kind = "observe" /\ Fits(T) /\ Distinct(T)
  BY HooksOfStages, ChainStep DEF Kinds
<1>2. Rank("observe") = 5
  BY DEF Rank
<1> HIDE DEF A, T
<1>3. CASE Observes = <<A>>
  BY <1>1, <1>2, <1>3, Single
<1>4. CASE Observes = <<A, T>>
  <2> DEFINE u == Observes
  <2>1. u \in Seq(Steps) /\ Len(u) = 2 /\ u[1] = A /\ u[2] = T
    BY <1>1, <1>4
  <2> HIDE DEF u
  <2>2. \A s \in 1 .. Len(u) :
          u[s].kind = "observe" /\ Rank(u[s].kind) = 5 /\ Fits(u[s]) /\ Distinct(u[s])
    <3> TAKE s \in 1 .. Len(u)
    <3>1. s = 1 \/ s = 2
      BY <2>1
    <3> QED
      BY <1>1, <1>2, <2>1, <3>1
  <2>3. Ranked(u, 5, 5) /\ Holds(u) /\ Once(u) /\ OnePost(u)
    BY <2>2 DEF Ranked, Holds, Once, OnePost
  <2>4. \A step \in Elems(u) : step.kind = "observe"
    BY <2>2 DEF Elems
  <2> QED
    BY <2>1, <2>3, <2>4 DEF Proper, u
<1> QED
  BY <1>3, <1>4 DEF Observes, A, T

(* The head of a concatenation.                                            *)
LEMMA ConcatHead ==
  ASSUME NEW S, NEW s \in Seq(S), NEW t \in Seq(S), s # <<>>
  PROVE  s \o t # <<>> /\ (s \o t)[1] = s[1]
<1>1. Len(s) \in Nat \ {0} /\ Len(t) \in Nat
  BY EmptySeq, LenProperties
<1>2. /\ Len(s \o t) = Len(s) + Len(t)
      /\ \A i \in 1 .. Len(s) + Len(t) :
           (s \o t)[i] = IF i <= Len(s) THEN s[i] ELSE t[i - Len(s)]
  BY ConcatProperties
<1>3. Len(s \o t) # 0 /\ 1 \in 1 .. Len(s) + Len(t) /\ 1 <= Len(s)
  BY <1>1, <1>2
<1> QED
  BY <1>2, <1>3

(* What is known of the response steps; those of the app are one step of   *)
(* at most two chains, of which the plugins come first.                    *)
PluginsFirst == Stages["afterHandle"] # <<>> /\ Stages["afterHandle"][1] = Plugins
Decorates(step) ==
  step.kind = "post" /\ step.chains # <<>> /\ step.chains[1] # <<>> /\ step.chains[1][1] = Plugins

(* The response steps of every way are proper; those of the app decorate. *)
LEMMA PostsFacts ==
  ASSUME mode \in Modes
  PROVE  /\ Proper(Posts, 4, 4)
         /\ mode \in App => OnePost(Posts)
         /\ mode \in App => \A step \in Elems(Posts) : Len(step.chains) <= 2
         /\ mode \in App /\ PluginsFirst => \E step \in Elems(Posts) : Decorates(step)
<1> DEFINE B == Step("post", <<Stages["afterHandle"], Stages["mapResponse"]>>)
           J == Step("post", <<Stages["afterHandle"] \o Stages["mapResponse"]>>)
           X == Chain("post", "routeAfter")
           Y == Chain("post", "afterHandle")
           Z == Chain("post", "mapResponse")
<1>1. Rank("post") = 4 /\ "post" \in Kinds
  BY DEF Rank, Kinds
<1>0. /\ "afterHandle" \in DOMAIN Stages /\ HooksOf({"afterHandle"}) \subseteq HooksFor("post")
      /\ "mapResponse" \in DOMAIN Stages /\ HooksOf({"mapResponse"}) \subseteq HooksFor("post")
      /\ "afterHandle" # "mapResponse"
  BY HooksOfStages
<1>2. /\ B \in Steps /\ B.kind = "post" /\ Fits(B) /\ Distinct(B)
      /\ J \in Steps /\ J.kind = "post" /\ Fits(J) /\ Distinct(J)
  <2>1. B \in Steps /\ B.kind = "post" /\ Fits(B) /\ Distinct(B)
    BY <1>0, <1>1, TwoChainStep
  <2>2. J \in Steps /\ J.kind = "post" /\ Fits(J) /\ Distinct(J)
    BY <1>0, <1>1, JoinedStep
  <2> QED
    BY <2>1, <2>2
<1>3. /\ X \in Steps /\ X.kind = "post" /\ Fits(X) /\ Distinct(X)
      /\ Y \in Steps /\ Y.kind = "post" /\ Fits(Y) /\ Distinct(Y)
      /\ Z \in Steps /\ Z.kind = "post" /\ Fits(Z) /\ Distinct(Z)
  BY <1>1, HooksOfStages, ChainStep
<1>4. Len(B.chains) = 2 /\ Len(J.chains) = 1
  BY DEF Step
<1>5. PluginsFirst => Decorates(B) /\ Decorates(J)
  <2>1. Stages["afterHandle"] \in Seq(HookNames) /\ Stages["mapResponse"] \in Seq(HookNames)
    BY HooksOfStages, StageFacts
  <2> DEFINE j == Stages["afterHandle"] \o Stages["mapResponse"]
  <2>2. PluginsFirst => j # <<>> /\ j[1] = Plugins
    BY <2>1, ConcatHead DEF PluginsFirst
  <2> HIDE DEF j
  <2>3. PluginsFirst => Decorates(Step("post", <<j>>))
    BY <2>2 DEF Decorates, Step
  <2>4. PluginsFirst => Decorates(B)
    BY DEF Decorates, Step, PluginsFirst
  <2> QED
    BY <2>3, <2>4 DEF j
<1>6. \A h : /\ Has(X, h) <=> h \in HooksOf({"routeAfter"})
             /\ Has(Y, h) <=> h \in HooksOf({"afterHandle"})
             /\ Has(Z, h) <=> h \in HooksOf({"mapResponse"})
  BY <1>1, HooksOfStages, ChainStep
<1> HIDE DEF B, J, X, Y, Z
<1>7. CASE Posts = <<B>> /\ mode \in App
  <2>1. Proper(Posts, 4, 4) /\ Elems(Posts) = {B} /\ OnePost(Posts)
    BY <1>1, <1>2, <1>7, Single
  <2>2. Len(B.chains) <= 2
    BY <1>4
  <2> QED
    BY <1>5, <2>1, <2>2
<1>8. CASE Posts = <<J>>
  <2>1. Proper(Posts, 4, 4) /\ Elems(Posts) = {J} /\ OnePost(Posts)
    BY <1>1, <1>2, <1>8, Single
  <2>2. Len(J.chains) <= 2
    BY <1>4
  <2> QED
    BY <1>5, <2>1, <2>2
<1>9. CASE Posts = <<X, Y, Z>> /\ mode \notin App
  <2> DEFINE u == Posts
  <2>1. u \in Seq(Steps) /\ Len(u) = 3 /\ u[1] = X /\ u[2] = Y /\ u[3] = Z
    BY <1>3, <1>9
  <2> HIDE DEF u
  <2>2. \A s \in 1 .. Len(u) : s = 1 \/ s = 2 \/ s = 3
    BY <2>1
  <2>3. \A s \in 1 .. Len(u) :
          u[s].kind = "post" /\ Rank(u[s].kind) = 4 /\ Fits(u[s]) /\ Distinct(u[s])
    BY <1>1, <1>3, <2>1, <2>2
  <2>4. Ranked(u, 4, 4) /\ Holds(u)
    BY <2>3 DEF Ranked, Holds
  <2>5. \A h : /\ ~(Has(X, h) /\ Has(Y, h)) /\ ~(Has(X, h) /\ Has(Z, h))
               /\ ~(Has(Y, h) /\ Has(Z, h))
    <3>1. /\ HooksOf({"routeAfter"}) \cap HooksOf({"afterHandle"}) = {}
          /\ HooksOf({"routeAfter"}) \cap HooksOf({"mapResponse"}) = {}
          /\ HooksOf({"afterHandle"}) \cap HooksOf({"mapResponse"}) = {}
      BY HooksOfStages, TwoDisjoint
    <3> QED
      BY <1>6, <3>1
  <2>6. Once(u)
    BY <2>1, <2>2, <2>5 DEF Once
  <2> QED
    BY <1>9, <2>1, <2>4, <2>6 DEF Proper, u
<1> QED
  BY <1>7, <1>8, <1>9 DEF Posts, B, J, X, Y, Z, Modes, Routes, App

(* What ranks tell.                                                        *)
LEMMA WiderRanks ==
  ASSUME NEW t, NEW lo \in Nat, NEW hi \in Nat, NEW l \in Nat, NEW h \in Nat,
         Proper(t, lo, hi), l <= lo, hi <= h
  PROVE  Proper(t, l, h)
<1>1. \A kind : Rank(kind) \in Nat
  BY DEF Rank
<1> QED
  BY <1>1 DEF Proper, Ranked

(* The ranks of a proper list, member by member.                           *)
LEMMA RanksOf ==
  ASSUME NEW t, NEW lo \in Nat, NEW hi \in Nat, Proper(t, lo, hi)
  PROVE  \A step \in Elems(t) :
           /\ step.kind \in {"guard", "validate"} => lo <= 1
           /\ step.kind = "handler" => lo <= 2 /\ 2 <= hi
           /\ step.kind = "error" => lo <= 3 /\ 3 <= hi
           /\ step.kind = "post" => lo <= 4 /\ 4 <= hi
<1>1. \A step \in Elems(t) : lo <= Rank(step.kind) /\ Rank(step.kind) <= hi
  BY DEF Proper, Ranked, Elems
<1>2. /\ Rank("guard") = 1 /\ Rank("validate") = 1 /\ Rank("handler") = 2
      /\ Rank("error") = 3 /\ Rank("post") = 4
  BY DEF Rank
<1> QED
  BY <1>1, <1>2

(* The guard steps of every way are proper.                                *)
LEMMA GuardsFacts ==
  ASSUME mode \in Modes
  PROVE  /\ Proper(Guards, 1, 1) /\ OnePost(Guards)
         /\ \A step \in Elems(Guards) : step.kind \in {"guard", "validate"}
         /\ GuardHooks \subseteq AllGuards
         /\ \A g \in GuardHooks : \E step \in Elems(Guards) : step.kind = "guard" /\ Has(step, g)
<1> DEFINE B == Step("guard", <<Stages["request"], Stages["beforeHandle"]>>)
           J == Step("guard", <<Stages["request"] \o Stages["beforeHandle"]>>)
           X == Chain("guard", "request")
           V == Plain("validate")
           Y == Chain("guard", "beforeHandle")
           Z == Chain("guard", "routeBefore")
<1>0. /\ "request" \in DOMAIN Stages /\ HooksOf({"request"}) \subseteq HooksFor("guard")
      /\ "beforeHandle" \in DOMAIN Stages /\ HooksOf({"beforeHandle"}) \subseteq HooksFor("guard")
      /\ "routeBefore" \in DOMAIN Stages /\ HooksOf({"routeBefore"}) \subseteq HooksFor("guard")
      /\ "request" # "beforeHandle"
  BY HooksOfStages
<1>1. /\ Rank("guard") = 1 /\ Rank("validate") = 1
      /\ "guard" \in Kinds /\ "validate" \in Kinds
  BY DEF Rank, Kinds
<1>2. /\ B \in Steps /\ B.kind = "guard" /\ Fits(B) /\ Distinct(B)
      /\ \A h \in HooksOf({"request", "beforeHandle"}) : Has(B, h)
  BY <1>0, <1>1, TwoChainStep
<1>3. /\ J \in Steps /\ J.kind = "guard" /\ Fits(J) /\ Distinct(J)
      /\ \A h \in HooksOf({"request", "beforeHandle"}) : Has(J, h)
  BY <1>0, <1>1, JoinedStep
<1>4. /\ X \in Steps /\ X.kind = "guard" /\ Fits(X) /\ Distinct(X)
      /\ \A h : Has(X, h) <=> h \in HooksOf({"request"})
  BY <1>0, <1>1, ChainStep
<1>5. /\ Y \in Steps /\ Y.kind = "guard" /\ Fits(Y) /\ Distinct(Y)
      /\ \A h : Has(Y, h) <=> h \in HooksOf({"beforeHandle"})
  BY <1>0, <1>1, ChainStep
<1>6. /\ Z \in Steps /\ Z.kind = "guard" /\ Fits(Z) /\ Distinct(Z)
      /\ \A h : Has(Z, h) <=> h \in HooksOf({"routeBefore"})
  BY <1>0, <1>1, ChainStep
<1>7. V \in Steps /\ V.kind = "validate" /\ Fits(V) /\ Distinct(V)
  BY <1>1, PlainStep
<1>8. mode # "router" => GuardHooks = HooksOf({"request", "beforeHandle"})
  <2>1. {"request", "beforeHandle"} \cup {} = {"request", "beforeHandle"}
    OBVIOUS
  <2> QED
    BY <2>1 DEF GuardHooks
<1>9. mode = "router" =>
        GuardHooks = HooksOf({"request"}) \cup HooksOf({"beforeHandle"}) \cup HooksOf({"routeBefore"})
  BY DEF GuardHooks, HooksOf
<1>10. GuardHooks \subseteq AllGuards
  BY DEF GuardHooks, AllGuards, HooksOf
<1> HIDE DEF B, J, X, Y, Z, V
<1>11. CASE Guards = <<B>> /\ mode # "router"
  <2>1. Proper(Guards, 1, 1) /\ Elems(Guards) = {B} /\ OnePost(Guards)
    BY <1>1, <1>2, <1>11, Single
  <2> QED
    BY <1>2, <1>8, <1>10, <1>11, <2>1
<1>12. CASE Guards = <<J>> /\ mode # "router"
  <2>1. Proper(Guards, 1, 1) /\ Elems(Guards) = {J} /\ OnePost(Guards)
    BY <1>1, <1>3, <1>12, Single
  <2> QED
    BY <1>3, <1>8, <1>10, <1>12, <2>1
<1>13. CASE Guards = <<X, V, Y, Z>> /\ mode = "router"
  <2> DEFINE u == Guards
  <2>1. u \in Seq(Steps) /\ Len(u) = 4 /\ u[1] = X /\ u[2] = V /\ u[3] = Y /\ u[4] = Z
    BY <1>4, <1>5, <1>6, <1>7, <1>13
  <2> HIDE DEF u
  <2>2. \A s \in 1 .. Len(u) : s = 1 \/ s = 2 \/ s = 3 \/ s = 4
    BY <2>1
  <2>3. \A s \in 1 .. Len(u) : /\ u[s].kind \in {"guard", "validate"} /\ Rank(u[s].kind) = 1
                               /\ Fits(u[s]) /\ Distinct(u[s])
    BY <1>1, <1>4, <1>5, <1>6, <1>7, <2>1, <2>2
  <2>4. Ranked(u, 1, 1) /\ Holds(u) /\ Once(u) /\ OnePost(u)
    BY <2>3 DEF Ranked, Holds, Once, OnePost
  <2>5. \A step \in Elems(u) : step.kind \in {"guard", "validate"}
    BY <2>3 DEF Elems
  <2>6. X \in Elems(u) /\ Y \in Elems(u) /\ Z \in Elems(u)
    <3>1. 1 \in 1 .. Len(u) /\ 3 \in 1 .. Len(u) /\ 4 \in 1 .. Len(u)
      BY <2>1
    <3> QED
      BY <2>1, <3>1 DEF Elems
  <2>7. \A g \in GuardHooks : \E step \in Elems(u) : step.kind = "guard" /\ Has(step, g)
    BY <1>4, <1>5, <1>6, <1>9, <1>13, <2>6
  <2> QED
    BY <1>10, <2>1, <2>4, <2>5, <2>7 DEF Proper, u
<1> QED
  BY <1>11, <1>12, <1>13 DEF Guards, B, J, X, V, Y, Z, Modes, Routes, App

(* What follows the handler.                                               *)
LEMMA AfterFacts ==
  ASSUME mode \in Modes
  PROVE  /\ Proper(AfterHandler, 4, 6)
         /\ mode \in App /\ PluginsFirst => \E step \in Elems(AfterHandler) : Decorates(step)
<1>1. CASE mode = "options"
  BY <1>1, ApplyFacts, WiderRanks DEF AfterHandler, App
<1>2. CASE mode # "options"
  <2>1. /\ Proper(Posts \o Observes, 4, 5)
        /\ Elems(Posts \o Observes) = Elems(Posts) \cup Elems(Observes)
    BY PostsFacts, ObservesFacts, Concatenated
  <2>2. /\ Proper((Posts \o Observes) \o Apply, 4, 6)
        /\ Elems((Posts \o Observes) \o Apply) = Elems(Posts \o Observes) \cup Elems(Apply)
    BY <2>1, ApplyFacts, Concatenated
  <2> QED
    BY <1>2, <2>1, <2>2, PostsFacts DEF AfterHandler
<1> QED
  BY <1>1, <1>2

(* The steps a request starts with, on every way.                          *)
LEMMA PlanFacts ==
  ASSUME mode \in Modes
  PROVE  /\ Proper(Plan, 1, 6)
         /\ \A step \in Elems(Plan) : step.kind # "error"
         /\ \A g \in GuardHooks : \E step \in Elems(Plan) : step.kind = "guard" /\ Has(step, g)
         /\ mode \in App /\ PluginsFirst => \E step \in Elems(Plan) : Decorates(step)
<1> DEFINE H == IF mode \in Routes THEN <<Plain("handler")>> ELSE <<>>
<1>1. Proper(H, 2, 2) /\ \A step \in Elems(H) : step.kind = "handler"
  <2>1. "handler" \in Kinds /\ Rank("handler") = 2
    BY DEF Kinds, Rank
  <2>2. CASE H = <<Plain("handler")>>
    BY <2>1, <2>2, PlainStep, Single
  <2>3. CASE H = <<>>
    BY <2>3, Nothing
  <2> QED
    BY <2>2, <2>3
<1> HIDE DEF H
<1>2. Proper(Guards \o H, 1, 2) /\ Elems(Guards \o H) = Elems(Guards) \cup Elems(H)
  BY <1>1, GuardsFacts, Concatenated
<1>3. /\ Proper((Guards \o H) \o AfterHandler, 1, 6)
      /\ Elems((Guards \o H) \o AfterHandler) = Elems(Guards \o H) \cup Elems(AfterHandler)
  BY <1>2, AfterFacts, Concatenated
<1>4. Plan = (Guards \o H) \o AfterHandler
  BY DEF Plan, H
<1>5. \A step \in Elems(AfterHandler) : step.kind # "error"
  BY AfterFacts, RanksOf
<1> QED
  BY <1>1, <1>2, <1>3, <1>4, <1>5, GuardsFacts, AfterFacts

(* The steps left when a guard has answered.                               *)
LEMMA HaltFacts ==
  ASSUME mode \in Modes
  PROVE  /\ Proper(HaltPlan, 4, 6)
         /\ mode \in App /\ PluginsFirst => \E step \in Elems(HaltPlan) : Decorates(step)
  BY AfterFacts, ApplyFacts, WiderRanks DEF HaltPlan

(* A proper list followed by steps of higher ranks is proper.              *)
LEMMA Continued ==
  ASSUME NEW s, NEW t, NEW lo \in Nat, NEW m \in Nat, NEW n \in Nat, NEW hi \in Nat,
         Proper(s, lo, m), Proper(t, n, hi), lo <= m, m < n, n <= hi,
         s # <<>>, OnePost(s), OnePost(t)
  PROVE  /\ Proper(s \o t, lo, hi) /\ OnePost(s \o t)
         /\ Elems(s \o t) = Elems(s) \cup Elems(t)
         /\ s \o t # <<>> /\ (s \o t)[1] = s[1]
<1>1. s \in Seq(Steps) /\ t \in Seq(Steps)
  BY DEF Proper
<1> QED
  BY <1>1, Concatenated, ConcatHead

(* The steps left when something has thrown begin with the error stage.    *)
LEMMA ErrorFacts ==
  ASSUME mode \in Modes
  PROVE  /\ Proper(ErrorPlan, 3, 6) /\ ErrorPlan # <<>> /\ ErrorPlan[1].kind = "error"
         /\ mode \notin App \/ PostRan => \A step \in Elems(ErrorPlan) : step.kind # "post"
         /\ OnePost(ErrorPlan)
         /\ \A step \in Elems(ErrorPlan) : step.kind = "post" => Len(step.chains) <= 2
         /\ mode \in App /\ ~PostRan /\ PluginsFirst => \E step \in Elems(ErrorPlan) : Decorates(step)
<1> DEFINE E == <<Chain("error", "error")>>
           P == IF PostRan THEN <<>> ELSE Posts
<1>1. /\ Proper(E, 3, 3) /\ OnePost(E) /\ Elems(E) = {Chain("error", "error")}
      /\ Chain("error", "error").kind = "error"
  <2>1. "error" \in Kinds /\ Rank("error") = 3
    BY DEF Kinds, Rank
  <2> QED
    BY <2>1, HooksOfStages, ChainStep, Single
<1>2. E # <<>> /\ E[1].kind = "error"
  BY <1>1
<1>3. /\ Proper(P, 4, 4)
      /\ mode \in App => OnePost(P) /\ (\A step \in Elems(P) : Len(step.chains) <= 2)
      /\ PostRan => Elems(P) = {}
  BY Nothing, PostsFacts
<1>4. /\ \A step \in Elems(Observes) \cup Elems(Apply) : step.kind # "post" /\ step.kind # "error"
      /\ \A step \in Elems(P) : step.kind # "error"
  <2>1. \A step \in Elems(Apply) : step.kind = "apply"
    BY ApplyFacts, PlainStep DEF Kinds
  <2> QED
    BY <1>3, <2>1, ObservesFacts, RanksOf
<1> HIDE DEF E, P
<1>5. CASE mode \in App
  <2> DEFINE Q == E \o P
             R == Q \o Observes
  <2>1. /\ Proper(Q, 3, 4) /\ Elems(Q) = Elems(E) \cup Elems(P) /\ OnePost(Q)
        /\ Q # <<>> /\ Q[1] = E[1]
    BY <1>1, <1>2, <1>3, <1>5, Continued
  <2>2. ErrorPlan = R \o Apply
    BY <1>5 DEF ErrorPlan, E, P
  <2> HIDE DEF Q
  <2>3. Proper(Observes, 5, 5) /\ OnePost(Observes)
    BY ObservesFacts
  <2>4. /\ Proper(R, 3, 5) /\ Elems(R) = Elems(Q) \cup Elems(Observes)
        /\ OnePost(R) /\ R # <<>> /\ R[1] = Q[1]
    BY <2>1, <2>3, Continued
  <2> HIDE DEF R
  <2>5. Proper(Apply, 6, 6) /\ OnePost(Apply)
    BY ApplyFacts
  <2>6. /\ Proper(R \o Apply, 3, 6) /\ Elems(R \o Apply) = Elems(R) \cup Elems(Apply)
        /\ OnePost(R \o Apply) /\ R \o Apply # <<>> /\ (R \o Apply)[1] = R[1]
    BY <2>4, <2>5, Continued
  <2> QED
    <3>1. Elems(ErrorPlan) = Elems(E) \cup Elems(P) \cup Elems(Observes) \cup Elems(Apply)
      BY <2>1, <2>2, <2>4, <2>6
    <3>2. Proper(ErrorPlan, 3, 6) /\ ErrorPlan # <<>> /\ ErrorPlan[1].kind = "error"
          /\ OnePost(ErrorPlan)
      BY <1>2, <2>1, <2>2, <2>4, <2>6
    <3>3. \A step \in Elems(ErrorPlan) : step.kind = "post" => step \in Elems(P)
      BY <1>1, <1>4, <3>1
    <3>4. ~PostRan => P = Posts
      BY DEF P
    <3> QED
      BY <1>3, <1>5, <3>1, <3>2, <3>3, <3>4, PostsFacts
<1>6. CASE mode \notin App
  <2>1. /\ Proper(E \o Apply, 3, 6) /\ Elems(E \o Apply) = Elems(E) \cup Elems(Apply)
        /\ OnePost(E \o Apply) /\ E \o Apply # <<>> /\ (E \o Apply)[1] = E[1]
    BY <1>1, <1>2, ApplyFacts, Continued
  <2>2. ErrorPlan = E \o Apply
    BY <1>6 DEF ErrorPlan, E
  <2> QED
    BY <1>1, <1>2, <1>4, <1>6, <2>1, <2>2
<1> QED
  BY <1>5, <1>6

-----------------------------------------------------------------------------
(* How the list of steps shrinks.                                          *)
Within(u, t) ==
  \A y \in Elems(u) : \E x \in Elems(t) :
    /\ y.kind = x.kind /\ Len(y.chains) <= Len(x.chains)
    /\ \A h \in HookNames : Has(y, h) => Has(x, h)

(* The first step of a proper list.                                        *)
LEMMA FrontFacts ==
  ASSUME NEW t, Proper(t, 1, 6), t # <<>>
  PROVE  /\ Len(t) \in Nat \ {0} /\ 1 \in 1 .. Len(t) /\ t[1] \in Steps /\ t[1] \in Elems(t)
         /\ Fits(t[1]) /\ Distinct(t[1])
         /\ \A x \in Elems(t) : Rank(t[1].kind) <= Rank(x.kind)
<1>1. t \in Seq(Steps) /\ Len(t) \in Nat \ {0}
  BY EmptySeq DEF Proper
<1>2. 1 \in 1 .. Len(t)
  BY <1>1
<1> QED
  BY <1>1, <1>2 DEF Proper, Ranked, Holds, Elems

(* What is left when the first step has ended.                             *)
LEMMA TailFacts ==
  ASSUME NEW t, Proper(t, 1, 6), t # <<>>
  PROVE  /\ Proper(Tail(t), 1, 6) /\ (OnePost(t) => OnePost(Tail(t)))
         /\ Elems(t) = {t[1]} \cup Elems(Tail(t))
         /\ \A x \in Elems(Tail(t)) : t[1].kind = "post" /\ x.kind = "post" =>
              ~OnePost(t) /\ \A h \in HookNames : ~(Has(t[1], h) /\ Has(x, h))
         /\ Within(Tail(t), t)
<1> DEFINE u == Tail(t)
<1>1. t \in Seq(Steps) /\ Len(t) \in Nat \ {0} /\ 1 \in 1 .. Len(t)
  BY FrontFacts DEF Proper
<1>2. /\ u \in Seq(Steps) /\ Len(u) = Len(t) - 1
      /\ \A s \in 1 .. Len(u) : u[s] = t[s + 1]
  BY <1>1, HeadTailProperties
<1>3. \A s \in 1 .. Len(u) : s + 1 \in 1 .. Len(t) /\ u[s] = t[s + 1] /\ s + 1 # 1
  BY <1>1, <1>2
<1> HIDE DEF u
<1>4. Ranked(u, 1, 6)
  <2>1. \A s \in 1 .. Len(u) : 1 <= Rank(u[s].kind) /\ Rank(u[s].kind) <= 6
    BY <1>3 DEF Proper, Ranked
  <2>2. ASSUME NEW a \in 1 .. Len(u), NEW b \in 1 .. Len(u), a <= b
        PROVE  Rank(u[a].kind) <= Rank(u[b].kind)
    <3>1. a + 1 <= b + 1
      BY <1>2, <2>2
    <3> QED
      BY <1>3, <2>2, <3>1 DEF Proper, Ranked
  <2> QED
    BY <2>1, <2>2 DEF Ranked
<1>5. Holds(u)
  BY <1>3 DEF Proper, Holds
<1>6. \A a, b \in 1 .. Len(u) : a + 1 = b + 1 => a = b
  BY <1>2
<1>7. Once(u)
  BY <1>3, <1>6 DEF Proper, Once
<1>8. OnePost(t) => OnePost(u)
  BY <1>3, <1>6 DEF OnePost
<1>9. Elems(t) = {t[1]} \cup Elems(u)
  <2>1. Elems(u) \subseteq Elems(t) /\ t[1] \in Elems(t)
    BY <1>1, <1>3 DEF Elems
  <2>2. ASSUME NEW s \in 1 .. Len(t), s # 1 PROVE t[s] \in Elems(u)
    <3>1. s - 1 \in 1 .. Len(u) /\ (s - 1) + 1 = s
      BY <1>1, <1>2, <2>2
    <3>2. u[s - 1] = t[s]
      BY <1>3, <3>1
    <3> QED
      BY <3>1, <3>2 DEF Elems
  <2> QED
    BY <2>1, <2>2 DEF Elems
<1>10. ASSUME NEW s \in 1 .. Len(u), t[1].kind = "post", u[s].kind = "post"
       PROVE  ~OnePost(t) /\ \A h \in HookNames : ~(Has(t[1], h) /\ Has(u[s], h))
  BY <1>1, <1>3, <1>10 DEF OnePost, Proper, Once
<1>11. Within(u, t)
  <2>1. \A x \in Elems(u) : x \in Elems(t) /\ x \in Steps
    BY <1>2, <1>9 DEF Elems
  <2>2. \A x \in Elems(u) : Len(x.chains) <= Len(x.chains)
    BY <2>1 DEF Steps
  <2> QED
    BY <2>1, <2>2 DEF Within
<1> QED
  BY <1>2, <1>4, <1>5, <1>7, <1>8, <1>9, <1>10, <1>11 DEF Proper, u, Elems

(* The first step replaced by one of its kind with fewer hooks.            *)
LEMMA ReplaceFacts ==
  ASSUME NEW t, Proper(t, 1, 6), t # <<>>, NEW new \in Steps,
         new.kind = t[1].kind, Fits(new), Distinct(new),
         \A h \in HookNames : Has(new, h) => Has(t[1], h)
  PROVE  /\ Proper([t EXCEPT ![1] = new], 1, 6)
         /\ OnePost(t) => OnePost([t EXCEPT ![1] = new])
         /\ [t EXCEPT ![1] = new] # <<>> /\ [t EXCEPT ![1] = new][1] = new
         /\ Elems([t EXCEPT ![1] = new]) = {new} \cup Elems(Tail(t))
<1> DEFINE u == [t EXCEPT ![1] = new]
<1>1. t \in Seq(Steps) /\ Len(t) \in Nat \ {0} /\ 1 \in 1 .. Len(t)
  BY FrontFacts DEF Proper
<1>2. /\ u \in Seq(Steps) /\ Len(u) = Len(t)
      /\ \A s \in 1 .. Len(t) : u[s] = IF s = 1 THEN new ELSE t[s]
  BY <1>1, ExceptSeq
<1> HIDE DEF u
<1>3. \A s \in 1 .. Len(u) : s \in 1 .. Len(t) /\ u[s].kind = t[s].kind
                             /\ (\A h \in HookNames : Has(u[s], h) => Has(t[s], h))
  BY <1>2
<1>4. Ranked(u, 1, 6) /\ Once(u) /\ (OnePost(t) => OnePost(u))
  BY <1>2, <1>3 DEF Proper, Ranked, Once, OnePost
<1>5. Holds(u)
  BY <1>2 DEF Proper, Holds
<1>6. u # <<>> /\ u[1] = new
  BY <1>1, <1>2
<1>7. Elems(u) = {new} \cup Elems(Tail(t))
  <2>1. Proper(u, 1, 6)
    BY <1>2, <1>4, <1>5 DEF Proper
  <2>2. Elems(u) = {u[1]} \cup Elems(Tail(u))
    BY <2>1, <1>6, TailFacts
  <2>3. Tail(u) = Tail(t)
    <3>1. /\ Tail(t) \in Seq(Steps) /\ Len(Tail(t)) = Len(t) - 1
          /\ \A s \in 1 .. Len(Tail(t)) : Tail(t)[s] = t[s + 1]
      BY <1>1, HeadTailProperties
    <3>2. /\ Tail(u) \in Seq(Steps) /\ Len(Tail(u)) = Len(u) - 1
          /\ \A s \in 1 .. Len(Tail(u)) : Tail(u)[s] = u[s + 1]
      BY <1>2, <1>6, HeadTailProperties
    <3>3. \A s \in 1 .. Len(t) - 1 : s + 1 \in 1 .. Len(t) /\ s + 1 # 1
      BY <1>1
    <3> QED
      BY <1>2, <3>1, <3>2, <3>3, SeqEqual
  <2> QED
    BY <2>2, <2>3, <1>6
<1> QED
  BY <1>2, <1>4, <1>5, <1>6, <1>7 DEF Proper, u

(* A chain without its first hook.                                         *)
LEMMA TailIn ==
  ASSUME NEW chain \in Seq(HookNames), chain # <<>>
  PROVE  /\ chain[1] \in HookNames /\ Tail(chain) \in Seq(HookNames)
         /\ \A h : In(chain, h) <=> h = chain[1] \/ In(Tail(chain), h)
         /\ Unrepeated(chain) => Unrepeated(Tail(chain)) /\ ~In(Tail(chain), chain[1])
<1> DEFINE u == Tail(chain)
<1>1. Len(chain) \in Nat \ {0} /\ 1 \in 1 .. Len(chain)
  BY EmptySeq
<1>2. /\ u \in Seq(HookNames) /\ Len(u) = Len(chain) - 1
      /\ \A i \in 1 .. Len(u) : u[i] = chain[i + 1]
  BY HeadTailProperties
<1>3. \A i \in 1 .. Len(u) : i + 1 \in 1 .. Len(chain) /\ i + 1 # 1 /\ u[i] = chain[i + 1]
  BY <1>1, <1>2
<1>4. chain[1] \in HookNames
  BY <1>1
<1> HIDE DEF u
<1>5. \A h : In(u, h) => In(chain, h)
  BY <1>3 DEF In
<1>6. ASSUME NEW i \in 1 .. Len(chain), i # 1 PROVE In(u, chain[i])
  <2>1. i - 1 \in 1 .. Len(u) /\ (i - 1) + 1 = i
    BY <1>1, <1>2, <1>6
  <2> QED
    BY <1>3, <2>1 DEF In
<1>7. \A h : In(chain, h) <=> h = chain[1] \/ In(u, h)
  BY <1>1, <1>5, <1>6 DEF In
<1>8. Unrepeated(chain) => Unrepeated(u)
  <2>1. \A i, j \in 1 .. Len(u) : i + 1 = j + 1 => i = j
    BY <1>2
  <2> QED
    BY <1>3, <2>1 DEF Unrepeated
<1>9. Unrepeated(chain) => ~In(u, chain[1])
  BY <1>1, <1>3 DEF In, Unrepeated
<1> QED
  BY <1>2, <1>4, <1>7, <1>8, <1>9 DEF u

(* The first step once its next hook is called.                            *)
LEMMA AfterHookFacts ==
  ASSUME Proper(todo, 1, 6), todo # <<>>,
         todo[1].chains # <<>>, todo[1].chains[1] # <<>>
  PROVE  \E new \in Steps :
           /\ AfterHook = [todo EXCEPT ![1] = new]
           /\ new.kind = todo[1].kind /\ Len(new.chains) = Len(todo[1].chains)
           /\ Fits(new) /\ Distinct(new)
           /\ todo[1].chains[1][1] \in HookNames /\ Has(todo[1], todo[1].chains[1][1])
           /\ \A h : Has(todo[1], h) <=> h = todo[1].chains[1][1] \/ Has(new, h)
           /\ ~Has(new, todo[1].chains[1][1])
<1> DEFINE old == todo[1]
           chain == old.chains[1]
           chains == [old.chains EXCEPT ![1] = Tail(chain)]
           new == [old EXCEPT !.chains = chains]
<1>1. /\ old \in Steps /\ Fits(old) /\ Distinct(old)
      /\ Len(todo) \in Nat \ {0} /\ 1 \in 1 .. Len(todo) /\ todo \in Seq(Steps)
  BY FrontFacts DEF Proper
<1>2. AfterHook = [todo EXCEPT ![1] = new]
  BY DEF AfterHook
<1> HIDE DEF old
<1>3. old.chains \in Seq(Seq(HookNames)) /\ old.kind \in Kinds
  BY <1>1 DEF Steps
<1>4. old.chains # <<>> /\ chain # <<>>
  BY DEF old
<1>5. Len(old.chains) \in Nat \ {0} /\ 1 \in 1 .. Len(old.chains) /\ chain \in Seq(HookNames)
  BY <1>3, <1>4, EmptySeq
<1>6. /\ chain[1] \in HookNames /\ Tail(chain) \in Seq(HookNames)
      /\ \A h : In(chain, h) <=> h = chain[1] \/ In(Tail(chain), h)
      /\ Unrepeated(chain) => Unrepeated(Tail(chain)) /\ ~In(Tail(chain), chain[1])
  <2> HIDE DEF chain
  <2> QED
    BY <1>4, <1>5, TailIn
<1>7. /\ chains \in Seq(Seq(HookNames)) /\ Len(chains) = Len(old.chains)
      /\ \A c \in 1 .. Len(old.chains) : chains[c] = IF c = 1 THEN Tail(chain) ELSE old.chains[c]
  BY <1>3, <1>5, <1>6, ExceptSeq
<1>8. new \in Steps /\ new.kind = old.kind /\ new.chains = chains
  BY <1>1, <1>3, <1>7 DEF Steps
<1> HIDE DEF chain, chains, new
<1>9. old.chains[1] = chain
  BY DEF chain
<1>10. \A h : Has(new, h) => Has(old, h)
  BY <1>6, <1>7, <1>8, <1>9 DEF Has
<1>11. \A h : Has(old, h) => h = chain[1] \/ Has(new, h)
  BY <1>5, <1>6, <1>7, <1>8, <1>9 DEF Has
<1>12. Has(old, chain[1])
  BY <1>5, <1>6, <1>9 DEF Has
<1>13. \A c \in 1 .. Len(old.chains) : c # 1 => ~In(old.chains[c], chain[1])
  BY <1>1, <1>5, <1>6, <1>9 DEF Distinct
<1>14. Unrepeated(chain)
  BY <1>1, <1>5, <1>9 DEF Distinct
<1>15. ~Has(new, chain[1])
  BY <1>6, <1>7, <1>8, <1>13, <1>14 DEF Has
<1>16. Fits(new)
  BY <1>1, <1>8, <1>10 DEF Fits
<1>17. Distinct(new)
  <2>1. \A c \in 1 .. Len(new.chains) : Unrepeated(new.chains[c])
    BY <1>1, <1>6, <1>7, <1>8, <1>14 DEF Distinct
  <2>2. \A c \in 1 .. Len(new.chains) : \A h : In(new.chains[c], h) => In(old.chains[c], h)
    BY <1>6, <1>7, <1>8, <1>9
  <2> QED
    BY <1>1, <1>7, <1>8, <2>1, <2>2 DEF Distinct
<1>18. chain[1] = todo[1].chains[1][1] /\ old = todo[1]
  BY DEF chain, old
<1> QED
  BY <1>2, <1>6, <1>7, <1>8, <1>10, <1>11, <1>12, <1>15, <1>16, <1>17, <1>18

(* The first step once its first chain is left.                            *)
LEMMA AfterChainFacts ==
  ASSUME Proper(todo, 1, 6), todo # <<>>, todo[1].chains # <<>>
  PROVE  \E new \in Steps :
           /\ AfterChain = [todo EXCEPT ![1] = new]
           /\ new.kind = todo[1].kind /\ Len(new.chains) = Len(todo[1].chains) - 1
           /\ Len(new.chains) \in Nat
           /\ Fits(new) /\ Distinct(new)
           /\ \A h : Has(new, h) => Has(todo[1], h)
           /\ todo[1].chains[1] = <<>> => \A h : Has(todo[1], h) => Has(new, h)
           /\ todo[1].chains[1] # <<>> =>
                /\ todo[1].chains[1][1] \in HookNames /\ Has(todo[1], todo[1].chains[1][1])
                /\ ~Has(new, todo[1].chains[1][1])
<1> DEFINE old == todo[1]
           chain == old.chains[1]
           chains == Tail(old.chains)
           new == [old EXCEPT !.chains = chains]
<1>1. /\ old \in Steps /\ Fits(old) /\ Distinct(old)
      /\ Len(todo) \in Nat \ {0} /\ 1 \in 1 .. Len(todo) /\ todo \in Seq(Steps)
  BY FrontFacts DEF Proper
<1>2. AfterChain = [todo EXCEPT ![1] = new]
  BY DEF AfterChain
<1> HIDE DEF old
<1>3. old.chains \in Seq(Seq(HookNames)) /\ old.kind \in Kinds /\ old.chains # <<>>
  BY <1>1 DEF Steps, old
<1>4. Len(old.chains) \in Nat \ {0} /\ 1 \in 1 .. Len(old.chains) /\ chain \in Seq(HookNames)
  BY <1>3, EmptySeq
<1>5. /\ chains \in Seq(Seq(HookNames)) /\ Len(chains) = Len(old.chains) - 1
      /\ \A c \in 1 .. Len(chains) : chains[c] = old.chains[c + 1]
  BY <1>3, HeadTailProperties
<1>6. \A c \in 1 .. Len(chains) : /\ c + 1 \in 1 .. Len(old.chains) /\ c + 1 # 1
                                  /\ chains[c] = old.chains[c + 1]
  BY <1>4, <1>5
<1>7. new \in Steps /\ new.kind = old.kind /\ new.chains = chains
  BY <1>1, <1>3, <1>5 DEF Steps
<1> HIDE DEF chain, chains, new
<1>8. old.chains[1] = chain
  BY DEF chain
<1>9. \A h : Has(new, h) => Has(old, h)
  BY <1>6, <1>7 DEF Has
<1>10. chain # <<>> => chain[1] \in HookNames /\ In(chain, chain[1])
  <2>1. chain # <<>> => 1 \in 1 .. Len(chain)
    BY <1>4, EmptySeq
  <2> QED
    BY <1>4, <2>1 DEF In
<1>11. chain # <<>> => Has(old, chain[1]) /\ ~Has(new, chain[1])
  BY <1>1, <1>4, <1>6, <1>7, <1>8, <1>10 DEF Has, Distinct
<1>12. chain = <<>> => \A h : Has(old, h) => Has(new, h)
  <2> SUFFICES ASSUME chain = <<>>, NEW h, NEW c \in 1 .. Len(old.chains), In(old.chains[c], h)
               PROVE  Has(new, h)
    BY DEF Has
  <2>1. c # 1
    BY <1>8 DEF In
  <2>2. c - 1 \in 1 .. Len(chains) /\ (c - 1) + 1 = c
    BY <1>4, <1>5, <2>1
  <2>3. chains[c - 1] = old.chains[c]
    BY <1>6, <2>2
  <2> QED
    BY <1>7, <2>2, <2>3 DEF Has
<1>13. Fits(new)
  BY <1>1, <1>7, <1>9 DEF Fits
<1>14. Distinct(new)
  <2>1. \A c, d \in 1 .. Len(chains) : c + 1 = d + 1 => c = d
    BY <1>5
  <2> QED
    BY <1>1, <1>6, <1>7, <2>1 DEF Distinct
<1>15. chain = todo[1].chains[1] /\ old = todo[1]
  BY DEF chain, old
<1>16. Len(new.chains) = Len(old.chains) - 1 /\ Len(new.chains) \in Nat
  BY <1>4, <1>5, <1>7
<1> QED
  BY <1>2, <1>7, <1>9, <1>10, <1>11, <1>12, <1>13, <1>14, <1>15, <1>16

(* The two of them as steps of the request.                                *)
LEMMA HookGone ==
  ASSUME Proper(todo, 1, 6), todo # <<>>,
         todo[1].chains # <<>>, todo[1].chains[1] # <<>>
  PROVE  \E new \in Steps :
           /\ Proper(AfterHook, 1, 6) /\ (OnePost(todo) => OnePost(AfterHook))
           /\ AfterHook # <<>> /\ AfterHook[1] = new
           /\ Elems(AfterHook) = {new} \cup Elems(Tail(todo))
           /\ new.kind = todo[1].kind /\ Len(new.chains) = Len(todo[1].chains)
           /\ todo[1].chains[1][1] \in HooksFor(todo[1].kind) \cap HookNames
           /\ Has(todo[1], todo[1].chains[1][1]) /\ ~Has(new, todo[1].chains[1][1])
           /\ \A h : Has(todo[1], h) <=> h = todo[1].chains[1][1] \/ Has(new, h)
<1>1. PICK new \in Steps :
        /\ AfterHook = [todo EXCEPT ![1] = new]
        /\ new.kind = todo[1].kind /\ Len(new.chains) = Len(todo[1].chains)
        /\ Fits(new) /\ Distinct(new)
        /\ todo[1].chains[1][1] \in HookNames /\ Has(todo[1], todo[1].chains[1][1])
        /\ \A h : Has(todo[1], h) <=> h = todo[1].chains[1][1] \/ Has(new, h)
        /\ ~Has(new, todo[1].chains[1][1])
  BY AfterHookFacts
<1>2. \A h \in HookNames : Has(new, h) => Has(todo[1], h)
  BY <1>1
<1>3. /\ Proper([todo EXCEPT ![1] = new], 1, 6)
      /\ OnePost(todo) => OnePost([todo EXCEPT ![1] = new])
      /\ [todo EXCEPT ![1] = new] # <<>> /\ [todo EXCEPT ![1] = new][1] = new
      /\ Elems([todo EXCEPT ![1] = new]) = {new} \cup Elems(Tail(todo))
  BY <1>1, <1>2, ReplaceFacts
<1>4. todo[1].chains[1][1] \in HooksFor(todo[1].kind)
  BY <1>1, FrontFacts DEF Fits
<1> QED
  BY <1>1, <1>3, <1>4

(* What is left when a chain ends before its last hook.                    *)
LEMMA ChainGone ==
  ASSUME Proper(todo, 1, 6), todo # <<>>, todo[1].chains # <<>>
  PROVE  \E new \in Steps :
           /\ Proper(AfterChain, 1, 6) /\ (OnePost(todo) => OnePost(AfterChain))
           /\ AfterChain # <<>> /\ AfterChain[1] = new
           /\ Elems(AfterChain) = {new} \cup Elems(Tail(todo))
           /\ new.kind = todo[1].kind /\ Len(new.chains) = Len(todo[1].chains) - 1
           /\ Len(new.chains) \in Nat
           /\ \A h : Has(new, h) => Has(todo[1], h)
           /\ todo[1].chains[1] = <<>> => \A h : Has(todo[1], h) => Has(new, h)
           /\ todo[1].chains[1] # <<>> =>
                /\ todo[1].chains[1][1] \in HooksFor(todo[1].kind) \cap HookNames
                /\ Has(todo[1], todo[1].chains[1][1]) /\ ~Has(new, todo[1].chains[1][1])
<1>1. PICK new \in Steps :
        /\ AfterChain = [todo EXCEPT ![1] = new]
        /\ new.kind = todo[1].kind /\ Len(new.chains) = Len(todo[1].chains) - 1
        /\ Len(new.chains) \in Nat
        /\ Fits(new) /\ Distinct(new)
        /\ \A h : Has(new, h) => Has(todo[1], h)
        /\ todo[1].chains[1] = <<>> => \A h : Has(todo[1], h) => Has(new, h)
        /\ todo[1].chains[1] # <<>> =>
             /\ todo[1].chains[1][1] \in HookNames /\ Has(todo[1], todo[1].chains[1][1])
             /\ ~Has(new, todo[1].chains[1][1])
  BY AfterChainFacts
<1>2. \A h \in HookNames : Has(new, h) => Has(todo[1], h)
  BY <1>1
<1>3. /\ Proper([todo EXCEPT ![1] = new], 1, 6)
      /\ OnePost(todo) => OnePost([todo EXCEPT ![1] = new])
      /\ [todo EXCEPT ![1] = new] # <<>> /\ [todo EXCEPT ![1] = new][1] = new
      /\ Elems([todo EXCEPT ![1] = new]) = {new} \cup Elems(Tail(todo))
  BY <1>1, <1>2, ReplaceFacts
<1>4. todo[1].chains[1] # <<>> => todo[1].chains[1][1] \in HooksFor(todo[1].kind)
  BY <1>1, FrontFacts DEF Fits
<1> QED
  BY <1>1, <1>3, <1>4

(* A call adds one entry to the record of calls.                           *)
Outcomes == {"next", "write", "fork", "halt", "throw"}
Callers == HookNames \cup {"handler"}
Bodies == HookNames \cup {"none", "handler", "default"}
Passed(g) == \E j \in DOMAIN ran : ran[j].hook = g /\ ran[j].did \in {"next", "write", "fork"}

(* A call of a hook that throws, halts or passes is appended to the record. *)
LEMMA DidFacts ==
  ASSUME ran \in Seq(Calls1), draft \in Bodies,
         NEW h \in Callers, NEW what \in Outcomes, Did(h, what)
  PROVE  /\ ran' \in Seq(Calls1) /\ Len(ran) \in Nat /\ Len(ran') = Len(ran) + 1
         /\ DOMAIN ran = 1 .. Len(ran) /\ DOMAIN ran' = 1 .. Len(ran) + 1
         /\ \A i \in 1 .. Len(ran) : ran'[i] = ran[i]
         /\ ran'[Len(ran) + 1] = [hook |-> h, did |-> what, saw |-> draft]
<1> DEFINE e == [hook |-> h, did |-> what, saw |-> draft]
<1>1. e \in Calls1
  BY DEF Calls1, Bodies, Callers, Outcomes
<1>2. ran' = Append(ran, e)
  BY DEF Did
<1> HIDE DEF e
<1>3. /\ ran' \in Seq(Calls1) /\ Len(ran') = Len(ran) + 1
      /\ \A i \in 1 .. Len(ran) : ran'[i] = ran[i]
      /\ ran'[Len(ran) + 1] = e
  BY <1>1, <1>2, AppendProperties
<1>4. Len(ran) \in Nat /\ DOMAIN ran = 1 .. Len(ran) /\ DOMAIN ran' = 1 .. Len(ran')
  BY <1>3, LenProperties
<1> QED
  BY <1>3, <1>4 DEF e

(* What the record says of the new call, and of the calls before.          *)
LEMMA DidWhat ==
  ASSUME ran \in Seq(Calls1), draft \in Bodies,
         NEW h \in Callers, NEW what \in Outcomes, Did(h, what)
  PROVE  /\ \A x : Ran(x)' <=> Ran(x) \/ x = h
         /\ \A x : Threw(x)' <=> Threw(x) \/ (x = h /\ what = "throw")
         /\ \A x : Wrote(x)' <=> Wrote(x) \/ (x = h /\ what \in {"write", "fork"})
         /\ \A x : Passed(x)' <=> Passed(x) \/ (x = h /\ what \in {"next", "write", "fork"})
<1>1. /\ Len(ran) \in Nat
      /\ DOMAIN ran = 1 .. Len(ran) /\ DOMAIN ran' = 1 .. Len(ran) + 1
      /\ \A i \in 1 .. Len(ran) : ran'[i] = ran[i]
      /\ ran'[Len(ran) + 1] = [hook |-> h, did |-> what, saw |-> draft]
  BY DidFacts
<1>2. \A i \in DOMAIN ran' : i \in DOMAIN ran \/ i = Len(ran) + 1
  BY <1>1
<1>3. DOMAIN ran \subseteq DOMAIN ran' /\ Len(ran) + 1 \in DOMAIN ran'
  BY <1>1
<1>4. /\ \A i \in DOMAIN ran : ran'[i].hook = ran[i].hook /\ ran'[i].did = ran[i].did
      /\ ran'[Len(ran) + 1].hook = h /\ ran'[Len(ran) + 1].did = what
  BY <1>1
<1> QED
  BY <1>2, <1>3, <1>4 DEF Ran, Threw, Wrote, Passed

-----------------------------------------------------------------------------
(* Every variable keeps its type.                                          *)
Types ==
  /\ mode \in Modes
  /\ Proper(todo, 1, 6)
  /\ ctxs \in Seq(SUBSET Callers)
  /\ cur \in 1 .. Len(ctxs) /\ work \in 1 .. Len(ctxs)
  /\ resp \in Bodies /\ draft \in Bodies
  /\ failed \in BOOLEAN
  /\ ran \in Seq(Calls1)
  /\ reply \in [state : {"waiting", "sent", "rejected"}, body : Bodies \cup {"aborted", "redirect"},
                applied : SUBSET Callers]
  /\ reply.state # "waiting" => todo = <<>>

(* What applySet sends is a body, and mutations of the set it applies.     *)
LEMMA AppliedTyped ==
  ASSUME NEW b \in Bodies, NEW set \in SUBSET Callers
  PROVE  /\ Body(b, set) \in Bodies \cup {"aborted", "redirect"}
         /\ Delivered(set) \in SUBSET Callers
BY DEF Body, Delivered

(* A guard or a response hook that lets the request go on.                 *)
LEMMA ContinuesFacts ==
  ASSUME Types, NEW h \in HookNames, Continues(h)
  PROVE  \E what \in {"next", "write", "fork"} :
           /\ Did(h, what)
           /\ ctxs' \in Seq(SUBSET Callers) /\ work' \in 1 .. Len(ctxs')
           /\ Len(ctxs') >= Len(ctxs)
           /\ \A c \in 1 .. Len(ctxs) : ctxs[c] \subseteq ctxs'[c]
           /\ \A c \in 1 .. Len(ctxs') : \/ c \in 1 .. Len(ctxs) /\ ctxs'[c] = ctxs[c]
                                         \/ what # "next" /\ ctxs'[c] = ctxs[work] \cup {h}
           /\ what = "next" => ctxs' = ctxs /\ work' = work
           /\ what # "next" => ctxs'[work'] = ctxs[work] \cup {h}
<1>1. /\ ctxs \in Seq(SUBSET Callers) /\ work \in 1 .. Len(ctxs) /\ Len(ctxs) \in Nat
      /\ ctxs[work] \cup {h} \in SUBSET Callers
  <2>1. ctxs \in Seq(SUBSET Callers) /\ work \in 1 .. Len(ctxs)
    BY DEF Types
  <2> QED
    BY <2>1 DEF Callers
<1>2. CASE Did(h, "next") /\ UNCHANGED <<ctxs, work>>
  BY <1>1, <1>2
<1>3. CASE Did(h, "write") /\ ctxs' = [ctxs EXCEPT ![work] = @ \cup {h}] /\ UNCHANGED work
  <2> DEFINE set == ctxs[work] \cup {h}
  <2>1. ctxs' = [ctxs EXCEPT ![work] = set] /\ set \in SUBSET Callers
    BY <1>1, <1>3
  <2> HIDE DEF set
  <2>2. /\ ctxs' \in Seq(SUBSET Callers) /\ Len(ctxs') = Len(ctxs)
        /\ \A c \in 1 .. Len(ctxs) : ctxs'[c] = IF c = work THEN set ELSE ctxs[c]
    BY <1>1, <2>1, ExceptSeq
  <2> QED
    BY <1>1, <1>3, <2>2 DEF set
<1>4. CASE Did(h, "fork") /\ ctxs' = Append(ctxs, ctxs[work] \cup {h}) /\ work' = Len(ctxs) + 1
  <2>1. /\ ctxs' \in Seq(SUBSET Callers) /\ Len(ctxs') = Len(ctxs) + 1
        /\ \A c \in 1 .. Len(ctxs) : ctxs'[c] = ctxs[c]
        /\ ctxs'[Len(ctxs) + 1] = ctxs[work] \cup {h}
    BY <1>1, <1>4, AppendProperties
  <2> QED
    BY <1>1, <1>4, <2>1
<1> QED
  BY <1>2, <1>3, <1>4 DEF Continues

(* The front of the list and the hook that is called.                      *)
LEMMA CallFacts ==
  ASSUME Types, NEW kind \in Kinds, NEW h, Calls(kind, h)
  PROVE  /\ todo # <<>> /\ todo[1].kind = kind /\ reply.state = "waiting"
         /\ todo[1].chains # <<>> /\ todo[1].chains[1] # <<>> /\ h = todo[1].chains[1][1]
         /\ h \in HookNames /\ h \in HooksFor(kind) /\ h \in Callers
<1>1. /\ todo # <<>> /\ todo[1].kind = kind /\ reply.state = "waiting"
      /\ todo[1].chains # <<>> /\ todo[1].chains[1] # <<>> /\ h = todo[1].chains[1][1]
  BY DEF Calls, At
<1>2. h \in HookNames /\ h \in HooksFor(kind)
  BY <1>1, HookGone DEF Types
<1> QED
  BY <1>1, <1>2 DEF Callers

(* The steps that remain are proper after each action.                     *)
LEMMA Throwing ==
  ASSUME Types, Fails, reply.state = "waiting"
  PROVE  /\ Proper(todo', 1, 6) /\ cur' \in 1 .. Len(ctxs) /\ work' \in 1 .. Len(ctxs)
         /\ failed' \in BOOLEAN
         /\ reply'.state # "waiting" => todo' = <<>>
         /\ reply' \in [state : {"waiting", "sent", "rejected"}, body : Bodies \cup {"aborted", "redirect"},
                        applied : SUBSET Callers]
         /\ mode \in Routes => failed' /\ reply' = reply
<1>1. CASE mode \in Routes
  <2>1. failed' = TRUE /\ todo' = ErrorPlan /\ reply' = reply /\ work' = cur'
        /\ cur' = IF mode \in App THEN cur ELSE 1
    BY <1>1 DEF Fails
  <2>2. Proper(todo', 1, 6)
    BY <2>1, ErrorFacts, WiderRanks DEF Types
  <2>3. cur' \in 1 .. Len(ctxs)
    <3>1. Len(ctxs) \in Nat /\ cur \in 1 .. Len(ctxs)
      BY DEF Types
    <3> QED
      BY <2>1, <3>1
  <2> QED
    BY <2>1, <2>2, <2>3 DEF Types
<1>2. CASE mode \notin Routes
  <2>1. /\ reply' = [reply EXCEPT !.state = "rejected"] /\ todo' = <<>>
        /\ failed' = failed /\ cur' = cur /\ work' = work
    BY <1>2 DEF Fails
  <2>2. /\ reply \in [state : {"waiting", "sent", "rejected"}, body : Bodies \cup {"aborted", "redirect"},
                      applied : SUBSET Callers]
        /\ cur \in 1 .. Len(ctxs) /\ work \in 1 .. Len(ctxs) /\ failed \in BOOLEAN
    BY DEF Types
  <2>3. reply' \in [state : {"waiting", "sent", "rejected"}, body : Bodies \cup {"aborted", "redirect"},
                    applied : SUBSET Callers]
    BY <2>1, <2>2
  <2> QED
    BY <1>2, <2>1, <2>2, <2>3, Nothing
<1> QED
  BY <1>1, <1>2

(* The initial states are well-typed.                                      *)
LEMMA Initially == Init => Types
<1> SUFFICES ASSUME Init PROVE Types
  OBVIOUS
<1>1. mode \in Modes /\ todo = Plan /\ Proper(todo, 1, 6)
  BY PlanFacts DEF Init
<1>2. ctxs \in Seq(SUBSET Callers) /\ cur \in 1 .. Len(ctxs) /\ work \in 1 .. Len(ctxs)
  <2>1. ctxs = <<{}>> /\ cur = 1 /\ work = 1
    BY DEF Init
  <2> QED
    BY <2>1
<1>3. resp \in Bodies /\ draft \in Bodies
  BY DEF Init, Bodies
<1>4. failed \in BOOLEAN /\ ran = <<>>
  BY DEF Init
<1>5. /\ reply \in [state : {"waiting", "sent", "rejected"}, body : Bodies \cup {"aborted", "redirect"},
                    applied : SUBSET Callers]
      /\ reply.state = "waiting"
  BY DEF Init, Bodies
<1> QED
  BY <1>1, <1>2, <1>3, <1>4, <1>5 DEF Types

(* A list that loses its first step, or all, stays proper. *)
LEMMA Shortened ==
  ASSUME Types, todo # <<>>
  PROVE  Proper(Tail(todo), 1, 6) /\ Proper(<<>>, 1, 6)
  BY TailFacts, Nothing DEF Types

(* Every step keeps the types and the order of the steps ahead.            *)
LEMMA TypesKept == Types /\ [Next]_vars => Types'
<1> SUFFICES ASSUME Types, [Next]_vars PROVE Types'
  OBVIOUS
<1>0. \A kind : At(kind) => todo # <<>> /\ reply.state = "waiting"
  BY DEF At
<1>t. \A kind : At(kind) => Proper(Tail(todo), 1, 6) /\ Proper(<<>>, 1, 6)
  BY <1>0, Shortened
<1>k. {"guard", "post", "error", "observe"} \subseteq Kinds
  BY DEF Kinds
<1>1. CASE Aborted
  BY <1>1, Nothing DEF Types, Aborted, Send, Bodies
<1>2. ASSUME NEW kind \in {"guard", "post"}, NEW h \in HookNames, HookContinues(kind, h)
      PROVE  Types'
  <2>1. Calls(kind, h) /\ Continues(h) /\ todo' = AfterHook
    BY <1>2 DEF HookContinues
  <2>2. Proper(todo', 1, 6)
    BY <1>k, <2>1, CallFacts, HookGone DEF Types
  <2>3. PICK what \in {"next", "write", "fork"} :
          Did(h, what) /\ ctxs' \in Seq(SUBSET Callers) /\ work' \in 1 .. Len(ctxs')
          /\ Len(ctxs') >= Len(ctxs)
    BY <2>1, ContinuesFacts
  <2>4. ran' \in Seq(Calls1)
    BY <1>k, <2>1, <2>3, CallFacts, DidFacts DEF Types, Outcomes
  <2>5. cur \in 1 .. Len(ctxs')
    <3>1. Len(ctxs) \in Nat /\ Len(ctxs') \in Nat /\ cur \in 1 .. Len(ctxs)
      BY <2>3, LenProperties DEF Types
    <3> QED
      BY <2>3, <3>1
  <2>6. UNCHANGED <<mode, cur, resp, draft, failed, reply>>
    BY <1>2 DEF HookContinues
  <2>7. reply.state = "waiting"
    BY <1>0, <2>1 DEF Calls
  <2> QED
    BY <2>2, <2>3, <2>4, <2>5, <2>6, <2>7 DEF Types
<1>3. ASSUME NEW kind \in {"guard", "post"}, NEW h \in HookNames, HookThrows(kind, h)
      PROVE  Types'
  <2>1. Calls(kind, h) /\ Did(h, "throw") /\ Fails /\ UNCHANGED <<mode, ctxs, resp, draft>>
    BY <1>3 DEF HookThrows
  <2>2. reply.state = "waiting" /\ h \in Callers
    BY <1>k, <2>1, CallFacts
  <2>3. ran' \in Seq(Calls1)
    BY <2>1, <2>2, DidFacts DEF Types, Outcomes
  <2> QED
    BY <2>1, <2>2, <2>3, Throwing DEF Types
<1>4. ASSUME NEW h \in HookNames, GuardHalts(h) PROVE Types'
  <2>1. /\ Calls("guard", h) /\ Did(h, "halt") /\ resp' = h /\ draft' = h /\ cur' = work
        /\ todo' = HaltPlan /\ UNCHANGED <<mode, ctxs, work, failed, reply>>
    BY <1>4 DEF GuardHalts
  <2>2. reply.state = "waiting" /\ h \in Callers
    BY <1>k, <2>1, CallFacts
  <2>3. ran' \in Seq(Calls1)
    BY <2>1, <2>2, DidFacts DEF Types, Outcomes
  <2>4. Proper(todo', 1, 6)
    BY <2>1, HaltFacts, WiderRanks DEF Types
  <2> QED
    BY <2>1, <2>2, <2>3, <2>4 DEF Types, Bodies
<1>5. ASSUME NEW h \in HookNames, PostReplaces(h) PROVE Types'
  <2>1. /\ Calls("post", h) /\ Did(h, "halt") /\ draft' = h /\ todo' = AfterChain
        /\ UNCHANGED <<mode, ctxs, cur, work, resp, failed, reply>>
    BY <1>5 DEF PostReplaces
  <2>2. reply.state = "waiting" /\ h \in Callers
    BY <1>k, <2>1, CallFacts
  <2>3. ran' \in Seq(Calls1)
    BY <2>1, <2>2, DidFacts DEF Types, Outcomes
  <2>4. Proper(todo', 1, 6)
    BY <1>k, <2>1, CallFacts, ChainGone DEF Types
  <2> QED
    BY <2>1, <2>2, <2>3, <2>4 DEF Types, Bodies
<1>6. ASSUME NEW h \in HookNames, PostThrowsOnError(h) PROVE Types'
  <2>1. /\ Calls("post", h) /\ Did(h, "throw") /\ draft' = resp /\ work' = cur /\ todo' = Tail(todo)
        /\ UNCHANGED <<mode, ctxs, cur, resp, failed, reply>>
    BY <1>6 DEF PostThrowsOnError
  <2>2. reply.state = "waiting" /\ h \in Callers /\ todo # <<>>
    BY <1>k, <2>1, CallFacts
  <2>3. ran' \in Seq(Calls1)
    BY <2>1, <2>2, DidFacts DEF Types, Outcomes
  <2> QED
    BY <2>1, <2>2, <2>3, Shortened DEF Types
<1>7. ASSUME NEW h \in HookNames, ErrorPasses(h) PROVE Types'
  <2>1. /\ Calls("error", h) /\ Did(h, "next") /\ todo' = AfterHook
        /\ UNCHANGED <<mode, ctxs, cur, work, resp, draft, failed, reply>>
    BY <1>7 DEF ErrorPasses
  <2>2. reply.state = "waiting" /\ h \in Callers
    BY <1>k, <2>1, CallFacts
  <2>3. ran' \in Seq(Calls1)
    BY <2>1, <2>2, DidFacts DEF Types, Outcomes
  <2>4. Proper(todo', 1, 6)
    BY <1>k, <2>1, CallFacts, HookGone DEF Types
  <2> QED
    BY <2>1, <2>2, <2>3, <2>4 DEF Types
<1>8. ASSUME NEW h \in HookNames, ErrorAnswers(h) PROVE Types'
  <2>1. /\ Calls("error", h) /\ Did(h, "halt") /\ resp' = h /\ draft' = h /\ todo' = Tail(todo)
        /\ UNCHANGED <<mode, ctxs, cur, work, failed, reply>>
    BY <1>8 DEF ErrorAnswers
  <2>2. reply.state = "waiting" /\ h \in Callers /\ todo # <<>>
    BY <1>k, <2>1, CallFacts
  <2>3. ran' \in Seq(Calls1)
    BY <2>1, <2>2, DidFacts DEF Types, Outcomes
  <2> QED
    BY <2>1, <2>2, <2>3, Shortened DEF Types, Bodies
<1>9. ASSUME NEW h \in HookNames, Observes1(h) PROVE Types'
  <2>1. /\ Calls("observe", h) /\ UNCHANGED <<mode, ctxs, cur, work, resp, draft, failed, reply>>
        /\ \E what \in {"next", "halt", "throw"} : Did(h, what)
        /\ todo' \in {AfterHook, Tail(todo)}
    BY <1>9 DEF Observes1
  <2>2. reply.state = "waiting" /\ h \in Callers /\ todo # <<>>
    BY <1>k, <2>1, CallFacts
  <2>3. ran' \in Seq(Calls1)
    BY <2>1, <2>2, DidFacts DEF Types, Outcomes
  <2>4. Proper(AfterHook, 1, 6)
    BY <1>k, <2>1, CallFacts, HookGone DEF Types
  <2> QED
    BY <2>1, <2>2, <2>3, <2>4, Shortened DEF Types
<1>10. CASE ChainEnds
  <2>1. /\ todo # <<>> /\ reply.state = "waiting" /\ todo[1].chains # <<>> /\ todo' = AfterChain
        /\ UNCHANGED <<mode, ctxs, cur, work, resp, draft, failed, ran, reply>>
    BY <1>0, <1>10 DEF ChainEnds
  <2>2. Proper(todo', 1, 6)
    BY <2>1, ChainGone DEF Types
  <2> QED
    BY <2>1, <2>2 DEF Types
<1>11. CASE StepEnds
  <2>1. /\ todo # <<>> /\ reply.state = "waiting" /\ todo' = Tail(todo)
        /\ cur' \in {cur, work} /\ work' = cur' /\ resp' = draft
        /\ UNCHANGED <<mode, ctxs, draft, failed, ran, reply>>
    BY <1>0, <1>11 DEF StepEnds
  <2> QED
    BY <2>1, Shortened DEF Types
<1>12. CASE Validated
  BY <1>0, <1>t, <1>12 DEF Validated, Types
<1>13. CASE HandlerReturns
  <2>1. PICK what \in {"next", "write"} :
          /\ Did("handler", what)
          /\ ctxs' = IF what = "write" THEN [ctxs EXCEPT ![work] = @ \cup {"handler"}] ELSE ctxs
    BY <1>13 DEF HandlerReturns
  <2>2. /\ todo # <<>> /\ reply.state = "waiting" /\ resp' = "handler" /\ draft' = "handler"
        /\ todo' = Tail(todo) /\ UNCHANGED <<mode, cur, work, failed, reply>>
    BY <1>0, <1>13 DEF HandlerReturns
  <2>3. ran' \in Seq(Calls1)
    BY <2>1, DidFacts DEF Types, Outcomes, Callers
  <2>4. ctxs' \in Seq(SUBSET Callers) /\ Len(ctxs') = Len(ctxs)
    <3>1. ctxs \in Seq(SUBSET Callers) /\ work \in 1 .. Len(ctxs)
      BY DEF Types
    <3>2. ctxs[work] \cup {"handler"} \in SUBSET Callers
      BY <3>1 DEF Callers
    <3> QED
      BY <2>1, <3>1, <3>2, ExceptSeq
  <2> QED
    BY <2>2, <2>3, <2>4, Shortened DEF Types, Bodies
<1>14. CASE ValidateThrows
  <2>1. reply.state = "waiting" /\ Fails /\ UNCHANGED <<mode, ctxs, resp, draft, ran>>
    BY <1>0, <1>14 DEF ValidateThrows
  <2> QED
    BY <2>1, Throwing DEF Types
<1>15. CASE HandlerThrows
  <2>1. reply.state = "waiting" /\ Fails /\ Did("handler", "throw") /\ UNCHANGED <<mode, ctxs, resp, draft>>
    BY <1>0, <1>15 DEF HandlerThrows
  <2>2. ran' \in Seq(Calls1)
    BY <2>1, DidFacts DEF Types, Outcomes, Callers
  <2> QED
    BY <2>1, <2>2, Throwing DEF Types
<1>16. CASE ErrorDefault
  <2>1. /\ At("error") /\ resp' = "default" /\ draft' = "default"
        /\ UNCHANGED <<mode, ctxs, cur, work, failed>>
        /\ \/ todo' = Tail(todo) /\ UNCHANGED reply
           \/ todo' = <<>> /\ Send("default", {})
    BY <1>16 DEF ErrorDefault
  <2>2. ran' \in Seq(Calls1)
    <3>1. ASSUME NEW h, Calls("error", h), Did(h, "throw") PROVE ran' \in Seq(Calls1)
      BY <1>k, <3>1, CallFacts, DidFacts DEF Types, Outcomes
    <3> QED
      BY <1>16, <3>1 DEF ErrorDefault, Types
  <2>3. Proper(todo', 1, 6)
    BY <1>t, <2>1
  <2> QED
    BY <1>0, <2>1, <2>2, <2>3 DEF Types, Bodies, Send
<1>17. CASE ObserveEnds
  BY <1>0, <1>t, <1>17 DEF ObserveEnds, Types
<1>18. CASE Applies
  <2>1. ctxs[cur] \in SUBSET Callers
    BY DEF Types
  <2> QED
    BY <1>t, <1>18, <2>1, AppliedTyped DEF Applies, Types, Send
<1>19. CASE ApplyThrows
  <2>1. reply.state = "waiting" /\ UNCHANGED <<mode, ctxs, resp, draft, ran>>
    BY <1>0, <1>19 DEF ApplyThrows
  <2>2. CASE ~failed
    <3>1. Fails
      BY <1>19, <2>2 DEF ApplyThrows
    <3> QED
      BY <2>1, <3>1, Throwing DEF Types
  <2>3. CASE failed
    <3>1. /\ Send("default", {}) \/ reply' = [reply EXCEPT !.state = "rejected"]
          /\ todo' = <<>> /\ UNCHANGED <<cur, work, failed>>
      BY <1>19, <2>3 DEF ApplyThrows
    <3>2. /\ reply' \in [state : {"waiting", "sent", "rejected"}, body : Bodies \cup {"aborted", "redirect"},
                         applied : SUBSET Callers]
      BY <3>1 DEF Types, Send, Bodies
    <3> QED
      BY <2>1, <3>1, <3>2, Nothing DEF Types
  <2> QED
    BY <2>2, <2>3
<1>20. CASE UNCHANGED vars
  BY <1>20 DEF vars, Types
<1> QED
  BY <1>1, <1>2, <1>3, <1>4, <1>5, <1>6, <1>7, <1>8, <1>9, <1>10, <1>11, <1>12, <1>13, <1>14,
     <1>15, <1>16, <1>17, <1>18, <1>19, <1>20 DEF Next, Done

-----------------------------------------------------------------------------
(* What every step does to the list of steps.                              *)
LEMMA HookWithin ==
  ASSUME Types, todo # <<>>, todo[1].chains # <<>>
  PROVE  /\ todo[1].chains[1] # <<>> => Within(AfterHook, todo)
         /\ Within(AfterChain, todo)
<1>1. todo[1] \in Elems(todo) /\ Elems(Tail(todo)) \subseteq Elems(todo)
  BY FrontFacts, TailFacts DEF Types
<1>2. Within(Tail(todo), todo)
  BY TailFacts DEF Types
<1>3. todo[1] \in Steps /\ Len(todo[1].chains) \in Nat
  BY FrontFacts DEF Types, Steps
<1>4. ASSUME todo[1].chains[1] # <<>> PROVE Within(AfterHook, todo)
  <2>1. PICK new \in Steps :
          /\ Elems(AfterHook) = {new} \cup Elems(Tail(todo))
          /\ new.kind = todo[1].kind /\ Len(new.chains) = Len(todo[1].chains)
          /\ \A h : Has(todo[1], h) <=> h = todo[1].chains[1][1] \/ Has(new, h)
    BY <1>4, HookGone DEF Types
  <2>2. Len(new.chains) <= Len(todo[1].chains)
    BY <1>3, <2>1
  <2> QED
    BY <1>1, <1>2, <2>1, <2>2 DEF Within
<1>5. Within(AfterChain, todo)
  <2>1. PICK new \in Steps :
          /\ Elems(AfterChain) = {new} \cup Elems(Tail(todo))
          /\ new.kind = todo[1].kind /\ Len(new.chains) = Len(todo[1].chains) - 1
          /\ \A h : Has(new, h) => Has(todo[1], h)
    BY ChainGone DEF Types
  <2>2. Len(new.chains) <= Len(todo[1].chains)
    BY <1>3, <2>1
  <2> QED
    BY <1>1, <1>2, <2>1, <2>2 DEF Within
<1> QED
  BY <1>4, <1>5

(* The steps ahead are among themselves.                                   *)
LEMMA Itself == Types => Within(todo, todo)
<1> SUFFICES ASSUME Types PROVE Within(todo, todo)
  OBVIOUS
<1>1. \A x \in Elems(todo) : x \in Steps /\ Len(x.chains) \in Nat
  <2>1. todo \in Seq(Steps)
    BY DEF Types, Proper
  <2>2. \A x \in Elems(todo) : x \in Steps
    BY <2>1 DEF Elems
  <2>3. \A x \in Steps : Len(x.chains) \in Nat
    BY DEF Steps
  <2> QED
    BY <2>2, <2>3
<1>2. \A x \in Elems(todo) : Len(x.chains) <= Len(x.chains)
  BY <1>1
<1> QED
  BY <1>2 DEF Within

(* What a step of the pipeline may do to the steps ahead. *)
LEMMA Moves ==
  ASSUME Types, [Next]_vars
  PROVE  /\ mode' = mode /\ poison' = poison
         /\ \/ todo' \in {<<>>, ErrorPlan} \/ Within(todo', todo)
            \/ todo' = HaltPlan /\ At("guard")
<1>0. \A kind : At(kind) => Within(Tail(todo), todo)
  BY TailFacts DEF At, Types
<1>1. \A kind, h : Calls(kind, h) =>
        Within(Tail(todo), todo) /\ Within(AfterHook, todo) /\ Within(AfterChain, todo)
  BY <1>0, HookWithin DEF Calls, At
<1>2. Fails => todo' \in {<<>>, ErrorPlan}
  BY DEF Fails
<1>3. Next => mode' = mode /\ poison' = poison
  BY DEF Next, Aborted, HookContinues, HookThrows, GuardHalts, PostReplaces, PostThrowsOnError,
         ErrorPasses, ErrorAnswers, Observes1, ChainEnds, StepEnds, Validated, HandlerReturns,
         ValidateThrows, HandlerThrows, ErrorDefault, ObserveEnds, Applies, ApplyThrows, Done, vars
<1>4. ASSUME NEW h \in HookNames,
             \/ \E kind \in {"guard", "post"} : HookContinues(kind, h) \/ HookThrows(kind, h)
             \/ GuardHalts(h) \/ PostReplaces(h) \/ PostThrowsOnError(h)
             \/ ErrorPasses(h) \/ ErrorAnswers(h) \/ Observes1(h)
      PROVE  \/ todo' \in {<<>>, ErrorPlan} \/ Within(todo', todo)
             \/ todo' = HaltPlan /\ At("guard")
  BY <1>1, <1>2, <1>4 DEF HookContinues, HookThrows, GuardHalts, PostReplaces, PostThrowsOnError,
         ErrorPasses, ErrorAnswers, Observes1, Calls
<1>5. CASE StepEnds \/ Validated \/ HandlerReturns \/ ErrorDefault \/ ObserveEnds
  BY <1>0, <1>5 DEF StepEnds, Validated, HandlerReturns, ErrorDefault, ObserveEnds
<1>6. CASE Aborted \/ ValidateThrows \/ HandlerThrows \/ Applies \/ ApplyThrows
  BY <1>2, <1>6 DEF Aborted, ValidateThrows, HandlerThrows, Applies, ApplyThrows
<1>7. CASE ChainEnds
  <2>1. /\ todo # <<>> /\ todo[1].chains # <<>> /\ todo' = AfterChain
        /\ mode' = mode /\ poison' = poison
    BY <1>7 DEF ChainEnds, At
  <2> QED
    BY <2>1, HookWithin
<1>8. CASE UNCHANGED vars
  BY <1>8, Itself DEF vars
<1> QED
  BY <1>3, <1>4, <1>5, <1>6, <1>7, <1>8 DEF Next, Done, vars

(* What is left behind does not come back.                                 *)
LEMMA Later ==
  ASSUME Types, [Next]_vars, NEW n \in 1 .. 3, \A x \in Elems(todo) : n <= Rank(x.kind)
  PROVE  \A x \in Elems(todo') : n <= Rank(x.kind)
<1>0. n <= 3 /\ n <= 4 /\ n \in Nat
  OBVIOUS
<1>1. CASE todo' = <<>>
  BY <1>1, Nothing
<1>2. CASE todo' = HaltPlan
  <2>1. \A x \in Elems(HaltPlan) : 4 <= Rank(x.kind) /\ Rank(x.kind) \in Nat
    BY HaltFacts DEF Types, Proper, Ranked, Elems, Rank
  <2> QED
    BY <1>0, <1>2, <2>1
<1>3. CASE todo' = ErrorPlan
  <2>1. \A x \in Elems(ErrorPlan) : 3 <= Rank(x.kind) /\ Rank(x.kind) \in Nat
    BY ErrorFacts DEF Types, Proper, Ranked, Elems, Rank
  <2> QED
    BY <1>0, <1>3, <2>1
<1>4. CASE Within(todo', todo)
  BY <1>4 DEF Within
<1> QED
  BY <1>1, <1>2, <1>3, <1>4, Moves

(* A step of the list and its kind.                                        *)
LEMMA FrontIsFirst ==
  ASSUME Types, NEW kind \in Kinds, At(kind)
  PROVE  /\ todo # <<>> /\ todo[1] \in Elems(todo) /\ todo[1].kind = kind
         /\ \A x \in Elems(todo) : Rank(kind) <= Rank(x.kind)
         /\ Elems(todo) = {todo[1]} \cup Elems(Tail(todo))
  BY FrontFacts, TailFacts DEF Types, At

(* An empty list has no members.                                           *)
LEMMA NoneLeft == Elems(<<>>) = {}
  BY Nothing

-----------------------------------------------------------------------------
(* The handler is gated.                                                   *)
Awaited(g) == \E step \in Elems(todo) : step.kind = "guard" /\ Has(step, g)
HandlerAhead == \E step \in Elems(todo) : step.kind = "handler"
Gated ==
  /\ HandlerGated
  /\ HandlerAhead => \A g \in GuardHooks : Passed(g) \/ Awaited(g)

(* A call that is not the handler's keeps its record.                      *)
LEMMA StillGated ==
  ASSUME Types, HandlerGated, mode' = mode,
         NEW h \in Callers, NEW what \in Outcomes, Did(h, what),
         h = "handler" => \A g \in GuardHooks : Passed(g)
  PROVE  HandlerGated'
<1>1. /\ Len(ran) \in Nat
      /\ DOMAIN ran = 1 .. Len(ran) /\ DOMAIN ran' = 1 .. Len(ran) + 1
      /\ \A i \in 1 .. Len(ran) : ran'[i] = ran[i]
      /\ ran'[Len(ran) + 1] = [hook |-> h, did |-> what, saw |-> draft]
  BY DidFacts DEF Types
<1>2. GuardHooks' = GuardHooks
  BY DEF GuardHooks
<1> SUFFICES ASSUME NEW i \in DOMAIN ran', ran'[i].hook = "handler", NEW g \in GuardHooks
             PROVE  \E j \in 1 .. i - 1 :
                      ran'[j].hook = g /\ ran'[j].did \in {"next", "write", "fork"}
  BY <1>2 DEF HandlerGated
<1>3. CASE i \in 1 .. Len(ran)
  <2>1. PICK j \in 1 .. i - 1 : ran[j].hook = g /\ ran[j].did \in {"next", "write", "fork"}
    BY <1>1, <1>3 DEF HandlerGated
  <2>2. j \in 1 .. Len(ran)
    BY <1>1, <1>3, <2>1
  <2> QED
    BY <1>1, <2>1, <2>2
<1>4. CASE i = Len(ran) + 1
  <2>1. h = "handler"
    BY <1>1, <1>4
  <2>2. PICK j \in DOMAIN ran : ran[j].hook = g /\ ran[j].did \in {"next", "write", "fork"}
    BY <2>1 DEF Passed
  <2>3. j \in 1 .. i - 1 /\ ran'[j] = ran[j]
    BY <1>1, <1>4
  <2> QED
    BY <2>2, <2>3
<1>5. i \in 1 .. Len(ran) \/ i = Len(ran) + 1
  BY <1>1
<1> QED
  BY <1>3, <1>4, <1>5

(* A step that calls nothing cannot break the gate.                        *)
LEMMA StillUngated ==
  ASSUME HandlerGated, mode' = mode, ran' = ran
  PROVE  HandlerGated'
  BY DEF HandlerGated, GuardHooks

(* Who is called by a step: the next hook of the list, or the handler.     *)
LEMMA CallsMade ==
  ASSUME Types, [Next]_vars
  PROVE  \/ ran' = ran
         \/ \E kind \in {"guard", "post", "error", "observe"}, h \in HookNames, what \in Outcomes :
              Calls(kind, h) /\ Did(h, what)
         \/ At("handler") /\ \E what \in {"next", "write", "throw"} : Did("handler", what)
<1> DEFINE Hooked == \E kind \in {"guard", "post", "error", "observe"}, h \in HookNames,
                        what \in Outcomes : Calls(kind, h) /\ Did(h, what)
<1>1. ASSUME NEW kind \in {"guard", "post", "error", "observe"}, NEW h, NEW what \in Outcomes,
             Calls(kind, h), Did(h, what)
      PROVE  Hooked
  <2>1. h \in HookNames
    BY <1>1, CallFacts DEF Kinds
  <2> QED
    BY <1>1, <2>1
<1>2. {"next", "write", "fork", "halt", "throw"} \subseteq Outcomes
  BY DEF Outcomes
<1> HIDE DEF Hooked
<1>3. ASSUME NEW h \in HookNames,
             \/ \E kind \in {"guard", "post"} : HookContinues(kind, h) \/ HookThrows(kind, h)
             \/ GuardHalts(h) \/ PostReplaces(h) \/ PostThrowsOnError(h)
             \/ ErrorPasses(h) \/ ErrorAnswers(h) \/ Observes1(h)
      PROVE  Hooked
  BY <1>1, <1>2, <1>3 DEF HookContinues, Continues, HookThrows, GuardHalts, PostReplaces,
         PostThrowsOnError, ErrorPasses, ErrorAnswers, Observes1
<1>4. CASE StepEnds \/ Validated \/ ObserveEnds \/ ChainEnds
  BY <1>4 DEF StepEnds, Validated, ObserveEnds, ChainEnds
<1>5. CASE Aborted \/ ValidateThrows \/ Applies \/ ApplyThrows
  BY <1>5 DEF Aborted, ValidateThrows, Applies, ApplyThrows
<1>6. CASE HandlerReturns \/ HandlerThrows
  BY <1>6 DEF HandlerReturns, HandlerThrows
<1>7. CASE ErrorDefault
  <2>1. ran' = ran \/ \E h : Calls("error", h) /\ Did(h, "throw")
    BY <1>7 DEF ErrorDefault
  <2>2. ran' = ran \/ Hooked
    BY <1>1, <1>2, <2>1
  <2> QED
    BY <2>2 DEF Hooked
<1>8. CASE UNCHANGED vars
  BY <1>8 DEF vars
<1> QED
  BY <1>3, <1>4, <1>5, <1>6, <1>7, <1>8 DEF Next, Done, Hooked

(* The handler is not the name of a hook.                                  *)
LEMMA HandlerApart == "handler" \notin HookNames /\ "handler" \in Callers
  BY PipelineAssumption DEF PipelineAssumption, Callers

(* When the handler is next, no guard is left.                             *)
LEMMA GuardsOver ==
  ASSUME Types, Gated, At("handler")
  PROVE  \A g \in GuardHooks : Passed(g)
<1>1. /\ todo[1] \in Elems(todo) /\ todo[1].kind = "handler"
      /\ \A x \in Elems(todo) : Rank("handler") <= Rank(x.kind)
  BY FrontIsFirst DEF Kinds
<1>2. Rank("handler") = 2 /\ Rank("guard") = 1
  BY DEF Rank
<1>3. \A x \in Elems(todo) : x.kind # "guard"
  BY <1>1, <1>2
<1> QED
  BY <1>1, <1>3 DEF Gated, HandlerAhead, Awaited

(* No hook has run when a request arrives.                                 *)
LEMMA GatedFirst == Init => Gated
<1> SUFFICES ASSUME Init PROVE Gated
  OBVIOUS
<1>1. ran = <<>> /\ todo = Plan /\ mode \in Modes
  BY DEF Init
<1>2. HandlerGated
  BY <1>1 DEF HandlerGated
<1> QED
  BY <1>1, <1>2, PlanFacts DEF Gated, Awaited

(* A guard that passed stays passed.                                       *)
LEMMA PassedKept ==
  ASSUME Types, [Next]_vars
  PROVE  \A g : Passed(g) => Passed(g)'
<1>1. CASE ran' = ran
  BY <1>1 DEF Passed
<1>2. ASSUME NEW h \in Callers, NEW what \in Outcomes, Did(h, what)
      PROVE  \A g : Passed(g) => Passed(g)'
  BY <1>2, DidWhat DEF Types
<1>3. {"next", "write", "throw"} \subseteq Outcomes /\ HookNames \subseteq Callers
  BY DEF Outcomes, Callers
<1>4. \/ ran' = ran
      \/ \E h \in Callers, what \in Outcomes : Did(h, what)
  BY <1>3, CallsMade, HandlerApart
<1> QED
  BY <1>1, <1>2, <1>4

(* A step that leaves the handler to be called keeps its guards waited for *)
(* or passed.                                                              *)
LEMMA StillAwaited ==
  ASSUME Types, Gated, [Next]_vars, HandlerAhead'
  PROVE  \A g \in GuardHooks : Passed(g)' \/ Awaited(g)'
<1>1. todo' \notin {<<>>, HaltPlan, ErrorPlan}
  <2>1. Proper(HaltPlan, 4, 6) /\ Proper(ErrorPlan, 3, 6)
    BY HaltFacts, ErrorFacts DEF Types
  <2>2. /\ \A x \in Elems(HaltPlan) : x.kind # "handler"
        /\ \A x \in Elems(ErrorPlan) : x.kind # "handler"
    BY <2>1, RanksOf
  <2> QED
    BY <2>2, NoneLeft DEF HandlerAhead
<1>2. Within(todo', todo)
  BY <1>1, Moves
<1>3. HandlerAhead
  BY <1>2 DEF HandlerAhead, Within
<1>4. \A g \in GuardHooks : Passed(g) \/ Awaited(g)
  BY <1>3 DEF Gated
<1>5. \A g : Passed(g) => Passed(g)'
  BY PassedKept
<1>6. Rank("guard") = 1
  BY DEF Rank
<1>7. CASE \A x \in Elems(todo) : 2 <= Rank(x.kind)
  BY <1>4, <1>5, <1>6, <1>7 DEF Awaited
<1>8. CASE todo # <<>> /\ todo[1].kind \in {"guard", "validate"}
  <2>1. Elems(todo) = {todo[1]} \cup Elems(Tail(todo))
    BY <1>8, TailFacts DEF Types
  <2>2. ASSUME todo' = Tail(todo), \A g : ~(todo[1].kind = "guard" /\ Has(todo[1], g))
        PROVE  \A g : Awaited(g) => Awaited(g)'
    BY <2>1, <2>2 DEF Awaited
  <2>3. CASE todo[1].kind = "validate"
    <3>1. ~ \E kind \in {"guard", "post", "error", "observe", "handler", "apply"} : At(kind)
      BY <2>3 DEF At
    <3>2. Aborted \/ Validated \/ ValidateThrows \/ UNCHANGED vars
      BY <3>1 DEF Next, Done, HookContinues, HookThrows, GuardHalts, PostReplaces,
             PostThrowsOnError, ErrorPasses, ErrorAnswers, Observes1, ChainEnds, StepEnds,
             HandlerReturns, HandlerThrows, ErrorDefault, ObserveEnds, Applies, ApplyThrows, Calls
    <3>3. todo' \in {<<>>, ErrorPlan, Tail(todo), todo}
      BY <3>2 DEF Aborted, Validated, ValidateThrows, Fails, vars
    <3>4. CASE todo' = todo
      BY <1>4, <1>5, <3>4 DEF Awaited
    <3> QED
      BY <1>1, <1>4, <1>5, <2>2, <2>3, <3>3, <3>4
  <2>4. CASE todo[1].kind = "guard"
    <3>1. ~ \E kind \in {"validate", "post", "error", "observe", "handler", "apply"} : At(kind)
      BY <2>4 DEF At
    <3>2. \/ Aborted \/ ChainEnds \/ StepEnds \/ UNCHANGED vars
          \/ \E h \in HookNames :
               HookContinues("guard", h) \/ HookThrows("guard", h) \/ GuardHalts(h)
      BY <3>1 DEF Next, Done, HookContinues, HookThrows, GuardHalts, PostReplaces,
             PostThrowsOnError, ErrorPasses, ErrorAnswers, Observes1, Validated, ValidateThrows,
             HandlerReturns, HandlerThrows, ErrorDefault, ObserveEnds, Applies, ApplyThrows, Calls
    <3>3. CASE todo' = todo
      BY <1>4, <1>5, <3>3 DEF Awaited
    <3>4. CASE StepEnds
      <4>1. todo' = Tail(todo) /\ todo[1].chains = <<>>
        BY <3>4 DEF StepEnds
      <4>2. \A g : ~Has(todo[1], g)
        BY <4>1 DEF Has
      <4> QED
        BY <1>4, <1>5, <2>2, <4>1, <4>2
    <3>5. CASE ChainEnds
      <4>1. todo[1].chains # <<>> /\ todo[1].chains[1] = <<>> /\ todo' = AfterChain
        BY <3>5 DEF ChainEnds
      <4>2. PICK new \in Steps :
              /\ Elems(AfterChain) = {new} \cup Elems(Tail(todo)) /\ new.kind = todo[1].kind
              /\ \A h : Has(todo[1], h) => Has(new, h)
        BY <1>8, <4>1, ChainGone DEF Types
      <4>3. \A g : Awaited(g) => Awaited(g)'
        BY <2>1, <4>1, <4>2 DEF Awaited
      <4> QED
        BY <1>4, <1>5, <4>3
    <3>6. ASSUME NEW h \in HookNames, HookContinues("guard", h)
          PROVE  \A g \in GuardHooks : Passed(g)' \/ Awaited(g)'
      <4>1. Calls("guard", h) /\ Continues(h) /\ todo' = AfterHook
        BY <3>6 DEF HookContinues
      <4>2. PICK what \in {"next", "write", "fork"} : Did(h, what)
        BY <4>1 DEF Continues
      <4>3. Passed(h)'
        BY <4>2, DidWhat DEF Types, Callers, Outcomes
      <4>4. /\ todo[1].chains # <<>> /\ todo[1].chains[1] # <<>> /\ h = todo[1].chains[1][1]
        BY <4>1 DEF Calls
      <4>5. PICK new \in Steps :
              /\ Elems(AfterHook) = {new} \cup Elems(Tail(todo)) /\ new.kind = todo[1].kind
              /\ \A g : Has(todo[1], g) <=> g = h \/ Has(new, g)
        BY <1>8, <4>4, HookGone DEF Types
      <4>6. \A g : Awaited(g) => g = h \/ Awaited(g)'
        BY <2>1, <4>1, <4>5 DEF Awaited
      <4> QED
        BY <1>4, <1>5, <4>3, <4>6
    <3>7. CASE todo' \in {<<>>, HaltPlan, ErrorPlan}
      BY <1>1, <3>7
    <3>8. /\ Aborted => todo' = <<>>
          /\ UNCHANGED vars => todo' = todo
          /\ \A h : HookThrows("guard", h) => todo' \in {<<>>, ErrorPlan}
          /\ \A h : GuardHalts(h) => todo' = HaltPlan
      BY DEF Aborted, vars, HookThrows, Fails, GuardHalts
    <3> QED
      BY <3>2, <3>3, <3>4, <3>5, <3>6, <3>7, <3>8
  <2> QED
    BY <1>8, <2>3, <2>4
<1>9. (\A x \in Elems(todo) : 2 <= Rank(x.kind))
      \/ (todo # <<>> /\ todo[1].kind \in {"guard", "validate"})
  <2> SUFFICES ASSUME NEW x \in Elems(todo), ~(2 <= Rank(x.kind))
               PROVE  todo # <<>> /\ todo[1].kind \in {"guard", "validate"}
    OBVIOUS
  <2>1. todo # <<>>
    BY NoneLeft
  <2>2. Rank(todo[1].kind) <= Rank(x.kind)
    BY <2>1, FrontFacts DEF Types
  <2> QED
    BY <2>1, <2>2 DEF Rank
<1> QED
  BY <1>7, <1>8, <1>9

(* Every step keeps the gate.                                              *)
LEMMA GatedKept == Types /\ Gated /\ [Next]_vars => Gated'
<1> SUFFICES ASSUME Types, Gated, [Next]_vars PROVE Gated'
  OBVIOUS
<1>1. HandlerGated /\ mode' = mode
  BY Moves DEF Gated
<1>2. HandlerGated'
  <2>1. CASE ran' = ran
    BY <1>1, <2>1, StillUngated
  <2>2. ASSUME NEW h \in HookNames, NEW what \in Outcomes, Did(h, what)
        PROVE  HandlerGated'
    BY <1>1, <2>2, HandlerApart, StillGated DEF Callers
  <2>3. ASSUME At("handler"), NEW what \in {"next", "write", "throw"}, Did("handler", what)
        PROVE  HandlerGated'
    BY <1>1, <2>3, HandlerApart, GuardsOver, StillGated DEF Outcomes
  <2> QED
    BY <2>1, <2>2, <2>3, CallsMade
<1>3. GuardHooks' = GuardHooks
  BY <1>1 DEF GuardHooks
<1> QED
  BY <1>2, <1>3, StillAwaited DEF Gated

(* The handler runs only when every guard of its way let the request pass. *)
THEOREM HandlerGatedHolds == Spec => []HandlerGated
<1>1. Init => Types /\ Gated
  BY Initially, GatedFirst
<1>2. Types /\ Gated /\ [Next]_vars => (Types /\ Gated)'
  BY TypesKept, GatedKept
<1>3. Types /\ Gated => HandlerGated
  BY DEF Gated
<1> QED
  BY <1>1, <1>2, <1>3, PTL DEF Spec

-----------------------------------------------------------------------------
(* A response hook is called once.                                         *)
OnceInv ==
  /\ PostOnce
  /\ \A h \in PostHooks : Ran(h) =>
       \A step \in Elems(todo) : 3 <= Rank(step.kind) /\ (step.kind = "post" => ~Has(step, h))

(* A hook that is called is one of its kind, and was not called before if  *)
(* it is a response hook.                                                  *)
LEMMA CalledNow ==
  ASSUME Types, OnceInv, NEW kind \in {"guard", "post", "error", "observe"}, NEW h,
         Calls(kind, h)
  PROVE  /\ h \in PostHooks <=> kind = "post"
         /\ h \in PostHooks => ~Ran(h)
<1>0. kind \in Kinds
  BY DEF Kinds
<1>1. /\ todo # <<>> /\ todo[1].kind = kind /\ todo[1].chains # <<>>
      /\ todo[1].chains[1] # <<>> /\ h = todo[1].chains[1][1] /\ h \in HooksFor(kind)
  BY <1>0, CallFacts
<1>2. Has(todo[1], h) /\ todo[1] \in Elems(todo)
  BY <1>1, HookGone, FrontFacts DEF Types
<1>3. h \in PostHooks <=> kind = "post"
  BY <1>1, NamesApart DEF HooksFor
<1> QED
  BY <1>1, <1>2, <1>3 DEF OnceInv

(* No step calls a response hook that has been called.                     *)
LEMMA PostOnceKept ==
  ASSUME Types, OnceInv, [Next]_vars
  PROVE  PostOnce'
<1>1. CASE ran' = ran
  BY <1>1 DEF OnceInv, PostOnce
<1>2. ASSUME NEW h \in Callers, NEW what \in Outcomes, Did(h, what), h \in PostHooks => ~Ran(h)
      PROVE  PostOnce'
  <2>1. /\ Len(ran) \in Nat
        /\ DOMAIN ran = 1 .. Len(ran) /\ DOMAIN ran' = 1 .. Len(ran) + 1
        /\ \A i \in 1 .. Len(ran) : ran'[i] = ran[i]
        /\ ran'[Len(ran) + 1] = [hook |-> h, did |-> what, saw |-> draft]
    BY <1>2, DidFacts DEF Types
  <2>2. \A i \in DOMAIN ran' : i \in DOMAIN ran \/ i = Len(ran) + 1
    BY <2>1
  <2>3. \A i \in DOMAIN ran : ran'[i] = ran[i] /\ (h \in PostHooks => ran[i].hook # h)
    BY <1>2, <2>1 DEF Ran
  <2>4. ran'[Len(ran) + 1].hook = h
    BY <2>1
  <2> QED
    BY <2>2, <2>3, <2>4 DEF OnceInv, PostOnce
<1>3. PostHooks \subseteq HookNames /\ HookNames \subseteq Callers
  BY NamesApart DEF Callers
<1>4. \/ ran' = ran
      \/ \E h \in Callers, what \in Outcomes : Did(h, what) /\ (h \in PostHooks => ~Ran(h))
  <2>1. {"next", "write", "throw"} \subseteq Outcomes
    BY DEF Outcomes
  <2>2. CASE \E kind \in {"guard", "post", "error", "observe"}, h \in HookNames,
               what \in Outcomes : Calls(kind, h) /\ Did(h, what)
    BY <1>3, <2>2, CalledNow
  <2>3. CASE At("handler") /\ \E what \in {"next", "write", "throw"} : Did("handler", what)
    BY <1>3, <2>1, <2>3, HandlerApart
  <2> QED
    BY <2>2, <2>3, CallsMade
<1> QED
  BY <1>1, <1>2, <1>4

(* An error of the response stages, or after them, finds PostRan.          *)
LEMMA RanBefore ==
  ASSUME NEW h \in PostHooks, Ran(h)
  PROVE  PostRan
  BY DEF Ran, PostRan

(* What a response hook that ran leaves: no response step has it again.    *)
LEMMA OldPosts ==
  ASSUME Types, OnceInv, [Next]_vars, NEW h \in PostHooks, Ran(h)
  PROVE  \A step \in Elems(todo') : 3 <= Rank(step.kind) /\ (step.kind = "post" => ~Has(step, h))
<1>1. \A step \in Elems(todo) : 3 <= Rank(step.kind) /\ (step.kind = "post" => ~Has(step, h))
  BY DEF OnceInv
<1>2. \A step \in Elems(todo') : 3 <= Rank(step.kind)
  <2>1. 3 \in 1 .. 3
    OBVIOUS
  <2> QED
    BY <1>1, <2>1, Later
<1>3. ~At("guard")
  <2>1. At("guard") => todo[1] \in Elems(todo) /\ todo[1].kind = "guard"
    BY FrontIsFirst DEF Kinds
  <2>2. Rank("guard") = 1
    BY DEF Rank
  <2> QED
    BY <1>1, <2>1, <2>2
<1>4. \A step \in Elems(ErrorPlan) : step.kind # "post"
  BY RanBefore, ErrorFacts DEF Types
<1>5. h \in HookNames
  BY NamesApart
<1>6. CASE Within(todo', todo)
  BY <1>1, <1>2, <1>5, <1>6 DEF Within
<1>7. CASE todo' = <<>>
  BY <1>7, NoneLeft
<1>8. CASE todo' = ErrorPlan
  BY <1>2, <1>4, <1>8
<1> QED
  BY <1>3, <1>6, <1>7, <1>8, Moves

(* ... and what the one that runs now leaves.                              *)
LEMMA NewPosts ==
  ASSUME Types, [Next]_vars, NEW h \in PostHooks, Calls("post", h)
  PROVE  ran' = ran \/
         \A step \in Elems(todo') : 3 <= Rank(step.kind) /\ (step.kind = "post" => ~Has(step, h))
<1>1. /\ todo # <<>> /\ todo[1].kind = "post" /\ todo[1].chains # <<>>
      /\ todo[1].chains[1] # <<>> /\ h = todo[1].chains[1][1] /\ h \in HookNames
  BY CallFacts DEF Kinds
<1>2. \A step \in Elems(todo') : 3 <= Rank(step.kind)
  <2>1. Rank("post") = 4 /\ 3 \in 1 .. 3
    BY DEF Rank
  <2>2. \A step \in Elems(todo) : 3 <= Rank(step.kind)
    <3>1. \A step \in Elems(todo) : 4 <= Rank(step.kind) /\ Rank(step.kind) \in Nat
      BY <1>1, <2>1, FrontFacts DEF Types, Rank
    <3> QED
      BY <3>1
  <2> QED
    BY <2>1, <2>2, Later
<1>3. \A step \in Elems(Tail(todo)) : step.kind = "post" => ~Has(step, h)
  BY <1>1, TailFacts, HookGone DEF Types
<1>4. \A step \in Elems(AfterHook) : step.kind = "post" => ~Has(step, h)
  <2>1. PICK new \in Steps : Elems(AfterHook) = {new} \cup Elems(Tail(todo)) /\ ~Has(new, h)
    BY <1>1, HookGone DEF Types
  <2> QED
    BY <1>3, <2>1
<1>5. \A step \in Elems(AfterChain) : step.kind = "post" => ~Has(step, h)
  <2>1. PICK new \in Steps : Elems(AfterChain) = {new} \cup Elems(Tail(todo)) /\ ~Has(new, h)
    BY <1>1, ChainGone DEF Types
  <2> QED
    BY <1>3, <2>1
<1>6. \A step \in Elems(ErrorPlan) : step.kind # "post"
  BY <1>1, ErrorFacts DEF Types, PostRan
<1>7. \/ ran' = ran \/ todo' \in {<<>>, Tail(todo), AfterHook, AfterChain, ErrorPlan}
  <2>1. ~ \E kind \in {"validate", "guard", "error", "observe", "handler", "apply"} : At(kind)
    BY <1>1 DEF At
  <2>2. \/ Aborted \/ ChainEnds \/ StepEnds \/ UNCHANGED vars
        \/ \E g \in HookNames :
             HookContinues("post", g) \/ HookThrows("post", g) \/ PostReplaces(g)
             \/ PostThrowsOnError(g)
    BY <2>1 DEF Next, Done, HookContinues, HookThrows, GuardHalts, ErrorPasses, ErrorAnswers,
           Observes1, Validated, ValidateThrows, HandlerReturns, HandlerThrows, ErrorDefault,
           ObserveEnds, Applies, ApplyThrows, Calls
  <2> QED
    BY <2>2 DEF Aborted, ChainEnds, StepEnds, vars, HookContinues, HookThrows, PostReplaces,
           PostThrowsOnError, Fails
<1> QED
  BY <1>2, <1>3, <1>4, <1>5, <1>6, <1>7, NoneLeft

(* Every step keeps that a called response hook is in no step ahead.       *)
LEMMA OnceKept == Types /\ OnceInv /\ [Next]_vars => OnceInv'
<1> SUFFICES ASSUME Types, OnceInv, [Next]_vars PROVE OnceInv'
  OBVIOUS
<1> DEFINE Spent(h) == \A step \in Elems(todo') :
                         3 <= Rank(step.kind) /\ (step.kind = "post" => ~Has(step, h))
<1> SUFFICES ASSUME NEW h \in PostHooks, Ran(h)' PROVE Spent(h)
  BY PostOnceKept DEF OnceInv
<1>1. CASE Ran(h)
  BY <1>1, OldPosts
<1>2. CASE ~Ran(h)
  <2>1. ran' # ran
    BY <1>2 DEF Ran
  <2>2. ASSUME NEW g \in Callers, NEW what \in Outcomes, Did(g, what) PROVE g = h
    BY <1>2, <2>2, DidWhat DEF Types
  <2>3. h \in HookNames /\ HookNames \subseteq Callers
    BY NamesApart DEF Callers
  <2>4. {"next", "write", "throw"} \subseteq Outcomes
    BY DEF Outcomes
  <2>5. PICK kind \in {"guard", "post", "error", "observe"} : Calls(kind, h)
    BY <2>1, <2>2, <2>3, <2>4, CallsMade, HandlerApart
  <2>6. kind = "post"
    BY <2>5, CalledNow
  <2> QED
    BY <2>1, <2>5, <2>6, NewPosts
<1> QED
  BY <1>1, <1>2

-----------------------------------------------------------------------------
(* The plugins see the reply of the app: they did, or need not any more, or *)
(* a step that begins with them is still ahead.                            *)
Settled ==
  \/ Ran(Plugins) \/ Unappliable \/ \E h \in PostHooks : Threw(h)
  \/ reply.state = "sent" /\ reply.body = "aborted"
  \/ reply.state = "rejected"
DecorationAhead == \E step \in Elems(todo) : Decorates(step)
DecInv == mode \in App => Settled \/ DecorationAhead

(* Nothing happens to a request that has been answered.                    *)
LEMMA AnsweredStops ==
  ASSUME Types, [Next]_vars, reply.state # "waiting"
  PROVE  UNCHANGED vars
<1>1. ~ \E kind : At(kind)
  BY DEF At
<1>2. ~Aborted
  BY DEF Aborted
<1> QED
  BY <1>1, <1>2 DEF Next, Done, HookContinues, HookThrows, GuardHalts, PostReplaces,
     PostThrowsOnError, ErrorPasses, ErrorAnswers, Observes1, ChainEnds, StepEnds, Validated,
     HandlerReturns, ValidateThrows, HandlerThrows, ErrorDefault, ObserveEnds, Applies,
     ApplyThrows, Calls

(* What was called, wrote or threw stays on record.                        *)
LEMMA RecordKept ==
  ASSUME Types, [Next]_vars
  PROVE  \A x : (Ran(x) => Ran(x)') /\ (Threw(x) => Threw(x)') /\ (Wrote(x) => Wrote(x)')
<1>1. CASE ran' = ran
  BY <1>1 DEF Ran, Threw, Wrote
<1>2. ASSUME NEW h \in Callers, NEW what \in Outcomes, Did(h, what)
      PROVE  \A x : (Ran(x) => Ran(x)') /\ (Threw(x) => Threw(x)') /\ (Wrote(x) => Wrote(x)')
  BY <1>2, DidWhat DEF Types
<1>3. {"next", "write", "throw"} \subseteq Outcomes /\ HookNames \subseteq Callers
  BY DEF Outcomes, Callers
<1>4. \/ ran' = ran
      \/ \E h \in Callers, what \in Outcomes : Did(h, what)
  BY <1>3, CallsMade, HandlerApart
<1> QED
  BY <1>1, <1>2, <1>4

(* Plugins that ran, or need not run, stay so.                             *)
LEMMA SettledKept ==
  ASSUME Types, [Next]_vars, Settled
  PROVE  Settled'
<1>1. CASE Ran(Plugins)
  BY <1>1, RecordKept DEF Settled
<1>2. CASE Unappliable
  <2>1. PICK p : p = poison
    OBVIOUS
  <2>2. Wrote(p)' /\ poison' = p
    BY <1>2, <2>1, Moves, RecordKept DEF Unappliable
  <2> QED
    BY <2>2 DEF Settled, Unappliable, Wrote
<1>3. CASE \E h \in PostHooks : Threw(h)
  BY <1>3, RecordKept DEF Settled
<1>4. CASE reply.state # "waiting"
  <2>1. UNCHANGED vars
    BY <1>4, AnsweredStops
  <2> QED
    BY <2>1 DEF Settled, vars, Ran, Threw, Unappliable, Wrote
<1> QED
  BY <1>1, <1>2, <1>3, <1>4 DEF Settled

(* The plugins are ahead of a request that arrives.                        *)
LEMMA DecoratedFirst == PluginsFirst /\ Init => DecInv
  BY PlanFacts DEF DecInv, DecorationAhead, Init

(* A step that begins with the plugins calls them, or stays ahead.         *)
LEMMA DecoratedNext ==
  ASSUME Types, OnceInv, PluginsFirst, mode \in App, DecorationAhead, [Next]_vars
  PROVE  Settled' \/ DecorationAhead'
<1>1. PICK step \in Elems(todo) : Decorates(step)
  BY DEF DecorationAhead
<1>2. /\ todo # <<>> /\ todo[1] \in Elems(todo) /\ todo[1] \in Steps
      /\ Elems(todo) = {todo[1]} \cup Elems(Tail(todo))
      /\ \A x \in Elems(todo) : Rank(todo[1].kind) <= Rank(x.kind)
  BY <1>1, NoneLeft, FrontFacts, TailFacts DEF Types
<1>3. step.kind = "post" /\ Rank(todo[1].kind) <= 4
  BY <1>1, <1>2 DEF Decorates, Rank
<1>4. ~At("observe") /\ ~At("apply")
  BY <1>3 DEF At, Rank
<1>5. mode \in Routes
  BY DEF Routes
<1> DEFINE Shrinks == \/ todo' \in {Tail(todo), todo}
                      \/ /\ todo' = AfterHook
                         /\ \E kind, h : Calls(kind, h)
                      \/ /\ todo' = AfterChain
                         /\ todo # <<>> /\ todo[1].chains # <<>>
<1>6. ASSUME step \in Elems(Tail(todo)), Shrinks
      PROVE  DecorationAhead'
  <2>1. CASE todo' \in {Tail(todo), todo}
    BY <1>1, <1>6, <2>1 DEF DecorationAhead
  <2>2. CASE todo' = AfterHook /\ (\E kind, h : Calls(kind, h))
    <3>1. Elems(Tail(todo)) \subseteq Elems(todo')
      BY <2>2, HookGone DEF Types, Calls, At
    <3> QED
      BY <1>1, <1>6, <3>1 DEF DecorationAhead
  <2>3. CASE todo' = AfterChain /\ todo # <<>> /\ todo[1].chains # <<>>
    <3>1. Elems(Tail(todo)) \subseteq Elems(todo')
      BY <2>3, ChainGone DEF Types
    <3> QED
      BY <1>1, <1>6, <3>1 DEF DecorationAhead
  <2> QED
    BY <1>6, <2>1, <2>2, <2>3
<1>7. ASSUME Decorates(todo[1]), todo' # todo, reply'.state # "sent"
      PROVE  Settled'
  <2>1. /\ todo[1].kind = "post" /\ todo[1].chains # <<>> /\ todo[1].chains[1] # <<>>
        /\ todo[1].chains[1][1] = Plugins
    BY <1>7 DEF Decorates
  <2>2. ~ \E kind \in {"validate", "guard", "error", "observe", "handler", "apply"} : At(kind)
    BY <2>1 DEF At
  <2>3. ~ChainEnds /\ ~StepEnds /\ ~Aborted /\ ~UNCHANGED vars
    BY <1>7, <2>1 DEF ChainEnds, StepEnds, Aborted, Send, vars
  <2>4. PICK h \in HookNames :
          \/ HookContinues("post", h) \/ HookThrows("post", h) \/ PostReplaces(h)
          \/ PostThrowsOnError(h)
    BY <2>2, <2>3 DEF Next, Done, HookContinues, HookThrows, GuardHalts, ErrorPasses,
       ErrorAnswers, Observes1, Validated, ValidateThrows, HandlerReturns, HandlerThrows,
       ErrorDefault, ObserveEnds, Applies, ApplyThrows, Calls
  <2>5. Calls("post", h) /\ (Did(h, "throw") \/ Did(h, "halt")) /\ h = Plugins
    BY <2>1, <2>4 DEF HookContinues, HookThrows, PostReplaces, PostThrowsOnError, Calls
  <2>6. Ran(Plugins)'
    BY <2>5, DidWhat DEF Types, Callers, Outcomes
  <2> QED
    BY <2>6 DEF Settled
<1>8. ASSUME Shrinks, reply' = reply
      PROVE  Settled' \/ DecorationAhead'
  <2>1. CASE step \in Elems(Tail(todo))
    BY <1>6, <1>8, <2>1
  <2>2. CASE todo' = todo
    BY <2>2 DEF DecorationAhead
  <2>3. CASE step = todo[1] /\ todo' # todo
    <3>1. reply.state # "sent"
      BY <1>2 DEF Types
    <3> QED
      BY <1>1, <1>7, <1>8, <2>3, <3>1
  <2> QED
    BY <1>1, <1>2, <2>1, <2>2, <2>3
<1>9. ASSUME Fails, ~PostRan PROVE DecorationAhead'
  <2>1. todo' = ErrorPlan
    BY <1>5, <1>9 DEF Fails
  <2> QED
    BY <1>9, <2>1, ErrorFacts DEF DecorationAhead, Types
<1>10. \A kind \in {"guard", "validate", "handler"} : At(kind) => ~PostRan
  <2> SUFFICES ASSUME NEW kind \in {"guard", "validate", "handler"}, At(kind), PostRan
               PROVE  FALSE
    OBVIOUS
  <2>1. todo[1].kind = kind
    BY DEF At
  <2>2. PICK h \in PostHooks : Ran(h)
    BY <2>1 DEF PostRan, Ran
  <2>3. 3 <= Rank(todo[1].kind)
    BY <1>2, <2>2 DEF OnceInv
  <2> QED
    BY <2>1, <2>3 DEF Rank
<1>11. CASE Aborted
  BY <1>11 DEF Aborted, Send, Settled
<1>12. ASSUME NEW kind \in {"guard", "post"}, NEW h \in HookNames, HookThrows(kind, h)
       PROVE  Settled' \/ DecorationAhead'
  <2>1. Calls(kind, h) /\ Did(h, "throw") /\ Fails
    BY <1>12 DEF HookThrows
  <2>2. CASE kind = "guard"
    BY <1>9, <1>10, <2>1, <2>2 DEF Calls
  <2>3. CASE kind = "post"
    <3>1. h \in PostHooks
      BY <2>1, <2>3, CallFacts DEF Kinds, HooksFor
    <3>2. Threw(h)'
      BY <2>1, DidWhat DEF Types, Callers, Outcomes
    <3> QED
      BY <3>1, <3>2 DEF Settled
  <2> QED
    BY <2>2, <2>3
<1>13. ASSUME NEW h \in HookNames, GuardHalts(h) PROVE DecorationAhead'
  <2>1. todo' = HaltPlan
    BY <1>13 DEF GuardHalts
  <2> QED
    BY <2>1, HaltFacts DEF DecorationAhead, Types
<1>14. CASE ValidateThrows \/ HandlerThrows
  BY <1>9, <1>10, <1>14 DEF ValidateThrows, HandlerThrows
<1>15. CASE ErrorDefault
  BY <1>8, <1>15 DEF ErrorDefault
<1>16. CASE ObserveEnds \/ Applies \/ ApplyThrows
  BY <1>4, <1>16 DEF ObserveEnds, Applies, ApplyThrows
<1>17. CASE StepEnds \/ Validated \/ HandlerReturns
  BY <1>8, <1>17 DEF StepEnds, Validated, HandlerReturns
<1>18. CASE ChainEnds
  BY <1>2, <1>8, <1>18 DEF ChainEnds
<1>19. ASSUME NEW h \in HookNames,
              \/ \E kind \in {"guard", "post"} : HookContinues(kind, h)
              \/ PostReplaces(h) \/ PostThrowsOnError(h) \/ ErrorPasses(h) \/ ErrorAnswers(h)
       PROVE  Settled' \/ DecorationAhead'
  <2>1. \A kind : Calls(kind, h) => todo # <<>> /\ todo[1].chains # <<>>
    BY DEF Calls, At
  <2> QED
    BY <1>8, <1>19, <2>1 DEF HookContinues, PostReplaces, PostThrowsOnError, ErrorPasses,
       ErrorAnswers
<1>20. ASSUME NEW h, Observes1(h) PROVE FALSE
  BY <1>4, <1>20 DEF Observes1, Calls
<1>21. CASE UNCHANGED vars
  BY <1>21 DEF vars, DecorationAhead
<1> QED
  BY <1>11, <1>12, <1>13, <1>14, <1>15, <1>16, <1>17, <1>18, <1>19, <1>20, <1>21 DEF Next, Done

(* Every step leaves the plugins called, not needed or ahead.              *)
LEMMA DecoratedKept == PluginsFirst /\ Types /\ OnceInv /\ DecInv /\ [Next]_vars => DecInv'
<1> SUFFICES ASSUME PluginsFirst, Types, OnceInv, DecInv, [Next]_vars, mode \in App
             PROVE  Settled' \/ DecorationAhead'
  BY Moves DEF DecInv
<1> QED
  BY SettledKept, DecoratedNext DEF DecInv

(* Nothing has been called when a request arrives.                         *)
LEMMA OnceFirst == Init => OnceInv
<1> SUFFICES ASSUME Init PROVE OnceInv
  OBVIOUS
<1>1. ran = <<>>
  BY DEF Init
<1> QED
  BY <1>1 DEF OnceInv, PostOnce, Ran

(* A reply of the app is shown to its plugins once, if the composite of the *)
(* plugins is the first afterHandle hook.                                  *)
THEOREM DecoratedOnceHolds ==
  ASSUME PluginsFirst
  PROVE  Spec => []DecoratedOnce
<1> DEFINE Inv == Types /\ OnceInv /\ DecInv
<1>1. Init => Inv
  BY Initially, OnceFirst, DecoratedFirst
<1>2. Inv /\ [Next]_vars => Inv'
  BY TypesKept, OnceKept, DecoratedKept
<1>3. Inv => DecoratedOnce
  <2> SUFFICES ASSUME Types, OnceInv, DecInv PROVE AppDecorates
    BY DEF DecoratedOnce, OnceInv
  <2> SUFFICES ASSUME Sent, mode \in App, ~Unappliable, \A h \in PostHooks : ~Threw(h)
               PROVE  Ran(Plugins)
    BY DEF AppDecorates
  <2>1. todo = <<>>
    BY DEF Sent, Types
  <2>2. ~DecorationAhead
    BY <2>1, NoneLeft DEF DecorationAhead
  <2> QED
    BY <2>2 DEF DecInv, Settled, Sent
<1> QED
  BY <1>1, <1>2, <1>3, PTL DEF Spec

-----------------------------------------------------------------------------
(* A request fails once, by a throw on one of the routes; from then on only *)
(* the error stage and what follows it are left.                           *)
Marked ==
  /\ failed => \A x \in Elems(todo) : 3 <= Rank(x.kind)
  /\ \A x \in Elems(todo) : x.kind = "error" => failed

(* A step leaves failed as it is, or is the failure of a route. *)
LEMMA FailsOrNot ==
  ASSUME Types, Marked, [Next]_vars
  PROVE  \/ /\ failed' = failed
            /\ \/ todo' = <<>> \/ Within(todo', todo)
               \/ todo' = HaltPlan /\ At("guard")
         \/ mode \in Routes /\ Fails /\ ~failed /\ UNCHANGED ctxs
<1> DEFINE Shrinks == \/ todo' = <<>> \/ Within(todo', todo)
                      \/ todo' = HaltPlan /\ At("guard")
<1>0. \A kind : At(kind) => Within(Tail(todo), todo)
  BY TailFacts DEF At, Types
<1>1. \A kind, h : Calls(kind, h) =>
        Within(Tail(todo), todo) /\ Within(AfterHook, todo) /\ Within(AfterChain, todo)
  BY <1>0, HookWithin DEF Calls, At
<1>2. Fails /\ mode \notin Routes => failed' = failed /\ todo' = <<>>
  BY DEF Fails
<1>3. ASSUME NEW h \in HookNames,
             \/ \E kind \in {"guard", "post"} : HookContinues(kind, h)
             \/ GuardHalts(h) \/ PostReplaces(h) \/ PostThrowsOnError(h)
             \/ ErrorPasses(h) \/ ErrorAnswers(h) \/ Observes1(h)
      PROVE  failed' = failed /\ Shrinks
  BY <1>1, <1>3 DEF HookContinues, GuardHalts, PostReplaces, PostThrowsOnError,
         ErrorPasses, ErrorAnswers, Observes1, Calls
<1>4. CASE StepEnds \/ Validated \/ HandlerReturns \/ ErrorDefault \/ ObserveEnds
  BY <1>0, <1>4 DEF StepEnds, Validated, HandlerReturns, ErrorDefault, ObserveEnds
<1>5. CASE Aborted \/ Applies
  BY <1>5 DEF Aborted, Applies
<1>6. CASE ChainEnds
  <2>1. /\ todo # <<>> /\ todo[1].chains # <<>> /\ todo' = AfterChain /\ failed' = failed
    BY <1>6 DEF ChainEnds, At
  <2> QED
    BY <2>1, HookWithin
<1>7. CASE UNCHANGED vars
  BY <1>7, Itself DEF vars
<1>8. ASSUME \/ \E kind \in {"guard", "post"}, h \in HookNames : HookThrows(kind, h)
             \/ ValidateThrows \/ HandlerThrows
      PROVE  Fails /\ ~failed /\ UNCHANGED ctxs
  <2>1. Rank("validate") = 1 /\ Rank("handler") = 2
    BY DEF Rank
  <2>2. At("validate") \/ At("handler") => ~failed
    BY <2>1, FrontIsFirst DEF Marked, Kinds
  <2> QED
    BY <1>8, <2>2 DEF HookThrows, ValidateThrows, HandlerThrows
<1>9. CASE ApplyThrows
  <2>1. CASE failed
    BY <1>9, <2>1 DEF ApplyThrows
  <2>2. CASE ~failed
    <3>1. Fails /\ UNCHANGED ctxs
      BY <1>9, <2>2 DEF ApplyThrows
    <3> QED
      BY <1>2, <2>2, <3>1
  <2> QED
    BY <2>1, <2>2
<1> HIDE DEF Shrinks
<1> QED
  BY <1>2, <1>3, <1>4, <1>5, <1>6, <1>7, <1>8, <1>9 DEF Next, Done, Shrinks

(* Every step keeps that a failed request has no guard or handler ahead.   *)
LEMMA MarkedKept == Types /\ Marked /\ [Next]_vars => Marked'
<1> SUFFICES ASSUME Types, Marked, [Next]_vars PROVE Marked'
  OBVIOUS
<1>1. CASE mode \in Routes /\ Fails
  <2>1. failed' = TRUE /\ todo' = ErrorPlan
    BY <1>1 DEF Fails
  <2>2. \A x \in Elems(ErrorPlan) : 3 <= Rank(x.kind)
    BY ErrorFacts DEF Types, Proper, Ranked, Elems
  <2> QED
    BY <2>1, <2>2 DEF Marked
<1>2. CASE failed' = failed /\ todo' = <<>>
  BY <1>2, NoneLeft DEF Marked
<1>3. CASE failed' = failed /\ Within(todo', todo)
  BY <1>3 DEF Marked, Within
<1>4. CASE failed' = failed /\ todo' = HaltPlan /\ At("guard")
  <2>1. Proper(HaltPlan, 4, 6)
    BY HaltFacts DEF Types
  <2>2. \A x \in Elems(HaltPlan) : x.kind # "error"
    BY <2>1, RanksOf
  <2>3. failed => 3 <= Rank("guard")
    BY <1>4, FrontIsFirst DEF Marked, Kinds
  <2>4. Rank("guard") = 1
    BY DEF Rank
  <2> QED
    BY <1>4, <2>2, <2>3, <2>4 DEF Marked
<1> QED
  BY <1>1, <1>2, <1>3, <1>4, FailsOrNot

(* A request that arrives has not failed.                                  *)
LEMMA MarkedFirst == Init => Marked
  BY PlanFacts DEF Init, Marked

-----------------------------------------------------------------------------
(* Mutations of `set'.  Every context holds only what was written; the      *)
(* context of the running chain holds all of it until the request fails,   *)
(* and outside of the chains it is the context of the pipeline.            *)
Chained == todo # <<>> /\ todo[1].kind \in {"guard", "post"}
Carried ==
  /\ \A c \in 1 .. Len(ctxs) : \A h \in ctxs[c] : Wrote(h)
  /\ reply.state = "waiting" /\ mode \in Routes /\ ~failed =>
       /\ \A h : Wrote(h) => h \in ctxs[work]
       /\ cur = work \/ Chained
  /\ SetDelivered

(* Nothing is written when a request arrives.                              *)
LEMMA CarriedFirst == Init => Carried
<1> SUFFICES ASSUME Init PROVE Carried
  OBVIOUS
<1>1. ran = <<>> /\ ctxs = <<{}>> /\ cur = work /\ reply.state = "waiting"
  BY DEF Init
<1>2. \A h : ~Wrote(h)
  BY <1>1 DEF Wrote
<1>3. Len(ctxs) = 1 /\ ctxs[1] = {}
  BY <1>1
<1> QED
  BY <1>1, <1>2, <1>3 DEF Carried, SetDelivered, Sent

(* A step that neither writes nor touches the contexts, nor answers.       *)
LEMMA SameSet ==
  ASSUME Types, Carried, [Next]_vars, ctxs' = ctxs, reply' = reply, failed' = failed,
         \A h : Wrote(h)' <=> Wrote(h),
         reply.state = "waiting" /\ mode \in Routes /\ ~failed =>
           work' = work /\ (cur' = work' \/ Chained')
  PROVE  Carried'
<1>1. mode' = mode
  BY Moves
<1>2. SetDelivered'
  BY <1>1 DEF Carried, SetDelivered, Sent
<1> QED
  BY <1>1, <1>2 DEF Carried

(* After a failure, or on a way that is no route, only what was written is *)
(* asked for.                                                              *)
LEMMA OnlyWritten ==
  ASSUME Types, [Next]_vars, mode \notin Routes \/ failed',
         \A c \in 1 .. Len(ctxs') : \A h \in ctxs'[c] : Wrote(h)'
  PROVE  Carried'
<1>1. mode' = mode
  BY Moves
<1> QED
  BY <1>1 DEF Carried, SetDelivered

(* Every step carries the mutations of set over.                           *)
LEMMA CarriedKept == Types /\ Marked /\ Carried /\ [Next]_vars => Carried'
<1> SUFFICES ASSUME Types, Marked, Carried, [Next]_vars PROVE Carried'
  OBVIOUS
<1>m. mode' = mode /\ "fallback" \notin Routes
  BY Moves DEF Routes, App
<1>w. \A h : Wrote(h) => Wrote(h)'
  BY RecordKept
<1>s. ASSUME ctxs' = ctxs, mode \notin Routes \/ failed' PROVE Carried'
  BY <1>w, <1>s, OnlyWritten DEF Carried
<1>n. ASSUME ctxs' = ctxs, ran' = ran, reply' = reply, failed' = failed,
             reply.state = "waiting" /\ mode \in Routes /\ ~failed =>
               work' = work /\ (cur' = work' \/ Chained')
      PROVE  Carried'
  BY <1>n, SameSet DEF Wrote
<1>d. ASSUME ctxs' = ctxs, reply' = reply, failed' = failed,
             NEW h \in Callers, NEW what \in {"next", "halt", "throw"}, Did(h, what),
             reply.state = "waiting" /\ mode \in Routes /\ ~failed =>
               work' = work /\ (cur' = work' \/ Chained')
      PROVE  Carried'
  <2>1. \A x : Wrote(x)' <=> Wrote(x)
    BY <1>d, DidWhat DEF Types, Outcomes
  <2> QED
    BY <1>d, <2>1, SameSet
<1>f. ASSUME Fails, ctxs' = ctxs PROVE Carried'
  <2>1. mode \notin Routes \/ failed'
    BY <1>f DEF Fails
  <2> QED
    BY <1>f, <1>s, <2>1
<1>c. ASSUME ~Chained, reply.state = "waiting" /\ mode \in Routes /\ ~failed PROVE cur = work
  BY <1>c DEF Carried
<1>1. CASE Aborted
  <2>1. /\ ctxs' = ctxs /\ ran' = ran /\ reply'.state = "sent" /\ reply'.body = "aborted"
    BY <1>1 DEF Aborted, Send
  <2> QED
    BY <2>1 DEF Carried, SetDelivered, Sent, Wrote
<1>2. ASSUME NEW kind \in {"guard", "post"}, NEW h \in HookNames, HookContinues(kind, h)
      PROVE  Carried'
  <2>1. /\ Calls(kind, h) /\ Continues(h) /\ todo' = AfterHook
        /\ UNCHANGED <<cur, failed, reply>>
    BY <1>2 DEF HookContinues
  <2>2. PICK what \in {"next", "write", "fork"} :
          /\ Did(h, what)
          /\ \A c \in 1 .. Len(ctxs') : \/ c \in 1 .. Len(ctxs) /\ ctxs'[c] = ctxs[c]
                                        \/ what # "next" /\ ctxs'[c] = ctxs[work] \cup {h}
          /\ what = "next" => ctxs' = ctxs /\ work' = work
          /\ what # "next" => ctxs'[work'] = ctxs[work] \cup {h}
    BY <2>1, ContinuesFacts
  <2>3. \A x : Wrote(x)' <=> Wrote(x) \/ (x = h /\ what # "next")
    BY <2>2, DidWhat DEF Types, Callers, Outcomes
  <2>4. reply.state = "waiting" /\ todo # <<>> /\ todo[1].kind = kind
        /\ todo[1].chains # <<>> /\ todo[1].chains[1] # <<>>
    BY <2>1 DEF Calls, At
  <2>5. Chained'
    <3>1. AfterHook # <<>> /\ AfterHook[1].kind = kind
      BY <2>4, HookGone DEF Types
    <3> QED
      BY <2>1, <3>1 DEF Chained
  <2>6. work \in 1 .. Len(ctxs)
    BY DEF Types
  <2>7. \A c \in 1 .. Len(ctxs') : \A x \in ctxs'[c] : Wrote(x)'
    BY <2>2, <2>3, <2>6 DEF Carried
  <2>8. mode \in Routes /\ ~failed => \A x : Wrote(x)' => x \in ctxs'[work']
    BY <2>2, <2>3, <2>4 DEF Carried
  <2>9. SetDelivered'
    BY <2>1, <2>4 DEF SetDelivered, Sent
  <2> QED
    BY <1>m, <2>1, <2>5, <2>7, <2>8, <2>9 DEF Carried
<1>3. ASSUME NEW kind \in {"guard", "post"}, NEW h \in HookNames, HookThrows(kind, h)
      PROVE  Carried'
  BY <1>3, <1>f DEF HookThrows
<1>4. ASSUME NEW h \in HookNames, GuardHalts(h) PROVE Carried'
  BY <1>4, <1>d DEF GuardHalts, Callers
<1>5. ASSUME NEW h \in HookNames, PostReplaces(h) PROVE Carried'
  <2>1. /\ Calls("post", h) /\ Did(h, "halt") /\ todo' = AfterChain
        /\ UNCHANGED <<ctxs, cur, work, failed, reply>>
    BY <1>5 DEF PostReplaces
  <2>2. AfterChain # <<>> /\ AfterChain[1].kind = "post"
    BY <2>1, ChainGone DEF Types, Calls, At
  <2>3. Chained'
    BY <2>1, <2>2 DEF Chained
  <2> QED
    BY <1>d, <2>1, <2>3 DEF Callers
<1>6. ASSUME NEW h \in HookNames, PostThrowsOnError(h) PROVE Carried'
  BY <1>6, <1>s DEF PostThrowsOnError
<1>7. At("error") => failed
  BY FrontIsFirst DEF Marked, Kinds
<1>8. ASSUME NEW h \in HookNames, ErrorPasses(h) \/ ErrorAnswers(h) PROVE Carried'
  BY <1>7, <1>8, <1>s DEF ErrorPasses, ErrorAnswers, Calls
<1>9. ASSUME NEW h \in HookNames, Observes1(h) PROVE Carried'
  <2>1. /\ At("observe") /\ \E what \in {"next", "halt", "throw"} : Did(h, what)
        /\ UNCHANGED <<ctxs, cur, work, failed, reply>>
    BY <1>9 DEF Observes1, Calls
  <2>2. ~Chained
    BY <2>1 DEF Chained, At
  <2>3. h \in Callers
    BY DEF Callers
  <2> QED
    BY <1>c, <1>d, <2>1, <2>2, <2>3
<1>10. CASE ChainEnds
  <2>1. /\ todo # <<>> /\ todo[1].kind \in {"guard", "post"} /\ todo[1].chains # <<>>
        /\ todo' = AfterChain /\ UNCHANGED <<ctxs, cur, work, failed, ran, reply>>
    BY <1>10 DEF ChainEnds, At
  <2>2. AfterChain # <<>> /\ AfterChain[1].kind = todo[1].kind
    BY <2>1, ChainGone DEF Types
  <2>3. Chained'
    BY <2>1, <2>2 DEF Chained
  <2> QED
    BY <1>n, <2>1, <2>3
<1>11. CASE StepEnds
  <2>1. UNCHANGED <<ctxs, failed, ran, reply>> /\ work' = cur' /\ (mode \in Routes => cur' = work)
    BY <1>m, <1>11 DEF StepEnds
  <2> QED
    BY <1>n, <2>1
<1>12. CASE Validated \/ ObserveEnds
  <2>1. UNCHANGED <<ctxs, failed, ran, reply, cur, work>> /\ ~Chained
    BY <1>12 DEF Validated, ObserveEnds, Chained, At
  <2> QED
    BY <1>c, <1>n, <2>1
<1>13. CASE HandlerReturns
  <2>1. PICK what \in {"next", "write"} :
          /\ Did("handler", what)
          /\ ctxs' = IF what = "write" THEN [ctxs EXCEPT ![work] = @ \cup {"handler"}] ELSE ctxs
    BY <1>13 DEF HandlerReturns
  <2>2. At("handler") /\ UNCHANGED <<cur, work, failed, reply>>
    BY <1>13 DEF HandlerReturns
  <2>3. ctxs \in Seq(SUBSET Callers) /\ work \in 1 .. Len(ctxs)
    BY DEF Types
  <2>4. \A x : Wrote(x)' <=> Wrote(x) \/ (x = "handler" /\ what = "write")
    BY <2>1, DidWhat, HandlerApart DEF Types, Outcomes
  <2>5. /\ Len(ctxs') = Len(ctxs)
        /\ \A c \in 1 .. Len(ctxs) :
             ctxs'[c] = IF c = work /\ what = "write" THEN ctxs[c] \cup {"handler"} ELSE ctxs[c]
    <3>1. CASE what = "next"
      BY <2>1, <2>3, <3>1
    <3>2. CASE what = "write"
      <4> DEFINE set == ctxs[work] \cup {"handler"}
      <4>1. ctxs' = [ctxs EXCEPT ![work] = set] /\ set \in SUBSET Callers
        BY <2>1, <2>3, <3>2, HandlerApart
      <4> HIDE DEF set
      <4>2. /\ Len(ctxs') = Len(ctxs)
            /\ \A c \in 1 .. Len(ctxs) : ctxs'[c] = IF c = work THEN set ELSE ctxs[c]
        BY <2>3, <4>1, ExceptSeq
      <4> QED
        BY <3>2, <4>2 DEF set
    <3> QED
      BY <3>1, <3>2
  <2>6. \A c \in 1 .. Len(ctxs') : \A x \in ctxs'[c] : Wrote(x)'
    <3> SUFFICES ASSUME NEW c \in 1 .. Len(ctxs'), NEW x \in ctxs'[c] PROVE Wrote(x)'
      OBVIOUS
    <3>1. c \in 1 .. Len(ctxs)
      BY <2>5
    <3>2. CASE c = work /\ what = "write"
      <4>1. ctxs'[c] = ctxs[c] \cup {"handler"}
        BY <2>5, <3>1, <3>2
      <4> QED
        BY <2>4, <3>1, <3>2, <4>1 DEF Carried
    <3>3. CASE ~(c = work /\ what = "write")
      <4>1. ctxs'[c] = ctxs[c]
        BY <2>5, <3>1, <3>3
      <4> QED
        BY <2>4, <3>1, <4>1 DEF Carried
    <3> QED
      BY <3>2, <3>3
  <2>7. reply.state = "waiting" /\ ~Chained
    BY <2>2 DEF At, Chained
  <2>8. mode \in Routes /\ ~failed => cur' = work' /\ \A x : Wrote(x)' => x \in ctxs'[work']
    BY <1>c, <2>2, <2>3, <2>4, <2>5, <2>7 DEF Carried
  <2>9. SetDelivered'
    BY <2>2, <2>7 DEF SetDelivered, Sent
  <2> QED
    BY <1>m, <2>2, <2>6, <2>8, <2>9 DEF Carried
<1>14. CASE ValidateThrows \/ HandlerThrows
  BY <1>14, <1>f DEF ValidateThrows, HandlerThrows
<1>15. CASE ErrorDefault
  BY <1>7, <1>15, <1>s DEF ErrorDefault
<1>16. CASE Applies
  <2>1. /\ At("apply")
        /\ reply' = [state |-> "sent", body |-> Body(resp, ctxs[cur]),
                     applied |-> Delivered(ctxs[cur])]
        /\ UNCHANGED <<ctxs, ran, failed>>
    BY <1>16 DEF Applies, Send
  <2>2. ~Chained /\ reply.state = "waiting"
    BY <2>1 DEF At, Chained
  <2>3. ctxs[cur] \subseteq Callers /\ cur \in 1 .. Len(ctxs)
    BY DEF Types
  <2>4. mode \in Routes /\ ~failed =>
          ctxs[cur] = {h \in Callers : Wrote(h)}
    BY <1>c, <2>2, <2>3 DEF Carried
  <2>5. \A h : Wrote(h)' = Wrote(h)
    BY <2>1 DEF Wrote
  <2> QED
    BY <1>m, <2>1, <2>4, <2>5 DEF Carried, SetDelivered, Callers
<1>17. CASE ApplyThrows
  BY <1>17, <1>f, <1>s DEF ApplyThrows
<1>18. CASE UNCHANGED vars
  BY <1>18 DEF vars, Carried, SetDelivered, Sent, Wrote, Chained
<1> QED
  BY <1>1, <1>2, <1>3, <1>4, <1>5, <1>6, <1>8, <1>9, <1>10, <1>11, <1>12, <1>13, <1>14,
     <1>15, <1>16, <1>17, <1>18 DEF Next, Done

-----------------------------------------------------------------------------
(* What the guards wrote stays in both contexts of the app once the handler *)
(* was called, whatever fails afterwards.                                  *)
KeptBoth(h) == h \in ctxs[cur] /\ h \in ctxs[work]
Keeping ==
  mode \in App =>
    /\ Ran("handler") =>
         /\ \A x \in Elems(todo) : x.kind # "guard"
         /\ reply.state = "waiting" => \A g \in GuardHooks : Wrote(g) => KeptBoth(g)
    /\ ErrorKeepsSet

(* The contexts of the app only grow.                                      *)
LEMMA ContextsGrow ==
  ASSUME Types, [Next]_vars, mode \in App
  PROVE  \A h : KeptBoth(h) => KeptBoth(h)'
<1>0. /\ ctxs \in Seq(SUBSET Callers) /\ cur \in 1 .. Len(ctxs) /\ work \in 1 .. Len(ctxs)
      /\ mode \in Routes /\ mode # "fallback"
  BY DEF Types, Routes, App
<1>1. ASSUME UNCHANGED ctxs, cur' \in {cur, work}, work' \in {cur, work}
      PROVE  \A h : KeptBoth(h) => KeptBoth(h)'
  BY <1>1 DEF KeptBoth
<1>2. ASSUME Fails PROVE cur' = cur /\ work' = cur
  BY <1>0, <1>2 DEF Fails
<1>3. ASSUME NEW kind \in {"guard", "post"}, NEW h \in HookNames, HookContinues(kind, h)
      PROVE  \A x : KeptBoth(x) => KeptBoth(x)'
  <2>1. Continues(h) /\ cur' = cur
    BY <1>3 DEF HookContinues
  <2>2. PICK what \in {"next", "write", "fork"} :
          /\ \A c \in 1 .. Len(ctxs) : ctxs[c] \subseteq ctxs'[c]
          /\ what = "next" => ctxs' = ctxs /\ work' = work
          /\ what # "next" => ctxs'[work'] = ctxs[work] \cup {h}
    BY <2>1, ContinuesFacts
  <2> QED
    BY <1>0, <2>1, <2>2 DEF KeptBoth
<1>4. CASE HandlerReturns
  <2>1. PICK what \in {"next", "write"} :
          ctxs' = IF what = "write" THEN [ctxs EXCEPT ![work] = @ \cup {"handler"}] ELSE ctxs
    BY <1>4 DEF HandlerReturns
  <2>2. cur' = cur /\ work' = work
    BY <1>4 DEF HandlerReturns
  <2>3. ctxs[cur] \subseteq ctxs'[cur] /\ ctxs[work] \subseteq ctxs'[work]
    BY <1>0, <2>1
  <2> QED
    BY <2>2, <2>3 DEF KeptBoth
<1>5. ASSUME NEW h \in HookNames,
             \/ \E kind \in {"guard", "post"} : HookThrows(kind, h)
             \/ GuardHalts(h) \/ PostReplaces(h) \/ PostThrowsOnError(h)
             \/ ErrorPasses(h) \/ ErrorAnswers(h) \/ Observes1(h)
      PROVE  UNCHANGED ctxs /\ cur' \in {cur, work} /\ work' \in {cur, work}
  BY <1>2, <1>5 DEF HookThrows, GuardHalts, PostReplaces, PostThrowsOnError,
         ErrorPasses, ErrorAnswers, Observes1
<1>6. ASSUME \/ Aborted \/ ChainEnds \/ Validated \/ ValidateThrows
             \/ HandlerThrows \/ ErrorDefault \/ ObserveEnds \/ Applies \/ UNCHANGED vars
      PROVE  UNCHANGED ctxs /\ cur' \in {cur, work} /\ work' \in {cur, work}
  BY <1>2, <1>6 DEF Aborted, ChainEnds, Validated, ValidateThrows, HandlerThrows,
         ErrorDefault, ObserveEnds, Applies, vars
<1>7. ASSUME StepEnds PROVE UNCHANGED ctxs /\ cur' \in {cur, work} /\ work' \in {cur, work}
  BY <1>7 DEF StepEnds
<1>8. ASSUME ApplyThrows PROVE UNCHANGED ctxs /\ cur' \in {cur, work} /\ work' \in {cur, work}
  BY <1>2, <1>8 DEF ApplyThrows
<1> QED
  BY <1>1, <1>3, <1>4, <1>5, <1>6, <1>7, <1>8 DEF Next, Done

(* A reply of the app goes out through applySet.                           *)
LEMMA AppSends ==
  ASSUME Types, [Next]_vars, mode \in App, ~Sent, Sent'
  PROVE  Applies
<1>1. reply' # reply
  BY DEF Sent
<1>2. ~Aborted
  BY DEF Aborted, Send, Sent
<1>3. mode \in Routes /\ mode # "router"
  BY DEF Types, Routes, App
<1>4. ~ \E kind, h : HookContinues(kind, h) \/ HookThrows(kind, h)
  BY <1>1, <1>3 DEF HookContinues, HookThrows, Fails
<1>5. ~ \E h : GuardHalts(h) \/ PostReplaces(h) \/ PostThrowsOnError(h) \/ ErrorPasses(h)
               \/ ErrorAnswers(h) \/ Observes1(h)
  BY <1>1 DEF GuardHalts, PostReplaces, PostThrowsOnError, ErrorPasses, ErrorAnswers, Observes1
<1>6. ~(ChainEnds \/ StepEnds \/ Validated \/ HandlerReturns \/ ObserveEnds)
  BY <1>1 DEF ChainEnds, StepEnds, Validated, HandlerReturns, ObserveEnds
<1>7. ~(ValidateThrows \/ HandlerThrows \/ ErrorDefault)
  BY <1>1, <1>3 DEF ValidateThrows, HandlerThrows, ErrorDefault, Fails
<1>8. ~ApplyThrows
  <2>1. reply' = [reply EXCEPT !.state = "rejected"] => ~Sent'
    BY DEF Types, Sent
  <2> QED
    BY <1>1, <1>3, <2>1 DEF ApplyThrows, Fails
<1>9. ~UNCHANGED vars
  BY <1>1 DEF vars
<1> QED
  BY <1>2, <1>4, <1>5, <1>6, <1>7, <1>8, <1>9 DEF Next, Done

(* With no guard step left, no guard writes any more.                      *)
LEMMA GuardsQuiet ==
  ASSUME Types, [Next]_vars, \A x \in Elems(todo) : x.kind # "guard"
  PROVE  \A g \in GuardHooks : Wrote(g)' => Wrote(g)
<1>1. GuardHooks \subseteq AllGuards /\ AllGuards \subseteq HookNames
  BY GuardsFacts, NamesApart DEF Types
<1>2. CASE ran' = ran
  BY <1>2 DEF Wrote
<1>3. ASSUME NEW kind \in {"guard", "post", "error", "observe"}, NEW h \in HookNames,
             NEW what \in Outcomes, Calls(kind, h), Did(h, what)
      PROVE  \A g \in GuardHooks : Wrote(g)' => Wrote(g)
  <2>1. kind # "guard"
    BY <1>3, FrontIsFirst DEF Calls, Kinds
  <2>2. h \in HooksFor(kind)
    BY <1>3, CallFacts DEF Kinds
  <2>3. h \notin AllGuards
    BY <2>1, <2>2, NamesApart DEF HooksFor
  <2> QED
    BY <1>1, <1>3, <2>3, DidWhat DEF Types, Callers
<1>4. ASSUME NEW what \in {"next", "write", "throw"}, Did("handler", what)
      PROVE  \A g \in GuardHooks : Wrote(g)' => Wrote(g)
  BY <1>1, <1>4, HandlerApart, DidWhat DEF Types, Outcomes
<1> QED
  BY <1>2, <1>3, <1>4, CallsMade

(* No guard has written when a request arrives.                            *)
LEMMA KeepingFirst == Init => Keeping
  BY DEF Init, Keeping, Ran, ErrorKeepsSet

(* Every step keeps what the guards wrote.                                 *)
LEMMA KeepingKept ==
  Types /\ Marked /\ Carried /\ Keeping /\ [Next]_vars => Keeping'
<1> SUFFICES ASSUME Types, Marked, Carried, Keeping, [Next]_vars, mode \in App PROVE Keeping'
  BY Moves DEF Keeping
<1>1. mode' = mode /\ GuardHooks' = GuardHooks /\ mode \in Routes
  BY Moves DEF GuardHooks, Routes
<1>2. Ran("handler")' => Ran("handler") \/ At("handler")
  <2>1. CASE ran' = ran
    BY <2>1 DEF Ran
  <2>2. ASSUME NEW h \in HookNames, NEW what \in Outcomes, Did(h, what)
        PROVE  Ran("handler")' => Ran("handler")
    BY <2>2, DidWhat, HandlerApart DEF Types, Callers
  <2> QED
    BY <2>1, <2>2, CallsMade
<1>3. Ran("handler") \/ At("handler") => \A x \in Elems(todo) : x.kind # "guard"
  <2>1. At("handler") => \A x \in Elems(todo) : Rank("handler") <= Rank(x.kind)
    BY FrontIsFirst DEF Kinds
  <2>2. Rank("handler") = 2 /\ Rank("guard") = 1
    BY DEF Rank
  <2>3. Ran("handler") => \A x \in Elems(todo) : x.kind # "guard"
    BY DEF Keeping
  <2> QED
    BY <2>1, <2>2, <2>3
<1>4. ASSUME Ran("handler") \/ At("handler")
      PROVE  \A x \in Elems(todo') : x.kind # "guard"
  <2>1. ~At("guard")
    BY <1>3, <1>4, FrontIsFirst DEF Kinds
  <2>2. \A x \in Elems(ErrorPlan) : x.kind # "guard"
    <3>1. Proper(ErrorPlan, 3, 6) /\ ~(3 <= 1)
      BY ErrorFacts DEF Types
    <3> QED
      BY <3>1, RanksOf
  <2> QED
    BY <1>3, <1>4, <2>1, <2>2, Moves, NoneLeft DEF Within
<1>5. ASSUME Ran("handler") \/ At("handler"), reply.state = "waiting"
      PROVE  \A g \in GuardHooks : Wrote(g) => KeptBoth(g)
  <2>1. CASE Ran("handler")
    BY <1>5, <2>1 DEF Keeping
  <2>2. CASE At("handler")
    <3>1. ~failed
      <4>1. failed => 3 <= Rank("handler")
        BY <2>2, FrontIsFirst DEF Marked, Kinds
      <4> QED
        BY <4>1 DEF Rank
    <3>2. ~Chained
      BY <2>2 DEF At, Chained
    <3> QED
      BY <1>1, <1>5, <3>1, <3>2 DEF Carried, KeptBoth
  <2> QED
    BY <1>5, <2>1, <2>2
<1>6. reply'.state = "waiting" => reply.state = "waiting"
  <2>1. reply.state # "waiting" => reply' = reply
    BY AnsweredStops DEF vars
  <2> QED
    BY <2>1
<1>7. ASSUME Ran("handler")', reply'.state = "waiting"
      PROVE  \A g \in GuardHooks : Wrote(g)' => KeptBoth(g)'
  BY <1>2, <1>3, <1>5, <1>6, <1>7, ContextsGrow, GuardsQuiet
<1>8. ErrorKeepsSet'
  <2>1. CASE reply.state # "waiting"
    <3>1. UNCHANGED vars
      BY <2>1, AnsweredStops
    <3> QED
      BY <3>1 DEF vars, Keeping, ErrorKeepsSet, Sent, Ran, Wrote, GuardHooks
  <2>2. CASE reply.state = "waiting"
    <3> SUFFICES ASSUME Sent', Ran("handler")', NEW g \in GuardHooks, Wrote(g)'
                 PROVE  g \in reply'.applied \/ Redirects \in reply'.applied
      BY <1>1 DEF ErrorKeepsSet
    <3>1. Applies
      BY <2>2, AppSends DEF Sent
    <3>2. ran' = ran /\ reply'.applied = Delivered(ctxs[cur])
      BY <3>1 DEF Applies, Send
    <3>3. Ran("handler") /\ Wrote(g)
      BY <3>2 DEF Ran, Wrote
    <3> QED
      BY <1>5, <2>2, <3>2, <3>3 DEF KeptBoth, Delivered
  <2> QED
    BY <2>1, <2>2
<1> QED
  BY <1>1, <1>2, <1>4, <1>7, <1>8 DEF Keeping

(* No mutation of `set' is lost.                                           *)
THEOREM SetKeptHolds == Spec => []SetKept
<1> DEFINE Inv == Types /\ Marked /\ Carried /\ Keeping
<1>1. Init => Inv
  BY Initially, MarkedFirst, CarriedFirst, KeepingFirst
<1>2. Inv /\ [Next]_vars => Inv'
  BY TypesKept, MarkedKept, CarriedKept, KeepingKept
<1>3. Inv => SetKept
  <2>1. mode \in App \/ ErrorKeepsSet
    BY DEF ErrorKeepsSet
  <2> QED
    BY <2>1 DEF Carried, Keeping, SetKept
<1> QED
  BY <1>1, <1>2, <1>3, PTL DEF Spec

-----------------------------------------------------------------------------
(* A route answers, and with the reply that its observers saw.             *)
LEMMA StillUnappliable ==
  ASSUME Types, [Next]_vars, Unappliable
  PROVE  Unappliable'
<1>1. PICK p : p = poison
  OBVIOUS
<1>2. Wrote(p)' /\ poison' = p
  BY <1>1, Moves, RecordKept DEF Unappliable
<1> QED
  BY <1>2 DEF Unappliable, Wrote

(* A set that cannot be applied was written by the poisoned hook.          *)
LEMMA PoisonWritten ==
  ASSUME Types, Carried, ApplyThrows
  PROVE  Unappliable /\ Unappliable'
<1>1. Unappliable
  BY DEF Types, Carried, ApplyThrows, Unappliable
<1>2. ran' = ran /\ poison' = poison
  BY DEF ApplyThrows
<1> QED
  BY <1>1, <1>2 DEF Unappliable, Wrote

(* A route that sends a reply sends the one it made.                       *)
LEMMA AnswerKept ==
  ASSUME Types, Carried, RoutesAnswer, [Next]_vars
  PROVE  RoutesAnswer'
<1>1. mode' = mode
  BY Moves
<1>2. CASE reply.state = "rejected"
  <2>1. UNCHANGED vars
    BY <1>2, AnsweredStops
  <2> QED
    BY <2>1 DEF vars, RoutesAnswer, Unappliable, Wrote
<1>3. CASE ApplyThrows
  <2>1. Unappliable'
    BY <1>3, PoisonWritten
  <2>2. mode = "router" => reply'.state # "rejected"
    <3>1. mode = "router" => mode \in Routes
      BY DEF Routes
    <3>2. reply.state = "waiting"
      BY <1>3 DEF ApplyThrows, At
    <3> QED
      BY <1>3, <3>1, <3>2 DEF ApplyThrows, Fails, Send
  <2> QED
    BY <1>1, <2>1, <2>2 DEF RoutesAnswer, Routes
<1>4. CASE ~ApplyThrows /\ reply.state # "rejected" /\ reply'.state = "rejected"
  <2>1. Fails => mode \notin Routes
    BY <1>4 DEF Fails
  <2>2. reply' # reply
    BY <1>4
  <2>3. ~(Aborted \/ ErrorDefault \/ Applies)
    BY <1>4, <2>2 DEF Aborted, ErrorDefault, Applies, Send
  <2>4. ~ \E h : GuardHalts(h) \/ PostReplaces(h) \/ PostThrowsOnError(h) \/ ErrorPasses(h)
                 \/ ErrorAnswers(h) \/ Observes1(h) \/ (\E kind : HookContinues(kind, h))
    BY <2>2 DEF GuardHalts, PostReplaces, PostThrowsOnError, ErrorPasses, ErrorAnswers,
       Observes1, HookContinues
  <2>5. ~(ChainEnds \/ StepEnds \/ Validated \/ HandlerReturns \/ ObserveEnds \/ UNCHANGED vars)
    BY <2>2 DEF ChainEnds, StepEnds, Validated, HandlerReturns, ObserveEnds, vars
  <2>6. Fails
    BY <1>4, <2>3, <2>4, <2>5 DEF Next, Done, HookThrows, ValidateThrows, HandlerThrows
  <2> QED
    BY <1>1, <2>1, <2>6 DEF RoutesAnswer
<1> QED
  BY <1>2, <1>3, <1>4 DEF RoutesAnswer

(* Outside of the response step and of the error stage the step has no     *)
(* response of its own.                                                    *)
Drafting == todo # <<>> /\ todo[1].kind \in {"post", "error"}
DraftInv == reply.state = "waiting" => draft = resp \/ Drafting

(* Every step keeps the reply and the draft equal outside of a chain.      *)
LEMMA DraftKept == Types /\ Marked /\ DraftInv /\ [Next]_vars => DraftInv'
<1> SUFFICES ASSUME Types, Marked, DraftInv, [Next]_vars, reply'.state = "waiting"
             PROVE  draft' = resp' \/ Drafting'
  BY DEF DraftInv
<1>1. reply.state = "waiting"
  <2>1. reply.state # "waiting" => reply' = reply
    BY AnsweredStops DEF vars
  <2> QED
    BY <2>1
<1>2. draft = resp \/ Drafting
  BY <1>1 DEF DraftInv
<1>3. ASSUME Fails PROVE Drafting'
  <2>1. mode \in Routes
    <3>1. mode \notin Routes => reply' = [reply EXCEPT !.state = "rejected"]
      BY <1>3 DEF Fails
    <3>2. mode \notin Routes => reply'.state = "rejected"
      BY <3>1 DEF Types
    <3> QED
      BY <3>2
  <2>2. todo' = ErrorPlan
    BY <1>3, <2>1 DEF Fails
  <2> QED
    BY <2>2, ErrorFacts DEF Types, Drafting
<1>4. ASSUME UNCHANGED <<draft, resp>>, ~Drafting PROVE draft' = resp'
  BY <1>2, <1>4
<1>5. ASSUME NEW h \in HookNames, NEW kind \in {"guard", "post"}, HookContinues(kind, h)
      PROVE  draft' = resp' \/ Drafting'
  <2>1. Calls(kind, h) /\ todo' = AfterHook /\ UNCHANGED <<draft, resp>>
    BY <1>5 DEF HookContinues
  <2>2. todo[1].kind = kind /\ AfterHook # <<>> /\ AfterHook[1].kind = kind
    BY <2>1, HookGone DEF Types, Calls, At
  <2> QED
    BY <1>2, <2>1, <2>2 DEF Drafting
<1>6. ASSUME NEW h \in HookNames, PostReplaces(h) PROVE Drafting'
  <2>1. Calls("post", h) /\ todo' = AfterChain
    BY <1>6 DEF PostReplaces
  <2>2. AfterChain # <<>> /\ AfterChain[1].kind = "post"
    BY <2>1, ChainGone DEF Types, Calls, At
  <2> QED
    BY <2>1, <2>2 DEF Drafting
<1>7. ASSUME NEW h \in HookNames, ErrorPasses(h) PROVE Drafting'
  <2>1. Calls("error", h) /\ todo' = AfterHook
    BY <1>7 DEF ErrorPasses
  <2>2. AfterHook # <<>> /\ AfterHook[1].kind = "error"
    BY <2>1, HookGone DEF Types, Calls, At
  <2> QED
    BY <2>1, <2>2 DEF Drafting
<1>8. CASE ChainEnds
  <2>1. /\ todo # <<>> /\ todo[1].chains # <<>> /\ todo' = AfterChain
        /\ UNCHANGED <<draft, resp>>
    BY <1>8 DEF ChainEnds, At
  <2>2. AfterChain # <<>> /\ AfterChain[1].kind = todo[1].kind
    BY <2>1, ChainGone DEF Types
  <2> QED
    BY <1>2, <2>1, <2>2 DEF Drafting
<1>9. ASSUME NEW h \in HookNames,
             GuardHalts(h) \/ PostThrowsOnError(h) \/ ErrorAnswers(h)
      PROVE  draft' = resp'
  BY <1>9 DEF GuardHalts, PostThrowsOnError, ErrorAnswers
<1>10. CASE StepEnds \/ HandlerReturns \/ ErrorDefault
  BY <1>10 DEF StepEnds, HandlerReturns, ErrorDefault
<1>11. ASSUME NEW h \in HookNames, Observes1(h) PROVE draft' = resp'
  BY <1>4, <1>11 DEF Observes1, Calls, At, Drafting
<1>12. CASE Validated \/ ObserveEnds
  BY <1>4, <1>12 DEF Validated, ObserveEnds, At, Drafting
<1>13. ASSUME \/ \E h \in HookNames, kind \in {"guard", "post"} : HookThrows(kind, h)
              \/ ValidateThrows \/ HandlerThrows
       PROVE  Fails
  BY <1>13 DEF HookThrows, ValidateThrows, HandlerThrows
<1>14. CASE ApplyThrows
  BY <1>1, <1>3, <1>14 DEF ApplyThrows, Send, Types
<1>15. ~Aborted /\ ~Applies
  BY DEF Aborted, Applies, Send
<1>16. CASE UNCHANGED vars
  BY <1>2, <1>16 DEF vars, Drafting
<1> QED
  BY <1>3, <1>5, <1>6, <1>7, <1>8, <1>9, <1>10, <1>11, <1>12, <1>13, <1>14, <1>15, <1>16
     DEF Next, Done

(* Once an observer was called, observers and the reply are all that is     *)
(* left, and the response stays the one it was shown.                      *)
ObsInv ==
  /\ reply.state = "waiting" /\ ~Unappliable =>
       \A i \in DOMAIN ran : ran[i].hook \in Observers =>
         /\ ran[i].saw = resp
         /\ \A x \in Elems(todo) : 5 <= Rank(x.kind)
  /\ AppliedToSeen

(* Observers and applySet leave the reply as it is.                        *)
LEMMA LateSteps ==
  ASSUME Types, [Next]_vars, ~ApplyThrows, ~Aborted,
         todo # <<>>, 5 <= Rank(todo[1].kind)
  PROVE  /\ \/ \E h \in HookNames : Observes1(h)
            \/ ObserveEnds \/ Applies \/ UNCHANGED vars
         /\ \A x \in Elems(todo') : 5 <= Rank(x.kind)
<1>1. ~ \E kind \in {"guard", "post", "error", "validate", "handler"} : At(kind)
  BY DEF At, Rank
<1>2. \/ \E h \in HookNames : Observes1(h)
      \/ ObserveEnds \/ Applies \/ UNCHANGED vars
  BY <1>1 DEF Next, Done, HookContinues, HookThrows, GuardHalts, PostReplaces,
     PostThrowsOnError, ErrorPasses, ErrorAnswers, ChainEnds, StepEnds, Validated,
     ValidateThrows, HandlerReturns, HandlerThrows, ErrorDefault, Calls
<1>3. \A x \in Elems(todo) : 5 <= Rank(x.kind)
  <2>1. \A x \in Elems(todo) : Rank(todo[1].kind) <= Rank(x.kind)
    BY FrontFacts DEF Types
  <2>2. \A kind : Rank(kind) \in Nat
    BY DEF Rank
  <2> QED
    BY <2>1, <2>2
<1>4. todo' = <<>> \/ Within(todo', todo)
  <2>1. CASE UNCHANGED vars
    BY <2>1, Itself DEF vars
  <2>2. CASE ObserveEnds
    BY <2>2, TailFacts DEF ObserveEnds, Types
  <2>3. ASSUME NEW h, Observes1(h) PROVE Within(todo', todo)
    BY <2>3, TailFacts, HookWithin DEF Observes1, Calls, Types
  <2>4. CASE Applies
    BY <2>4 DEF Applies
  <2> QED
    BY <1>2, <2>1, <2>2, <2>3, <2>4
<1> QED
  BY <1>2, <1>3, <1>4, NoneLeft DEF Within

(* An observer is called with the reply of that moment.                    *)
LEMMA ObserverCalled ==
  ASSUME Types, Carried, DraftInv, ObsInv, [Next]_vars, ~Unappliable',
         reply.state = "waiting", NEW i \in DOMAIN ran', ran'[i].hook \in Observers
  PROVE  /\ ran'[i].saw = resp
         /\ \/ \E h \in HookNames : Observes1(h)
            \/ ObserveEnds \/ Applies \/ UNCHANGED vars
         /\ \A x \in Elems(todo') : 5 <= Rank(x.kind)
<1>1. ~Unappliable /\ ~ApplyThrows
  BY StillUnappliable, PoisonWritten
<1>2. CASE i \in DOMAIN ran /\ ran'[i] = ran[i]
  <2>1. ran[i].saw = resp /\ \A x \in Elems(todo) : 5 <= Rank(x.kind)
    BY <1>1, <1>2 DEF ObsInv
  <2>2. ~Aborted
    BY <1>2 DEF Aborted
  <2>3. CASE todo # <<>>
    BY <1>1, <1>2, <2>1, <2>2, <2>3, LateSteps, FrontFacts DEF Types
  <2>4. CASE todo = <<>>
    <3>1. ~ \E kind : At(kind)
      BY <2>4 DEF At
    <3>2. UNCHANGED vars
      BY <2>2, <3>1 DEF Next, Done, HookContinues, HookThrows, GuardHalts, PostReplaces,
         PostThrowsOnError, ErrorPasses, ErrorAnswers, Observes1, ChainEnds, StepEnds,
         Validated, HandlerReturns, ValidateThrows, HandlerThrows, ErrorDefault, ObserveEnds,
         Applies, ApplyThrows, Calls
    <3> QED
      BY <1>2, <2>1, <3>2 DEF vars
  <2> QED
    BY <2>3, <2>4
<1>3. CASE ~(i \in DOMAIN ran /\ ran'[i] = ran[i])
  <2>1. ran' # ran
    BY <1>3
  <2>2. ASSUME NEW h \in Callers, NEW what \in Outcomes, Did(h, what)
        PROVE  ran'[i].hook = h /\ ran'[i].saw = draft
    <3>1. /\ DOMAIN ran = 1 .. Len(ran) /\ DOMAIN ran' = 1 .. Len(ran) + 1
          /\ \A j \in 1 .. Len(ran) : ran'[j] = ran[j] /\ Len(ran) \in Nat
          /\ ran'[Len(ran) + 1] = [hook |-> h, did |-> what, saw |-> draft]
      BY <2>2, DidFacts DEF Types
    <3>2. i = Len(ran) + 1
      <4>1. i \notin 1 .. Len(ran)
        BY <1>3, <3>1
      <4>2. Len(ran) \in Nat
        BY DEF Types
      <4> QED
        BY <3>1, <4>1, <4>2
    <3> QED
      BY <3>1, <3>2
  <2>3. Observers \subseteq HookNames /\ HookNames \subseteq Callers
    BY NamesApart DEF Callers
  <2>4. {"next", "write", "throw"} \subseteq Outcomes
    BY DEF Outcomes
  <2>5. PICK kind \in {"guard", "post", "error", "observe"}, h \in HookNames :
          Calls(kind, h) /\ ran'[i].hook = h /\ ran'[i].saw = draft
    BY <2>1, <2>2, <2>3, <2>4, CallsMade, HandlerApart
  <2>6. h \in HooksFor(kind) /\ kind \in Kinds
    BY <2>5, CallFacts DEF Kinds
  <2>7. kind = "observe"
    BY <2>5, <2>6, NamesApart DEF HooksFor
  <2>8. At("observe") /\ draft = resp
    BY <2>5, <2>7 DEF Calls, At, DraftInv, Drafting
  <2>9. todo # <<>> /\ 5 <= Rank(todo[1].kind) /\ ~Aborted
    <3>1. Rank("observe") = 5
      BY DEF Rank
    <3>2. ~Aborted
      BY <2>1 DEF Aborted
    <3> QED
      BY <2>8, <3>1, <3>2 DEF At
  <2> QED
    BY <1>1, <2>5, <2>8, <2>9, LateSteps
<1> QED
  BY <1>2, <1>3

(* Every step keeps what the observers saw equal to the reply.             *)
LEMMA ObsKept ==
  Types /\ Carried /\ DraftInv /\ ObsInv /\ [Next]_vars => ObsInv'
<1> SUFFICES ASSUME Types, Carried, DraftInv, ObsInv, [Next]_vars PROVE ObsInv'
  OBVIOUS
<1>1. CASE reply.state # "waiting"
  <2>1. UNCHANGED vars
    BY <1>1, AnsweredStops
  <2> QED
    BY <2>1 DEF vars, ObsInv, AppliedToSeen, Sent, Unappliable, Wrote
<1>2. CASE reply.state = "waiting"
  <2>1. ASSUME ~Unappliable', reply'.state = "waiting",
               NEW i \in DOMAIN ran', ran'[i].hook \in Observers
        PROVE  ran'[i].saw = resp' /\ \A x \in Elems(todo') : 5 <= Rank(x.kind)
    <3>1. /\ ran'[i].saw = resp
          /\ (\E h \in HookNames : Observes1(h)) \/ ObserveEnds \/ Applies \/ UNCHANGED vars
          /\ \A x \in Elems(todo') : 5 <= Rank(x.kind)
      BY <1>2, <2>1, ObserverCalled
    <3>2. resp' = resp
      BY <3>1 DEF Observes1, ObserveEnds, Applies, vars
    <3> QED
      BY <3>1, <3>2
  <2>2. ASSUME ~Unappliable', Sent', NEW i \in DOMAIN ran', ran'[i].hook \in Observers
        PROVE  reply'.body = Body(ran'[i].saw, reply'.applied)
    <3>1. /\ ran'[i].saw = resp
          /\ (\E h \in HookNames : Observes1(h)) \/ ObserveEnds \/ Applies \/ UNCHANGED vars
      BY <1>2, <2>2, ObserverCalled
    <3>2. reply' # reply
      BY <1>2, <2>2 DEF Sent
    <3>3. Applies
      BY <3>1, <3>2 DEF Observes1, ObserveEnds, vars
    <3> QED
      BY <3>1, <3>3 DEF Applies, Send, Body, Delivered
  <2> QED
    BY <2>1, <2>2 DEF ObsInv, AppliedToSeen
<1> QED
  BY <1>1, <1>2

(* There is no reply when a request arrives.                               *)
LEMMA ReplyFirst == Init => RoutesAnswer /\ DraftInv /\ ObsInv
<1> SUFFICES ASSUME Init PROVE RoutesAnswer /\ DraftInv /\ ObsInv
  OBVIOUS
<1>1. ran = <<>> /\ reply.state = "waiting" /\ draft = resp
  BY DEF Init
<1> QED
  BY <1>1 DEF RoutesAnswer, DraftInv, ObsInv, AppliedToSeen, Sent

-----------------------------------------------------------------------------
(* An error supersedes the response.  A response comes from the error       *)
(* stage, or from a response hook that was shown such a response, or one   *)
(* that was made of it: the app has at most two chains of them.            *)
FromOne(b) ==
  \/ b \in ErrorReplies
  \/ \E i \in DOMAIN ran : ran[i].hook = b /\ b \in PostHooks /\ ran[i].saw \in ErrorReplies
FromTwo(b) ==
  \/ b \in ErrorReplies
  \/ \E i \in DOMAIN ran : /\ ran[i].hook = b /\ ran[i].hook \in PostHooks
                           /\ \/ ran[i].saw \in ErrorReplies
                              \/ \E j \in 1 .. i - 1 : /\ ran[j].hook = ran[i].saw
                                                       /\ ran[j].saw \in ErrorReplies
Superseding ==
  /\ OnePost(todo)
  /\ \A x \in Elems(todo) : x.kind = "post" => Len(x.chains) <= 2
  /\ todo # <<>> /\ todo[1].kind = "post" =>
       /\ resp \in ErrorReplies /\ FromTwo(draft)
       /\ Len(todo[1].chains) = 2 => draft \in ErrorReplies
       /\ Len(todo[1].chains) = 1 => FromOne(draft)
  /\ todo # <<>> /\ todo[1].kind \in {"observe", "apply"} => FromTwo(resp)
ErrInv == (failed /\ reply.state = "waiting" => Superseding) /\ ErrorReplaces

(* A reply of one chain of the error stage is one of at most two.          *)
LEMMA OneIsTwo == \A b : (b \in ErrorReplies => FromOne(b)) /\ (FromOne(b) => FromTwo(b))
  BY DEF FromOne, FromTwo

(* The record only grows.                                                  *)
LEMMA SourcesKept ==
  ASSUME Types, [Next]_vars
  PROVE  \A b : (FromOne(b) => FromOne(b)') /\ (FromTwo(b) => FromTwo(b)')
<1>1. CASE ran' = ran
  BY <1>1 DEF FromOne, FromTwo
<1>2. ASSUME NEW h \in Callers, NEW what \in Outcomes, Did(h, what)
      PROVE  \A b : (FromOne(b) => FromOne(b)') /\ (FromTwo(b) => FromTwo(b)')
  <2>1. /\ DOMAIN ran = 1 .. Len(ran) /\ DOMAIN ran' = 1 .. Len(ran) + 1 /\ Len(ran) \in Nat
        /\ \A i \in 1 .. Len(ran) : ran'[i] = ran[i]
    BY <1>2, DidFacts DEF Types
  <2>2. \A i \in DOMAIN ran : i \in DOMAIN ran' /\ ran'[i] = ran[i]
    BY <2>1
  <2>3. \A i \in DOMAIN ran : \A j \in 1 .. i - 1 : ran'[j] = ran[j]
    BY <2>1
  <2>4. \A b : FromOne(b) => FromOne(b)'
    BY <2>2 DEF FromOne
  <2>5. \A b : FromTwo(b) => FromTwo(b)'
    <3> SUFFICES ASSUME NEW b, FromTwo(b), b \notin ErrorReplies PROVE FromTwo(b)'
      BY DEF FromTwo
    <3>1. PICK i \in DOMAIN ran :
            /\ ran[i].hook = b /\ ran[i].hook \in PostHooks
            /\ \/ ran[i].saw \in ErrorReplies
               \/ \E j \in 1 .. i - 1 : ran[j].hook = ran[i].saw /\ ran[j].saw \in ErrorReplies
      BY DEF FromTwo
    <3>2. i \in DOMAIN ran' /\ ran'[i] = ran[i] /\ \A j \in 1 .. i - 1 : ran'[j] = ran[j]
      BY <2>2, <2>3
    <3>3. /\ ran'[i].hook = b /\ ran'[i].hook \in PostHooks
          /\ \/ ran'[i].saw \in ErrorReplies
             \/ \E j \in 1 .. i - 1 : ran'[j].hook = ran'[i].saw /\ ran'[j].saw \in ErrorReplies
      BY <3>1, <3>2
    <3> QED
      BY <3>2, <3>3 DEF FromTwo
  <2> QED
    BY <2>4, <2>5
<1>3. {"next", "write", "throw"} \subseteq Outcomes /\ HookNames \subseteq Callers
  BY DEF Outcomes, Callers
<1>4. \/ ran' = ran
      \/ \E h \in Callers, what \in Outcomes : Did(h, what)
  BY <1>3, CallsMade, HandlerApart
<1> QED
  BY <1>1, <1>2, <1>4

(* A response hook answers: one further from the error stage.              *)
LEMMA FurtherFrom ==
  ASSUME Types, NEW h \in PostHooks, NEW what \in Outcomes, Did(h, what)
  PROVE  /\ draft \in ErrorReplies => FromOne(h)'
         /\ FromOne(draft) => FromTwo(h)'
<1>0. h \in Callers
  BY NamesApart DEF Callers
<1>1. /\ DOMAIN ran = 1 .. Len(ran) /\ DOMAIN ran' = 1 .. Len(ran) + 1 /\ Len(ran) \in Nat
      /\ \A i \in 1 .. Len(ran) : ran'[i] = ran[i]
      /\ ran'[Len(ran) + 1] = [hook |-> h, did |-> what, saw |-> draft]
  BY <1>0, DidFacts DEF Types
<1>2. PICK n : n = Len(ran) + 1
  OBVIOUS
<1>3. /\ n \in DOMAIN ran' /\ ran'[n].hook = h /\ ran'[n].saw = draft
      /\ \A j \in DOMAIN ran : j \in 1 .. n - 1 /\ ran'[j] = ran[j]
  BY <1>1, <1>2
<1>4. draft \in ErrorReplies => FromOne(h)' /\ FromTwo(h)'
  BY <1>3 DEF FromOne, FromTwo
<1>5. ASSUME FromOne(draft), draft \notin ErrorReplies PROVE FromTwo(h)'
  <2>1. PICK j \in DOMAIN ran : ran[j].hook = draft /\ ran[j].saw \in ErrorReplies
    BY <1>5 DEF FromOne
  <2>2. j \in 1 .. n - 1 /\ ran'[j].hook = ran'[n].saw /\ ran'[j].saw \in ErrorReplies
    BY <1>3, <2>1
  <2> QED
    BY <1>3, <2>2 DEF FromTwo
<1> QED
  BY <1>4, <1>5

(* The next step begins.                                                   *)
LEMMA NextStep ==
  ASSUME Types, Superseding, todo # <<>>, todo' = Tail(todo), FromTwo(resp)', draft' = resp',
         resp' \in ErrorReplies \/ todo[1].kind \in {"post", "observe", "apply"}
  PROVE  Superseding'
<1>1. /\ Proper(todo', 1, 6) /\ OnePost(todo')
      /\ Elems(todo) = {todo[1]} \cup Elems(todo')
      /\ \A x \in Elems(todo') : ~(todo[1].kind = "post" /\ x.kind = "post")
  BY TailFacts DEF Types, Superseding
<1>2. \A x \in Elems(todo') : x.kind = "post" => Len(x.chains) <= 2
  BY <1>1 DEF Superseding
<1>3. todo' # <<>> => todo'[1] \in Elems(todo')
  BY <1>1, FrontFacts
<1>4. \A x \in Elems(todo') : todo[1].kind \in {"observe", "apply"} => x.kind # "post"
  <2>1. \A x \in Elems(todo') : Rank(todo[1].kind) <= Rank(x.kind)
    BY <1>1, FrontFacts DEF Types
  <2>2. Rank("observe") = 5 /\ Rank("apply") = 6 /\ Rank("post") = 4
    BY DEF Rank
  <2> QED
    BY <2>1, <2>2
<1>5. todo' # <<>> /\ todo'[1].kind = "post" => resp' \in ErrorReplies
  BY <1>1, <1>3, <1>4
<1>6. resp' \in ErrorReplies => FromOne(draft)'
  BY DEF FromOne
<1>7. FromTwo(draft)'
  BY DEF FromTwo
<1> QED
  BY <1>1, <1>2, <1>5, <1>6, <1>7 DEF Superseding

(* The next hook of the same step.                                         *)
LEMMA NextHook ==
  ASSUME Types, Superseding, [Next]_vars, NEW kind \in {"post", "error", "observe"}, NEW h,
         Calls(kind, h), todo' = AfterHook, UNCHANGED <<resp, draft>>
  PROVE  Superseding'
<1>1. /\ todo # <<>> /\ todo[1].kind = kind /\ todo[1].chains # <<>> /\ todo[1].chains[1] # <<>>
  BY DEF Calls, At
<1>2. PICK new \in Steps :
        /\ OnePost(todo) => OnePost(todo')
        /\ todo' # <<>> /\ todo'[1] = new /\ Elems(todo') = {new} \cup Elems(Tail(todo))
        /\ new.kind = kind /\ Len(new.chains) = Len(todo[1].chains)
  BY <1>1, HookGone DEF Types
<1>3. \A x \in Elems(todo') : x.kind = "post" => Len(x.chains) <= 2
  BY <1>1, <1>2, TailFacts DEF Superseding, Types
<1>4. \A b : (FromOne(b) => FromOne(b)') /\ (FromTwo(b) => FromTwo(b)')
  BY SourcesKept
<1>5. PICK r, d : r = resp /\ d = draft /\ resp' = r /\ draft' = d
  OBVIOUS
<1>6. /\ FromTwo(resp) => FromTwo(resp)'
      /\ FromOne(draft) => FromOne(draft)'
      /\ FromTwo(draft) => FromTwo(draft)'
  BY <1>4, <1>5 DEF FromOne, FromTwo
<1>7. /\ todo'[1].kind = todo[1].kind /\ Len(todo'[1].chains) = Len(todo[1].chains)
  BY <1>1, <1>2
<1> QED
  BY <1>1, <1>2, <1>3, <1>6, <1>7 DEF Superseding

(* The first chain is left, with the response of its last hook or as it was. *)
LEMMA NextChain ==
  ASSUME Types, Superseding, [Next]_vars, todo # <<>>, todo[1].kind = "post",
         todo[1].chains # <<>>, todo' = AfterChain, resp' = resp,
         \/ draft' = draft
         \/ \E h \in PostHooks, what \in Outcomes : Did(h, what) /\ draft' = h
  PROVE  Superseding'
<1>1. PICK new \in Steps :
        /\ OnePost(todo) => OnePost(todo')
        /\ todo' # <<>> /\ todo'[1] = new /\ Elems(todo') = {new} \cup Elems(Tail(todo))
        /\ new.kind = "post" /\ Len(new.chains) = Len(todo[1].chains) - 1
        /\ Len(new.chains) \in Nat
  BY ChainGone DEF Types
<1>2. Elems(todo) = {todo[1]} \cup Elems(Tail(todo)) /\ Len(todo[1].chains) \in Nat
  BY TailFacts, FrontFacts DEF Types, Steps
<1>3. Len(todo[1].chains) <= 2 /\ resp \in ErrorReplies /\ FromTwo(draft)
  BY <1>2 DEF Superseding
<1>4. Len(new.chains) <= 1
  BY <1>1, <1>2, <1>3
<1>5. \A x \in Elems(todo') : x.kind = "post" => Len(x.chains) <= 2
  <2>1. Len(new.chains) <= 2
    BY <1>1, <1>4
  <2> QED
    BY <1>1, <1>2, <2>1 DEF Superseding
<1>6. Len(todo[1].chains) \in {1, 2}
  <2>1. \A n, m \in Nat : m = n - 1 /\ n <= 2 => n \in {1, 2}
    OBVIOUS
  <2> QED
    BY <1>1, <1>2, <1>3, <2>1
<1>7. /\ Len(new.chains) = 1 => draft \in ErrorReplies
      /\ FromOne(draft)
  BY <1>1, <1>2, <1>6, OneIsTwo DEF Superseding
<1>8. (Len(new.chains) = 1 => FromOne(draft)') /\ FromTwo(draft)'
  <2>1. CASE draft' = draft
    <3>1. PICK d : d = draft /\ draft' = d
      BY <2>1
    <3>2. FromOne(d)' /\ FromTwo(d)'
      BY <1>7, <3>1, OneIsTwo, SourcesKept
    <3> QED
      BY <3>1, <3>2 DEF FromOne, FromTwo
  <2>2. CASE \E h \in PostHooks, what \in Outcomes : Did(h, what) /\ draft' = h
    <3>1. PICK h \in PostHooks, what \in Outcomes : Did(h, what) /\ draft' = h
      BY <2>2
    <3>2. (Len(new.chains) = 1 => FromOne(h)') /\ FromTwo(h)'
      BY <1>7, <3>1, FurtherFrom
    <3> QED
      BY <3>1, <3>2 DEF FromOne, FromTwo
  <2> QED
    BY <2>1, <2>2
<1>9. Len(new.chains) # 2
  BY <1>4
<1> QED
  BY <1>1, <1>3, <1>5, <1>8, <1>9 DEF Superseding

(* A request that just failed has the error stage ahead of it.              *)
LEMMA JustFailed ==
  ASSUME Types, Fails, mode \in Routes
  PROVE  Superseding'
<1>1. todo' = ErrorPlan
  BY DEF Fails
<1>2. /\ OnePost(todo') /\ todo'[1].kind = "error"
      /\ \A x \in Elems(todo') : x.kind = "post" => Len(x.chains) <= 2
  BY <1>1, ErrorFacts DEF Types
<1> QED
  BY <1>2 DEF Superseding

(* What can happen to a request that has failed.                           *)
LEMMA FailedSteps ==
  ASSUME Types, Marked, [Next]_vars, failed, reply.state = "waiting"
  PROVE  \/ \E h \in HookNames :
              \/ HookContinues("post", h) \/ PostReplaces(h) \/ PostThrowsOnError(h)
              \/ ErrorPasses(h) \/ ErrorAnswers(h) \/ Observes1(h)
         \/ (ChainEnds /\ At("post")) \/ (StepEnds /\ At("post"))
         \/ ErrorDefault \/ ObserveEnds \/ Applies \/ ApplyThrows \/ Aborted \/ UNCHANGED vars
<1>1. ~ \E kind \in {"guard", "validate", "handler"} : At(kind)
  <2>1. \A kind \in {"guard", "validate", "handler"} : At(kind) => 3 <= Rank(kind)
    BY FrontIsFirst DEF Marked, Kinds
  <2> QED
    BY <2>1 DEF Rank
<1> QED
  BY <1>1 DEF Next, Done, HookContinues, HookThrows, GuardHalts, ChainEnds, StepEnds, Validated,
     ValidateThrows, HandlerReturns, HandlerThrows, Calls

(* Every step keeps that a reply after an error is of the error stage.     *)
LEMMA ErrKept == Types /\ Marked /\ DraftInv /\ ErrInv /\ [Next]_vars => ErrInv'
<1> SUFFICES ASSUME Types, Marked, DraftInv, ErrInv, [Next]_vars PROVE ErrInv'
  OBVIOUS
<1>1. CASE reply.state # "waiting"
  <2>1. UNCHANGED vars
    BY <1>1, AnsweredStops
  <2> QED
    BY <1>1, <2>1 DEF vars, ErrInv, ErrorReplaces, Sent
<1>2. CASE ~failed
  <2>1. failed' = FALSE \/ (mode \in Routes /\ Fails)
    BY <1>2, FailsOrNot DEF Types
  <2>2. CASE failed' = FALSE
    BY <2>2 DEF ErrInv, ErrorReplaces
  <2>3. CASE mode \in Routes /\ Fails
    <3>1. Superseding' /\ reply' = reply
      BY <2>3, JustFailed DEF Fails
    <3>2. ErrorReplaces'
      <4>1. CASE reply.state = "waiting"
        BY <3>1, <4>1 DEF ErrorReplaces, Sent
      <4> QED
        BY <1>1, <4>1 DEF ErrInv
    <3> QED
      BY <3>1, <3>2 DEF ErrInv
  <2> QED
    BY <2>1, <2>2, <2>3
<1>3. CASE failed /\ reply.state = "waiting"
  <2>0. Superseding
    BY <1>3 DEF ErrInv
  <2>1. ASSUME reply' = reply, Superseding' PROVE ErrInv'
    BY <1>3, <2>1 DEF ErrInv, ErrorReplaces, Sent
  <2>2. ASSUME NEW b, FromTwo(b)', reply'.state = "sent", reply'.body = b PROVE ErrInv'
    BY <2>2 DEF ErrInv, ErrorReplaces, FromTwo
  <2>3. FromTwo("default")' /\ "default" \in ErrorReplies
    BY DEF FromTwo, ErrorReplies
  <2>4. \A kind : At(kind) => todo # <<>> /\ todo[1].kind = kind
    BY DEF At
  <2>5. ASSUME NEW h \in HookNames, HookContinues("post", h) PROVE ErrInv'
    <3>1. /\ Calls("post", h) /\ todo' = AfterHook /\ UNCHANGED <<resp, draft, reply>>
      BY <2>5 DEF HookContinues
    <3> QED
      BY <2>0, <2>1, <3>1, NextHook
  <2>6. ASSUME NEW h \in HookNames, PostReplaces(h) PROVE ErrInv'
    <3>1. /\ Calls("post", h) /\ Did(h, "halt") /\ draft' = h /\ todo' = AfterChain
          /\ resp' = resp /\ reply' = reply
      BY <2>6 DEF PostReplaces
    <3>2. /\ todo # <<>> /\ todo[1].kind = "post" /\ todo[1].chains # <<>> /\ h \in PostHooks
      BY <3>1, CallFacts DEF Kinds, HooksFor
    <3>3. "halt" \in Outcomes
      BY DEF Outcomes
    <3> QED
      BY <2>0, <2>1, <3>1, <3>2, <3>3, NextChain
  <2>7. ASSUME NEW h \in HookNames, PostThrowsOnError(h) PROVE ErrInv'
    <3>1. /\ Calls("post", h) /\ draft' = resp /\ resp' = resp /\ todo' = Tail(todo)
          /\ reply' = reply
      BY <2>7 DEF PostThrowsOnError
    <3>2. todo # <<>> /\ todo[1].kind = "post" /\ resp' \in ErrorReplies
      BY <2>0, <2>4, <3>1 DEF Calls, Superseding
    <3>3. FromTwo(resp)'
      BY <3>2 DEF FromTwo
    <3> QED
      BY <2>0, <2>1, <3>1, <3>2, <3>3, NextStep
  <2>8. ASSUME NEW h \in HookNames, ErrorPasses(h) PROVE ErrInv'
    <3>1. /\ Calls("error", h) /\ todo' = AfterHook /\ UNCHANGED <<resp, draft, reply>>
      BY <2>8 DEF ErrorPasses
    <3> QED
      BY <2>0, <2>1, <3>1, NextHook
  <2>9. ASSUME NEW h \in HookNames, ErrorAnswers(h) PROVE ErrInv'
    <3>1. /\ Calls("error", h) /\ resp' = h /\ draft' = h /\ todo' = Tail(todo) /\ reply' = reply
      BY <2>9 DEF ErrorAnswers
    <3>2. todo # <<>> /\ h \in ErrorReplies
      BY <2>4, <3>1, CallFacts DEF Kinds, HooksFor, ErrorReplies, Calls
    <3>3. FromTwo(resp)'
      BY <3>1, <3>2 DEF FromTwo
    <3> QED
      BY <2>0, <2>1, <3>1, <3>2, <3>3, NextStep
  <2>10. ASSUME ErrorDefault PROVE ErrInv'
    <3>1. /\ At("error") /\ resp' = "default" /\ draft' = "default"
          /\ \/ todo' = Tail(todo) /\ reply' = reply
             \/ reply'.state = "sent" /\ reply'.body = "default"
      BY <2>10 DEF ErrorDefault, Send
    <3>2. FromTwo(resp)'
      BY <2>3, <3>1 DEF FromTwo
    <3> QED
      BY <2>0, <2>1, <2>2, <2>3, <2>4, <3>1, <3>2, NextStep
  <2>11. \A b : FromTwo(b) => FromTwo(b)'
    BY SourcesKept
  <2>12. ASSUME todo # <<>>, todo[1].kind \in {"observe", "apply"},
                resp' = resp, draft' = draft
         PROVE  FromTwo(resp)' /\ draft' = resp'
    <3>1. PICK r : r = resp /\ resp' = r
      BY <2>12
    <3>2. FromTwo(resp) /\ draft = resp
      BY <1>3, <2>0, <2>12 DEF Superseding, DraftInv, Drafting
    <3> QED
      BY <2>11, <2>12, <3>1, <3>2 DEF FromTwo
  <2>13. ASSUME NEW h \in HookNames, Observes1(h) PROVE ErrInv'
    <3>1. /\ Calls("observe", h) /\ UNCHANGED <<resp, draft, reply>>
          /\ todo' = AfterHook \/ todo' = Tail(todo)
      BY <2>13 DEF Observes1
    <3>2. todo # <<>> /\ todo[1].kind = "observe"
      BY <2>4, <3>1 DEF Calls
    <3>3. CASE todo' = AfterHook
      BY <2>0, <2>1, <3>1, <3>3, NextHook
    <3>4. CASE todo' = Tail(todo)
      BY <2>0, <2>1, <2>12, <3>1, <3>2, <3>4, NextStep
    <3> QED
      BY <3>1, <3>3, <3>4
  <2>14. ASSUME ObserveEnds PROVE ErrInv'
    BY <2>0, <2>1, <2>4, <2>12, <2>14, NextStep DEF ObserveEnds
  <2>15. ASSUME ChainEnds, At("post") PROVE ErrInv'
    <3>1. /\ todo # <<>> /\ todo[1].kind = "post" /\ todo[1].chains # <<>> /\ todo' = AfterChain
          /\ UNCHANGED <<resp, draft, reply>>
      BY <2>4, <2>15 DEF ChainEnds
    <3> QED
      BY <2>0, <2>1, <3>1, NextChain
  <2>16. ASSUME StepEnds, At("post") PROVE ErrInv'
    <3>1. /\ todo # <<>> /\ todo[1].kind = "post" /\ todo' = Tail(todo)
          /\ resp' = draft /\ draft' = draft /\ reply' = reply
      BY <2>4, <2>16 DEF StepEnds
    <3>2. PICK d : d = draft /\ resp' = d
      BY <3>1
    <3>3. FromTwo(draft)
      BY <2>0, <3>1 DEF Superseding
    <3>4. FromTwo(resp)'
      BY <2>11, <3>2, <3>3 DEF FromTwo
    <3> QED
      BY <2>0, <2>1, <3>1, <3>4, NextStep
  <2>17. ASSUME Applies PROVE ErrInv'
    <3>1. /\ At("apply") /\ UNCHANGED <<resp, draft>>
          /\ reply' = [state |-> "sent", body |-> Body(resp, ctxs[cur]),
                       applied |-> Delivered(ctxs[cur])]
      BY <2>17 DEF Applies, Send
    <3>2. PICK r : r = resp /\ resp' = r
      BY <3>1
    <3>3. FromTwo(r)'
      BY <2>4, <2>12, <3>1, <3>2 DEF FromTwo
    <3>4. CASE Redirects \in ctxs[cur]
      <4>1. reply'.body = "redirect" /\ reply'.applied = {Redirects} /\ reply'.state = "sent"
        BY <3>1, <3>4 DEF Body, Delivered
      <4> QED
        BY <4>1 DEF ErrInv, ErrorReplaces
    <3>5. CASE Redirects \notin ctxs[cur]
      <4>1. reply'.body = resp /\ reply'.state = "sent"
        BY <3>1, <3>5 DEF Body
      <4> QED
        BY <2>2, <3>2, <3>3, <4>1
    <3> QED
      BY <3>4, <3>5
  <2>18. ASSUME ApplyThrows PROVE ErrInv'
    <3>1. \/ reply'.state = "sent" /\ reply'.body = "default"
          \/ reply' = [reply EXCEPT !.state = "rejected"]
      BY <1>3, <2>18 DEF ApplyThrows, Send
    <3>2. ASSUME reply' = [reply EXCEPT !.state = "rejected"] PROVE ErrInv'
      <4>1. reply'.state = "rejected"
        BY <3>2 DEF Types
      <4> QED
        BY <4>1 DEF ErrInv, ErrorReplaces, Sent
    <3> QED
      BY <2>2, <2>3, <3>1, <3>2
  <2>19. ASSUME Aborted PROVE ErrInv'
    BY <2>19 DEF Aborted, Send, ErrInv, ErrorReplaces, Sent
  <2>20. ASSUME UNCHANGED vars PROVE ErrInv'
    <3>1. Superseding' /\ reply' = reply
      BY <2>0, <2>20 DEF vars, Superseding, FromOne, FromTwo
    <3> QED
      BY <2>1, <3>1
  <2> QED
    BY <1>3, <2>5, <2>6, <2>7, <2>8, <2>9, <2>10, <2>13, <2>14, <2>15, <2>16, <2>17, <2>18,
       <2>19, <2>20, FailedSteps
<1> QED
  BY <1>1, <1>2, <1>3 DEF Types

(* No error has happened when a request arrives.                           *)
LEMMA ErrFirst == Init => ErrInv
  BY DEF Init, ErrInv, ErrorReplaces

(* A route answers, with the reply its observers saw, and never with one    *)
(* that an error has superseded.                                           *)
THEOREM ReplyRightHolds == Spec => []ReplyRight
<1> DEFINE Inv == Types /\ Marked /\ Carried /\ RoutesAnswer /\ DraftInv /\ ObsInv /\ ErrInv
<1>1. Init => Inv
  BY Initially, MarkedFirst, CarriedFirst, ReplyFirst, ErrFirst
<1>2. Inv /\ [Next]_vars => Inv'
  BY TypesKept, MarkedKept, CarriedKept, AnswerKept, DraftKept, ObsKept, ErrKept
<1>3. Inv => ReplyRight
  BY DEF ObsInv, ErrInv, ReplyRight
<1> QED
  BY <1>1, <1>2, <1>3, PTL DEF Spec
=============================================================================
