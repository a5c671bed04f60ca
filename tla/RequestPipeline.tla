--------------------------- MODULE RequestPipeline ---------------------------
(***************************************************************************)
(* One request through the stages of the runtime: runLifecycle             *)
(* (packages/core/src/lifecycle/run.ts), the route and fallback pipelines  *)
(* of the router (http/router.ts, http/route-stages.ts), and the hook      *)
(* engine that both drive (lifecycle/hook-engine.ts).                      *)
(*                                                                         *)
(* What remains to be done is a list of steps, each with chains of hooks;  *)
(* an action is one hook, or the end of a step.  A hook is known by its    *)
(* name, a response by who made it, and a context by the hooks whose       *)
(* mutations of ctx.set it carries.                                        *)
(***************************************************************************)
EXTENDS Naturals, Sequences

CONSTANTS
  Stages,   \* [stage name -> its sequence of hooks]; no hook is in two stages
  Plugins,  \* the afterHandle hook that all onResponse plugins are composed into
  Redirects \* the hook, if any, whose mutation of `set' is a redirect

(* The ways a request can go. *)
App == {"flat", "traced"}           \* runLifecycle, without and with a tracer
Routes == App \cup {"router"}       \* ... and runRoute
Modes == Routes \cup {"fallback", "options"}   \* 404/405, and OPTIONS

HooksOf(names) == UNION {{Stages[s][i] : i \in DOMAIN Stages[s]} : s \in names}
HookNames == HooksOf(DOMAIN Stages)
PostHooks == HooksOf({"routeAfter", "afterHandle", "mapResponse"})
Observers == HooksOf({"afterResponse", "trace"})

(* What the constants must be.                                             *)
PipelineAssumption ==
  /\ DOMAIN Stages = {"request", "beforeHandle", "routeBefore", "routeAfter", "afterHandle",
                      "mapResponse", "afterResponse", "trace", "error"}
  /\ \A s \in DOMAIN Stages : Stages[s] \in Seq(HookNames)
  /\ \A s, t \in DOMAIN Stages : \A i \in DOMAIN Stages[s], j \in DOMAIN Stages[t] :
       Stages[s][i] = Stages[t][j] => s = t /\ i = j
  /\ HookNames \cap {"none", "handler", "default", "aborted", "redirect"} = {}

ASSUME PipelineAssumption

VARIABLES
  mode,
  poison,   \* the hook, if any, whose mutation applySet cannot apply
  todo,     \* the steps that remain
  ctxs,     \* every context object: the hooks whose `set' mutations it holds
  cur,      \* the context of the pipeline
  work,     \* the context inside the running chain
  resp,     \* the response of the pipeline
  draft,    \* the response inside the running step
  failed,   \* the error stage was entered
  ran,      \* every call made: who, what it did, which response it was shown
  reply     \* what went out: a body and the applied set

vars == <<mode, poison, todo, ctxs, cur, work, resp, draft, failed, ran, reply>>

-----------------------------------------------------------------------------
(* The steps of each way. *)
Step(kind, chains) == [kind |-> kind, chains |-> chains]
Plain(kind) == Step(kind, <<>>)
Chain(kind, stage) == Step(kind, <<Stages[stage]>>)

Posts ==
  IF mode = "router"
    THEN <<Chain("post", "routeAfter"), Chain("post", "afterHandle"), Chain("post", "mapResponse")>>
  ELSE IF mode = "traced"
    THEN <<Step("post", <<Stages["afterHandle"], Stages["mapResponse"]>>)>>
    ELSE <<Step("post", <<Stages["afterHandle"] \o Stages["mapResponse"]>>)>>

Observes == IF mode \in App
              THEN <<Chain("observe", "afterResponse"), Chain("observe", "trace")>>
              ELSE <<Chain("observe", "afterResponse")>>

Apply == <<Plain("apply")>>

AfterHandler == IF mode = "options" THEN Apply ELSE Posts \o Observes \o Apply

Guards ==
  IF mode = "router"
    THEN <<Chain("guard", "request"), Plain("validate"),
           Chain("guard", "beforeHandle"), Chain("guard", "routeBefore")>>
  ELSE IF mode = "traced"
    THEN <<Step("guard", <<Stages["request"], Stages["beforeHandle"]>>)>>
    ELSE <<Step("guard", <<Stages["request"] \o Stages["beforeHandle"]>>)>>

Plan == Guards \o (IF mode \in Routes THEN <<Plain("handler")>> ELSE <<>>) \o AfterHandler

(* Mutant: a halt does not skip the handler. *)
HaltPlanHandles == Tail(todo)

(* A halted request: the app decorates it, the router only applies `set'. *)
HaltPlan == IF mode \in App THEN AfterHandler ELSE Apply

(* The response stages have begun. *)
PostRan == todo[1].kind = "post" \/ \E i \in DOMAIN ran : ran[i].hook \in PostHooks

(* Mutant: the response stages run again for an error of their own. *)
ErrorPlanAgain ==
  IF mode \in App THEN <<Chain("error", "error")>> \o Posts \o Observes \o Apply
                  ELSE <<Chain("error", "error")>> \o Apply

(* An error goes through the error stage; the app then decorates the error *)
(* reply unless the response stages have already run.                      *)
ErrorPlan ==
  IF mode \in App
    THEN <<Chain("error", "error")>> \o (IF PostRan THEN <<>> ELSE Posts) \o Observes \o Apply
    ELSE <<Chain("error", "error")>> \o Apply

Init ==
  /\ mode \in Modes
  /\ poison \in {"none", "handler"} \cup HooksOf({"request"})
  /\ todo = Plan
  /\ ctxs = <<{}>>
  /\ cur = 1 /\ work = 1
  /\ resp = IF mode \in Routes THEN "none" ELSE "default"
  /\ draft = resp
  /\ failed = FALSE
  /\ ran = <<>>
  /\ reply = [state |-> "waiting", body |-> "none", applied |-> {}]

-----------------------------------------------------------------------------
At(kind) == reply.state = "waiting" /\ todo # <<>> /\ todo[1].kind = kind

(* The hook that is next in a step of this kind, and what follows it. *)
Calls(kind, h) == /\ At(kind)
                  /\ todo[1].chains # <<>> /\ todo[1].chains[1] # <<>>
                  /\ h = todo[1].chains[1][1]
AfterHook == [todo EXCEPT ![1].chains[1] = Tail(@)]
AfterChain == [todo EXCEPT ![1].chains = Tail(@)]

Did(h, what) == ran' = Append(ran, [hook |-> h, did |-> what, saw |-> draft])
Send(body, applied) == reply' = [state |-> "sent", body |-> body, applied |-> applied]

(* applySet puts an empty response in the place of any other when `set'    *)
(* redirects, and the headers and cookies of `set' are then left out.      *)
Body(made, set) == IF Redirects \in set THEN "redirect" ELSE made
Delivered(set) == IF Redirects \in set THEN {Redirects} ELSE set

(* A hook lets the request go on: it may mutate the set of the context it  *)
(* was given, or return a context of its own.                              *)
Continues(h) ==
  \/ /\ Did(h, "next")
     /\ UNCHANGED <<ctxs, work>>
  \/ /\ Did(h, "write")
     /\ ctxs' = [ctxs EXCEPT ![work] = @ \cup {h}]
     /\ UNCHANGED work
  \/ /\ Did(h, "fork")
     /\ ctxs' = Append(ctxs, ctxs[work] \cup {h})
     /\ work' = Len(ctxs) + 1

(* A client that was gone before the first hook gets an empty 200. *)
Aborted ==
  /\ mode \in Routes /\ ran = <<>> /\ todo = Plan /\ reply.state = "waiting"
  /\ Send("aborted", {})
  /\ todo' = <<>>
  /\ UNCHANGED <<mode, poison, ctxs, cur, work, resp, draft, failed, ran>>

HookContinues(kind, h) ==
  /\ kind \in {"guard", "post"} /\ Calls(kind, h) /\ h # Plugins
  /\ Continues(h)
  /\ todo' = AfterHook
  /\ UNCHANGED <<mode, poison, cur, resp, draft, failed, reply>>

(* A guard answers the request itself: the handler is skipped. *)
GuardHalts(h) ==
  /\ Calls("guard", h)
  /\ Did(h, "halt")
  /\ resp' = h /\ draft' = h
  /\ cur' = work
  /\ todo' = HaltPlan
  /\ UNCHANGED <<mode, poison, ctxs, work, failed, reply>>

(* A response hook replaces the response, which ends its chain. *)
PostReplaces(h) ==
  /\ Calls("post", h)
  /\ Did(h, "halt")
  /\ draft' = h
  /\ todo' = AfterChain
  /\ UNCHANGED <<mode, poison, ctxs, cur, work, resp, failed, reply>>

ChainEnds ==
  /\ \E kind \in {"guard", "post"} : At(kind)
  /\ todo[1].chains # <<>> /\ todo[1].chains[1] = <<>>
  /\ todo' = AfterChain
  /\ UNCHANGED <<mode, poison, ctxs, cur, work, resp, draft, failed, ran, reply>>

(* Mutant: the context that a chain returns is dropped. *)
StepEndsStale ==
  /\ \E kind \in {"guard", "post"} : At(kind)
  /\ todo[1].chains = <<>>
  /\ todo' = Tail(todo)
  /\ work' = cur
  /\ resp' = draft
  /\ UNCHANGED <<mode, poison, ctxs, cur, draft, failed, ran, reply>>

(* The step is over: its context and response become the pipeline's.  The  *)
(* fallback keeps the context of its guards.                               *)
StepEnds ==
  /\ \E kind \in {"guard", "post"} : At(kind)
  /\ todo[1].chains = <<>>
  /\ todo' = Tail(todo)
  /\ cur' = IF mode = "fallback" /\ At("post") THEN cur ELSE work
  /\ work' = cur'
  /\ resp' = draft
  /\ UNCHANGED <<mode, poison, ctxs, draft, failed, ran, reply>>

Validated ==
  /\ At("validate")
  /\ todo' = Tail(todo)
  /\ UNCHANGED <<mode, poison, ctxs, cur, work, resp, draft, failed, ran, reply>>

HandlerReturns ==
  /\ At("handler")
  /\ \E what \in {"next", "write"} :
       /\ Did("handler", what)
       /\ ctxs' = IF what = "write" THEN [ctxs EXCEPT ![work] = @ \cup {"handler"}] ELSE ctxs
  /\ resp' = "handler" /\ draft' = "handler"
  /\ todo' = Tail(todo)
  /\ UNCHANGED <<mode, poison, cur, work, failed, reply>>

-----------------------------------------------------------------------------
(* Failures. *)

(* What a throw does to a request that is not yet failed: the routes enter *)
(* the error stage -- the router with the context the request started with *)
(* -- and the fallbacks have nothing that catches.                         *)
Fails ==
  IF mode \in Routes
    THEN /\ failed' = TRUE
         /\ todo' = ErrorPlan
         /\ cur' = IF mode \in App THEN cur ELSE 1
         /\ work' = cur'
         /\ UNCHANGED reply
    ELSE /\ reply' = [reply EXCEPT !.state = "rejected"]
         /\ todo' = <<>>
         /\ UNCHANGED <<failed, cur, work>>

HookThrows(kind, h) ==
  /\ kind \in {"guard", "post"} /\ Calls(kind, h) /\ ~failed
  /\ Did(h, "throw")
  /\ Fails
  /\ UNCHANGED <<mode, poison, ctxs, resp, draft>>

ValidateThrows ==
  /\ At("validate")
  /\ Fails
  /\ UNCHANGED <<mode, poison, ctxs, resp, draft, ran>>

HandlerThrows ==
  /\ At("handler")
  /\ Did("handler", "throw")
  /\ Fails
  /\ UNCHANGED <<mode, poison, ctxs, resp, draft>>

(* A response hook that throws on an error reply leaves the reply as it was. *)
PostThrowsOnError(h) ==
  /\ Calls("post", h) /\ failed
  /\ Did(h, "throw")
  /\ draft' = resp /\ work' = cur
  /\ todo' = Tail(todo)
  /\ UNCHANGED <<mode, poison, ctxs, cur, resp, failed, reply>>

(* An error hook looks at the error and lets the next one answer it. *)
ErrorPasses(h) ==
  /\ Calls("error", h)
  /\ Did(h, "next")
  /\ todo' = AfterHook
  /\ UNCHANGED <<mode, poison, ctxs, cur, work, resp, draft, failed, reply>>

ErrorAnswers(h) ==
  /\ Calls("error", h)
  /\ Did(h, "halt")
  /\ resp' = h /\ draft' = h
  /\ todo' = Tail(todo)
  /\ UNCHANGED <<mode, poison, ctxs, cur, work, failed, reply>>

(* Mutant: without an answer the request keeps the response it had. *)
ErrorKeepsResponse ==
  /\ At("error")
  /\ \/ /\ todo[1].chains[1] = <<>> /\ UNCHANGED ran
     \/ \E h \in {Stages["error"][i] : i \in DOMAIN Stages["error"]} :
          Calls("error", h) /\ Did(h, "throw")
  /\ IF resp = "none" THEN resp' = "default" /\ draft' = "default"
                      ELSE UNCHANGED resp /\ draft' = resp
  /\ todo' = Tail(todo)
  /\ UNCHANGED <<mode, poison, ctxs, cur, work, failed, reply>>

(* No error hook answers, or one throws: the default error response, to    *)
(* which the router does not even apply `set'.                             *)
ErrorDefault ==
  /\ At("error")
  /\ \/ /\ todo[1].chains[1] = <<>> /\ UNCHANGED ran
     \/ \E h \in {Stages["error"][i] : i \in DOMAIN Stages["error"]} :
          Calls("error", h) /\ Did(h, "throw")
  /\ resp' = "default" /\ draft' = "default"
  /\ IF mode \in App THEN todo' = Tail(todo) /\ UNCHANGED reply
                     ELSE todo' = <<>> /\ Send("default", {})
  /\ UNCHANGED <<mode, poison, ctxs, cur, work, failed>>

-----------------------------------------------------------------------------
(* Observers, and the reply. *)

(* An observer may not touch the response; a throw or a halt only ends the *)
(* chain, and the context it returns is dropped.                           *)
Observes1(h) ==
  /\ Calls("observe", h)
  /\ \/ Did(h, "next") /\ todo' = AfterHook
     \/ \E what \in {"halt", "throw"} : Did(h, what) /\ todo' = Tail(todo)
  /\ UNCHANGED <<mode, poison, ctxs, cur, work, resp, draft, failed, reply>>

ObserveEnds ==
  /\ At("observe")
  /\ todo[1].chains[1] = <<>>
  /\ todo' = Tail(todo)
  /\ UNCHANGED <<mode, poison, ctxs, cur, work, resp, draft, failed, ran, reply>>

Applies ==
  /\ At("apply")
  /\ poison \notin ctxs[cur]
  /\ Send(Body(resp, ctxs[cur]), Delivered(ctxs[cur]))
  /\ todo' = <<>>
  /\ UNCHANGED <<mode, poison, ctxs, cur, work, resp, draft, failed, ran>>

(* applySet throws.  On the way of an error there is only the router's     *)
(* handleError to catch it; the promise of the app rejects.                *)
ApplyThrows ==
  /\ At("apply")
  /\ poison \in ctxs[cur]
  /\ IF ~failed
       THEN Fails
       ELSE /\ IF mode = "router" THEN Send("default", {})
                                  ELSE reply' = [reply EXCEPT !.state = "rejected"]
            /\ todo' = <<>>
            /\ UNCHANGED <<cur, work, failed>>
  /\ UNCHANGED <<mode, poison, ctxs, resp, draft, ran>>

Done == reply.state # "waiting" /\ UNCHANGED vars

Next ==
  \/ Aborted
  \/ \E h \in HookNames :
       \/ \E kind \in {"guard", "post"} : HookContinues(kind, h) \/ HookThrows(kind, h)
       \/ GuardHalts(h) \/ PostReplaces(h) \/ PostThrowsOnError(h)
       \/ ErrorPasses(h) \/ ErrorAnswers(h) \/ Observes1(h)
  \/ ChainEnds \/ StepEnds \/ Validated \/ HandlerReturns
  \/ ValidateThrows \/ HandlerThrows \/ ErrorDefault \/ ObserveEnds
  \/ Applies \/ ApplyThrows
  \/ Done

Spec == Init /\ [][Next]_vars

-----------------------------------------------------------------------------
Calls1 == [hook : HookNames \cup {"handler"},
           did : {"next", "write", "fork", "halt", "throw"},
           saw : HookNames \cup {"none", "handler", "default"}]

(* Every variable keeps its type; a reply that went out has a body. *)
TypeOK ==
  /\ mode \in Modes
  /\ DOMAIN ctxs = 1 .. Len(ctxs)
  /\ cur \in DOMAIN ctxs /\ work \in DOMAIN ctxs
  /\ {resp, draft} \subseteq HookNames \cup {"none", "handler", "default"}
  /\ failed \in BOOLEAN
  /\ \A i \in DOMAIN ran : ran[i] \in Calls1
  /\ reply.state \in {"waiting", "sent", "rejected"}
  /\ reply.state = "sent" => reply.body # "none"

Sent == reply.state = "sent" /\ reply.body # "aborted"
Ran(h) == \E i \in DOMAIN ran : ran[i].hook = h
Threw(h) == \E i \in DOMAIN ran : ran[i].hook = h /\ ran[i].did = "throw"
Wrote(h) == \E i \in DOMAIN ran : ran[i].hook = h /\ ran[i].did \in {"write", "fork"}
Unappliable == Wrote(poison)

GuardHooks == HooksOf({"request", "beforeHandle"}
                      \cup (IF mode = "router" THEN {"routeBefore"} ELSE {}))

(* The handler runs only when every guard of its way has run before it and *)
(* let the request pass: no order of stages, halts and throws leads around *)
(* a guard (runHooks, hook-engine.ts:86-149; run.ts:225-255).              *)
HandlerGated ==
  \A i \in DOMAIN ran : ran[i].hook = "handler" =>
    \A g \in GuardHooks : \E j \in 1 .. i - 1 :
      ran[j].hook = g /\ ran[j].did \in {"next", "write", "fork"}

(* The plugins see every reply of the app, halts and errors included       *)
(* (run.ts:198-201, 257-259), unless the error came from the response      *)
(* stages themselves or from applying the reply.                           *)
AppDecorates ==
  Sent /\ mode \in App /\ ~Unappliable /\ (\A h \in PostHooks : ~Threw(h)) => Ran(Plugins)

(* The same of the routes of the router, as docs/router.md:78-79 has it.   *)
EveryReplyDecorated ==
  Sent /\ mode \in Routes /\ ~Unappliable /\ (\A h \in PostHooks : ~Threw(h)) => Ran(Plugins)

(* A response hook is called once for a request: an error thrown by the    *)
(* response stages is not fed through them again (postRan, run.ts:162-164).*)
PostOnce ==
  \A i, j \in DOMAIN ran : ran[i].hook \in PostHooks /\ ran[i].hook = ran[j].hook => i = j

(* Observers are shown the response before applySet (run.ts:220-222,       *)
(* 276-287; router.ts:285-288), and nothing else comes between the two:    *)
(* what goes out is the response they saw with `set' applied to it, or the *)
(* redirect that `set' asks for.                                           *)
AppliedToSeen ==
  Sent /\ ~Unappliable =>
    \A i \in DOMAIN ran :
      ran[i].hook \in Observers => reply.body = Body(ran[i].saw, reply.applied)

(* Each is given "the finalized response", as run.ts:274-275 has it: the   *)
(* one that goes out, to which nothing is applied any more.                *)
FinalizedSeen ==
  Sent => \A i \in DOMAIN ran :
    ran[i].hook \in Observers => ran[i].saw = reply.body /\ reply.applied = {}

(* A request that failed is never answered with what its handler or its    *)
(* guards had made before: the reply comes from the error stage, or from a *)
(* response hook that was shown a reply of the error stage -- or it is the *)
(* redirect that a hook had set, which the app's applySet still prefers.   *)
ErrorReplies == {"default"} \cup HooksOf({"error"})
ErrorReplaces ==
  Sent /\ failed =>
    \/ reply.body \in ErrorReplies
    \/ reply.body = "redirect" /\ reply.applied = {Redirects}
    \/ \E i \in DOMAIN ran : /\ ran[i].hook = reply.body /\ ran[i].hook \in PostHooks
                             /\ \/ ran[i].saw \in ErrorReplies
                                \/ \E j \in 1 .. i - 1 : /\ ran[j].hook = ran[i].saw
                                                         /\ ran[j].saw \in ErrorReplies

(* Every mutation of ctx.set that a hook or the handler made is in the     *)
(* reply of a route that did not fail, whoever replaced the context on the *)
(* way; a redirect among them is all that goes out (run.ts:281-287;        *)
(* router.ts:287-288; headers.ts:296-304).                                 *)
SetDelivered ==
  Sent /\ mode \in Routes /\ ~failed =>
    reply.applied = Delivered({h \in HookNames \cup {"handler"} : Wrote(h)})

(* ... and what the guards wrote is in the app's error reply, once they    *)
(* have all passed (run.ts:156-158, 198-201).                              *)
ErrorKeepsSet ==
  Sent /\ mode \in App /\ failed /\ Ran("handler") =>
    \A g \in GuardHooks : Wrote(g) => g \in reply.applied \/ Redirects \in reply.applied

(* A route always answers: only a `set' that cannot be applied to the      *)
(* error reply either makes the app reject, and nothing the router.        *)
RoutesAnswer ==
  reply.state = "rejected" => mode \notin Routes \/ (mode \in App /\ Unappliable)

(* A reply of the app is shown to its plugins, and to each of them once.   *)
DecoratedOnce == AppDecorates /\ PostOnce

(* A route answers, with what applySet makes of the response its observers *)
(* saw, and never with a response that an error has superseded.            *)
ReplyRight == RoutesAnswer /\ AppliedToSeen /\ ErrorReplaces

(* No mutation of `set' is lost, on the way of a reply or of an error.     *)
SetKept == SetDelivered /\ ErrorKeepsSet
=============================================================================
