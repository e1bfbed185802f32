--------------------------- MODULE GatewayRequest ---------------------------
(* Chat completions through the gateway: the Rust data plane                 *)
(* (gateway-rs/src/main.rs) asks the control plane                           *)
(* (routers/gateway_runtime.py) for a plan of routes, calls the providers    *)
(* step by step with retries and fallbacks, and has the answer checked,      *)
(* cached and recorded before the client gets it.                            *)
(*                                                                           *)
(* Requests share the prompt cache, the cooldowns and the rows the cost caps *)
(* are computed from.  Every call between the two planes may be lost, either *)
(* side may die, and a provider may bill for an answer nobody receives.      *)
(* Requests with "stream": true are left out: none of them is finalized.     *)
EXTENDS GatewayRoutes, Integers, Sequences, FiniteSets, FiniteSetsExt

CONSTANTS
  Requests,    \* chat completion requests
  Caching,     \* those that use the prompt cache
  Prompts,     \* what make_cache_key tells apart
  PromptOf,    \* the prompt a request arrives with
  PreparedAs,  \* what the context compiler and the guardrails make of a prompt
  Queues,      \* the orders in which a preflight may come upon the routes
  Retries,     \* retry_count of each route
  Cools,       \* the routes with cooldown_seconds
  Limit,       \* the cost cap of each route in answers, or Null
  MirrorOf     \* the route of the alias in mirror_config, or Null

Triggers == {"timeout", "content_policy", "context_window"}

ASSUME RequestsAssumption ==
  /\ Caching \subseteq Requests
  /\ PromptOf \in [Requests -> Prompts] /\ PreparedAs \in [Prompts -> Prompts]
ASSUME RoutesAssumption ==
  /\ Queues \subseteq Seq([route : Routes, on : SUBSET Triggers])
  /\ Retries \in [Routes -> Nat] /\ Cools \subseteq Routes
  /\ Limit \in [Routes -> Nat \cup {Null}]
  /\ MirrorOf \in [Routes -> Routes \cup {Null}]

VARIABLES
  req,      \* what the two planes hold of each request
  answer,   \* what the client of each request was told
  cache,    \* the prompt_cache row of each prompt
  cooling,  \* routes whose cooldown_until is in the future
  logged,   \* success rows of gateway_requests, by request and route
  billed    \* history: answers the provider of a route charged for, by request

vars == <<req, answer, cache, cooling, logged, billed>>

Outcomes == {"success", "garbled", "timeout", "overloaded", "refused"}

Phases == {"new", "planning", "calling", "reporting",                 \* data plane
           "answered", "storing", "recording", "recorded", "done"}    \* finalize

Answers == {"cached", "blocked", "unavailable", "ok", "failed",
            "exhausted", "unfinalized", "lost"}

ASSUME NullAssumption == Null \notin Nat \cup Routes \cup Answers \cup {"live", "expired"}

Steps == [route : Routes, on : SUBSET Triggers]

Arrived == [phase |-> "new", queue |-> <<>>, plan |-> <<>>, tries |-> <<>>,
            at |-> 0, seen |-> {}, result |-> "success"]

TypeOK ==
  /\ req \in [Requests -> [phase : Phases, queue : Seq(Steps), plan : Seq(Steps),
                           tries : Seq(Nat), at : Nat, seen : SUBSET Triggers,
                           result : Outcomes]]
  /\ \A q \in Requests : Len(req[q].tries) = Len(req[q].plan) /\ req[q].at <= Len(req[q].plan)
  /\ answer \in [Requests -> Answers \cup {Null}]
  /\ cache \in [Prompts -> {Null, "live", "expired"}]
  /\ cooling \subseteq Cools
  /\ logged \in [Requests -> [Routes -> Nat]]
  /\ billed \in [Requests -> [Routes -> Nat]]

Init ==
  /\ req = [q \in Requests |-> Arrived]
  /\ answer = [q \in Requests |-> Null]
  /\ cache = [p \in Prompts |-> Null]
  /\ cooling = {}
  /\ logged = [q \in Requests |-> [r \in Routes |-> 0]]
  /\ billed = [q \in Requests |-> [r \in Routes |-> 0]]

Enter(q, phase) == req' = [req EXCEPT ![q].phase = phase]

\* A client whose connection is gone cannot be told anything.
Reply(q, a) == answer' = [answer EXCEPT ![q] = IF @ = Null THEN a ELSE @]

Finish(q, a) == Enter(q, "done") /\ Reply(q, a)

-----------------------------------------------------------------------------
(* gateway_runtime_preflight *)

\* check_cache looks a prompt up as it arrived, before any guardrail.
CacheHit(q) == q \in Caching /\ cache[PromptOf[q]] = "live"

AnswerFromCache(q) ==
  /\ req[q].phase = "new" /\ CacheHit(q)
  /\ Finish(q, "cached")
  /\ UNCHANGED <<cache, cooling, logged, billed>>

\* A pre-call guardrail answers 451.
BlockPrompt(q) ==
  /\ req[q].phase = "new" /\ ~CacheHit(q)
  /\ Finish(q, "blocked")
  /\ UNCHANGED <<cache, cooling, logged, billed>>

\* choose_route_for_alias and select_routes put the active routes of the
\* primary alias first, by whatever strategy, then those of the fallbacks.
ChooseRoutes(q) ==
  /\ req[q].phase = "new" /\ ~CacheHit(q)
  /\ \E queue \in Queues :
       req' = [req EXCEPT ![q].phase = "planning", ![q].queue = queue]
  /\ UNCHANGED <<answer, cache, cooling, logged, billed>>

\* What the rows say a route has cost.
Spent(r) == MapThenSumSet(LAMBDA q : logged[q][r], Requests)

\* check_cost_cap raises 429, which takes the route out of the plan.
CostCapReached(r) == Limit[r] # Null /\ Spent(r) >= Limit[r]

PlanRoute(q) ==
  LET step == Head(req[q].queue)
      open == step.route \notin cooling /\ ~CostCapReached(step.route)
  IN /\ req[q].phase = "planning" /\ req[q].queue # <<>>
     /\ req' = [req EXCEPT ![q].queue = Tail(@),
                           ![q].plan = IF open THEN Append(@, step) ELSE @,
                           ![q].tries = IF open THEN Append(@, 0) ELSE @]
     /\ UNCHANGED <<answer, cache, cooling, logged, billed>>

\* The control plane fails, or no plan arrives: the data plane answers 502.
PreflightFails(q) ==
  /\ req[q].phase \in {"new", "planning"}
  /\ Finish(q, "unavailable")
  /\ UNCHANGED <<cache, cooling, logged, billed>>

-----------------------------------------------------------------------------
(* gateway_chat_completions: the loop over the execution steps *)

\* A step with required triggers runs only if the last failure had one of them.
Activated(step, seen) == step.on = {} \/ step.on \cap seen # {}

\* Go on with the first activated step from an index, or give up.
ProceedFrom(q, from, seen) ==
  LET plan == req[q].plan
      left == {i \in from .. Len(plan) : Activated(plan[i], seen)}
  IN IF left # {}
     THEN /\ req' = [req EXCEPT ![q].phase = "calling", ![q].at = Min(left)]
          /\ UNCHANGED answer
     ELSE Finish(q, "exhausted")

StartSteps(q) ==
  /\ req[q].phase = "planning" /\ req[q].queue = <<>>
  /\ IF req[q].plan = <<>> THEN Finish(q, "unavailable") ELSE ProceedFrom(q, 1, {})
  /\ UNCHANGED <<cache, cooling, logged, billed>>

\* classify_error_triggers: a policy or context error comes with a 400, 403 or
\* 413, a timeout from the HTTP client.
TriggersOf(outcome) ==
  CASE outcome = "timeout" -> {{"timeout"}}
    [] outcome = "refused" -> SUBSET {"content_policy", "context_window"}
    [] OTHER -> {{}}

\* A provider charges for what it answers, also when its answer comes too late
\* or is no JSON.
Charges(outcome) ==
  CASE outcome \in {"success", "garbled"} -> {1}
    [] outcome = "timeout" -> {0, 1}
    [] OTHER -> {0}

\* execute_step, one attempt.
CallProvider(q) ==
  LET at == req[q].at
      r  == req[q].plan[at].route
  IN /\ req[q].phase = "calling"
     /\ \E outcome \in Outcomes : \E seen \in TriggersOf(outcome), charge \in Charges(outcome) :
          /\ req' = [req EXCEPT ![q].phase = "reporting", ![q].tries[at] = @ + 1,
                                ![q].result = outcome, ![q].seen = seen]
          /\ billed' = [billed EXCEPT ![q][r] = @ + charge]
     /\ UNCHANGED <<answer, cache, cooling, logged>>

Transient(outcome) == outcome \in {"timeout", "overloaded"}

\* Mutant: the check of cooldown_seconds is dropped.
RouteResult_always(r, outcome) ==
  cooling' = IF Transient(outcome) THEN cooling \cup {r} ELSE cooling \ {r}

\* gateway_runtime_route_result; an answer that cannot be parsed is reported
\* as a success.
RouteResult(r, outcome) ==
  cooling' = CASE outcome \in {"success", "garbled"} -> cooling \ {r}
               [] Transient(outcome) /\ r \in Cools -> cooling \cup {r}
               [] OTHER -> cooling

\* Mutant: retry_count attempts instead of one more.
Attempts_noRetry(r) == IF Retries[r] = 0 THEN 1 ELSE Retries[r]

Attempts(r) == Retries[r] + 1

\* An error that is not transient ends the request; any other is retried, then
\* the next step runs.
AfterAttempt(q) ==
  LET at == req[q].at
      outcome == req[q].result
  IN CASE outcome = "success" -> Enter(q, "answered") /\ UNCHANGED answer
       [] outcome \in {"garbled", "refused"} -> Finish(q, "failed")
       [] Transient(outcome) ->
            IF req[q].tries[at] < Attempts(req[q].plan[at].route)
            THEN Enter(q, "calling") /\ UNCHANGED answer
            ELSE ProceedFrom(q, at + 1, req[q].seen)

\* call_route_result, whose own failure is ignored.
Report(q) ==
  /\ req[q].phase = "reporting"
  /\ RouteResult(req[q].plan[req[q].at].route, req[q].result) \/ UNCHANGED cooling
  /\ AfterAttempt(q)
  /\ UNCHANGED <<cache, logged, billed>>

CooldownEnds(r) ==
  /\ r \in cooling
  /\ cooling' = cooling \ {r}
  /\ UNCHANGED <<req, answer, cache, logged, billed>>

-----------------------------------------------------------------------------
(* gateway_runtime_finalize *)

\* A post-call or during-call guardrail answers 451: nothing is stored.
BlockAnswer(q) ==
  /\ req[q].phase = "answered"
  /\ Finish(q, "blocked")
  /\ UNCHANGED <<cache, cooling, logged, billed>>

Prepared(q) == PreparedAs[PromptOf[q]]

\* Mutant: the answer is stored before the guardrails have seen it.
CheckStored_unguarded(q) ==
  /\ req[q].phase = "answered"
  /\ cache' = [cache EXCEPT ![Prepared(q)] = IF @ = Null THEN "live" ELSE @]
  /\ \/ Enter(q, "recording") /\ UNCHANGED answer
     \/ Finish(q, "blocked")
  /\ UNCHANGED <<cooling, logged, billed>>

\* store_cache looks for a live entry of the prompt as it was prepared.
CheckStored(q) ==
  /\ req[q].phase = "answered"
  /\ Enter(q, IF q \in Caching /\ cache[Prepared(q)] # "live" THEN "storing" ELSE "recording")
  /\ UNCHANGED <<answer, cache, cooling, logged, billed>>

\* Mutant: after a failed insert store_cache starts again.
StoreAnswer_retries(q) ==
  /\ req[q].phase = "storing"
  /\ IF cache[Prepared(q)] = Null
     THEN cache' = [cache EXCEPT ![Prepared(q)] = "live"] /\ Enter(q, "recording")
     ELSE Enter(q, "answered") /\ UNCHANGED cache
  /\ UNCHANGED <<answer, cooling, logged, billed>>

\* One row per prompt, and nothing deletes expired rows.  When the insert fails
\* the rollback expires the objects of the session, and reading workspace.id
\* after it raises: finalize answers 500.
StoreAnswer(q) ==
  /\ req[q].phase = "storing"
  /\ IF cache[Prepared(q)] = Null
     THEN /\ cache' = [cache EXCEPT ![Prepared(q)] = "live"]
          /\ Enter(q, "recording") /\ UNCHANGED answer
     ELSE Finish(q, "unfinalized") /\ UNCHANGED cache
  /\ UNCHANGED <<cooling, logged, billed>>

\* Mutant: the row is written for the first route of the plan.
RecordRequest_planned(q) ==
  /\ req[q].phase = "recording"
  /\ logged' = [logged EXCEPT ![q][req[q].plan[1].route] = @ + 1]
  /\ Enter(q, "recorded")
  /\ UNCHANGED <<answer, cache, cooling, billed>>

\* _record_canonical_gateway_run and record_gateway_request, one commit.
RecordRequest(q) ==
  /\ req[q].phase = "recording"
  /\ logged' = [logged EXCEPT ![q][req[q].plan[req[q].at].route] = @ + 1]
  /\ Enter(q, "recorded")
  /\ UNCHANGED <<answer, cache, cooling, billed>>

\* The control plane dies or its response is lost, at any step of finalize.
FinalizeFails(q) ==
  /\ req[q].phase \in {"answered", "storing", "recording", "recorded"}
  /\ Finish(q, "unfinalized")
  /\ UNCHANGED <<cache, cooling, logged, billed>>

\* Mutant: the row of a mirror that failed says success.
AnswerClient_shadowError(q) ==
  LET m == MirrorOf[req[q].plan[req[q].at].route]
  IN /\ req[q].phase = "recorded"
     /\ Finish(q, "ok")
     /\ \/ UNCHANGED <<logged, billed>>
        \/ /\ m # Null /\ answer[q] = Null
           /\ billed' = [billed EXCEPT ![q][m] = @ + 1] \/ UNCHANGED billed
           /\ logged' = [logged EXCEPT ![q][m] = @ + 1]
     /\ UNCHANGED <<cache, cooling>>

\* call_mirror: the sample is not drawn, the mirror answers and is recorded, or
\* it was called in vain.  The client waits for it, and is answered all the same.
AnswerClient(q) ==
  LET m == MirrorOf[req[q].plan[req[q].at].route]
  IN /\ req[q].phase = "recorded"
     /\ Finish(q, "ok")
     /\ \/ UNCHANGED <<logged, billed>>
        \/ /\ m # Null /\ answer[q] = Null
           /\ billed' = [billed EXCEPT ![q][m] = @ + 1]
           /\ logged' = [logged EXCEPT ![q][m] = @ + 1] \/ UNCHANGED logged
     /\ UNCHANGED <<cache, cooling>>

-----------------------------------------------------------------------------
(* The environment *)

CacheExpires(p) ==
  /\ cache[p] = "live"
  /\ cache' = [cache EXCEPT ![p] = "expired"]
  /\ UNCHANGED <<req, answer, cooling, logged, billed>>

\* The data plane dies, or the client hangs up; a finalize that has begun goes
\* on in the control plane.
GatewayDies(q) ==
  /\ req[q].phase \notin {"new", "done"} /\ answer[q] = Null
  /\ Reply(q, "lost")
  /\ IF req[q].phase \in {"planning", "calling", "reporting"}
     THEN Enter(q, "done") ELSE UNCHANGED req
  /\ UNCHANGED <<cache, cooling, logged, billed>>

-----------------------------------------------------------------------------
Preflight(q) == AnswerFromCache(q) \/ BlockPrompt(q) \/ ChooseRoutes(q) \/ PlanRoute(q)
Execute(q)   == StartSteps(q) \/ CallProvider(q) \/ Report(q)
Finalize(q)  == BlockAnswer(q) \/ CheckStored(q) \/ StoreAnswer(q) \/ RecordRequest(q)
                \/ AnswerClient(q)

Next ==
  \/ \E q \in Requests : Preflight(q) \/ Execute(q) \/ Finalize(q)
                         \/ PreflightFails(q) \/ FinalizeFails(q) \/ GatewayDies(q)
  \/ \E r \in Routes : CooldownEnds(r)
  \/ \E p \in Prompts : CacheExpires(p)

\* Both planes keep running, a provider call has a timeout, and a connection
\* between the planes either answers or breaks.
Fairness == \A q \in Requests : WF_vars(Preflight(q) \/ Execute(q) \/ Finalize(q))

Spec == Init /\ [][Next]_vars /\ Fairness

-----------------------------------------------------------------------------
(* Properties *)

\* "Success logging and cache persistence": a client that got its answer in one
\* piece is in gateway_requests exactly once, on the route that answered,
\* however many attempts, fallbacks and lost reports there were.
AnsweredIsRecorded ==
  \A q \in Requests : answer[q] = "ok" => logged[q][req[q].plan[req[q].at].route] = 1

\* A success row, a mirror's too, is of a call its provider charged for: no
\* retry, lost response or restart makes the caps count what was not spent.
RecordedWasBilled ==
  \A q \in Requests, r \in Routes : logged[q][r] <= billed[q][r]

\* Routes are left one after the other, each unconditional one after all its
\* attempts, and a request is given up only when none is left.
RoutesAreExhaustedInOrder ==
  \A q \in Requests : \A i \in 1 .. Len(req[q].plan) :
    LET step == req[q].plan[i]
    IN /\ req[q].tries[i] <= Attempts(step.route)
       /\ (step.on = {} /\ (answer[q] = "exhausted"
                            \/ \E j \in i + 1 .. Len(req[q].plan) : req[q].tries[j] > 0))
            => req[q].tries[i] = Retries[step.route] + 1

\* What the cache answers was paid for by an earlier request whose prompt was
\* prepared to this one, and no guardrail blocked that request's answer.
CachedAnswersPassed ==
  \A q \in Requests : answer[q] = "cached" =>
    \E p \in Requests \ {q} :
      /\ Prepared(p) = PromptOf[q]
      /\ \E r \in Routes : billed[p][r] > 0
      /\ answer[p] \in {Null, "ok", "unfinalized", "lost"}

\* Every request ends: neither a full set of cooling routes, nor retries, nor a
\* control plane that dies in finalize keeps a client waiting for ever.
EveryRequestIsAnswered == \A q \in Requests : <>(answer[q] # Null)

-----------------------------------------------------------------------------
(* What the docs say and the code does not do. *)

\* store_cache: "insert or skip if key already exists": a prompt that is in the
\* cache already does not cost a request its answer.
StoringNeverFails == [][\A q \in Requests : StoreAnswer(q) => answer'[q] = answer[q]]_vars
=============================================================================
