--------------------------- MODULE Gateway_proofs ---------------------------
(* Proofs about the gateway: GatewayRequest, and after it RouteHealth.       *)
(*                                                                           *)
(* Spent, a sum, is opaque here: nothing depends on which routes the cost    *)
(* caps take out of a plan.                                                  *)
EXTENDS GatewayRequest, RouteHealth, TLAPS, WellFoundedInduction

\* What the planes hold of one request, and the forms of all variables.
Req == [phase : Phases, queue : Seq(Steps), plan : Seq(Steps), tries : Seq(Nat),
        at : Nat, seen : SUBSET Triggers, result : Outcomes]

Types ==
  /\ req \in [Requests -> Req]
  /\ \A q \in Requests : Len(req[q].tries) = Len(req[q].plan) /\ req[q].at <= Len(req[q].plan)
  /\ answer \in [Requests -> Answers \cup {Null}]
  /\ cache \in [Prompts -> {Null, "live", "expired"}]
  /\ cooling \subseteq Cools
  /\ logged \in [Requests -> [Routes -> Nat]]
  /\ billed \in [Requests -> [Routes -> Nat]]

\* A request holds a route from its first call to its end in finalize.
Answering == {"answered", "storing", "recording", "recorded"}
Routed    == {"calling", "reporting"} \cup Answering

\* The route of the step a request is at.
RouteOf(r) == r.plan[r.at].route

\* A client is told something when its request is done, or knows that it lost
\* its connection while finalize went on.
Told(r, a) ==
  /\ r.phase \notin {"done"} \cup Answering => a = Null
  /\ r.phase \in Answering => a \in {Null, "lost"}
  /\ r.phase = "done" => a # Null

\* The steps before the current one were tried in full, those after it not.
Tried(r, a) ==
  /\ r.phase \in {"new", "planning"} => r.at = 0
  /\ r.phase \in Routed \/ a = "ok" => r.at >= 1
  /\ \A i \in 1 .. Len(r.plan) :
       /\ r.tries[i] <= Attempts(r.plan[i].route)
       /\ r.plan[i].on = {} /\ (i < r.at \/ a = "exhausted")
            => r.tries[i] = Attempts(r.plan[i].route)
       /\ i > r.at => r.tries[i] = 0
  /\ r.phase = "calling" => r.tries[r.at] < Attempts(RouteOf(r))

\* A mirror of the route itself would be a second row of it.
MirrorsElsewhere == \A r \in Routes : MirrorOf[r] # r

\* An answer is charged for before it is recorded, and recorded before it is
\* given.
Paid(r, a, l, b) ==
  /\ \A x \in Routes : l[x] <= b[x]
  /\ r.phase \notin {"recorded", "done"} => \A x \in Routes : l[x] = 0
  /\ r.phase \in Answering \/ (r.phase = "reporting" /\ r.result = "success")
       => b[RouteOf(r)] >= 1
  /\ r.phase = "recorded" => l[RouteOf(r)] = 1
  /\ a = "ok" /\ MirrorsElsewhere => l[RouteOf(r)] = 1

\* Request p had an answer, which passed the guardrails and was stored or about
\* to be.
Passed(p) ==
  /\ req[p].phase \in {"recording", "recorded", "done"}
  /\ \E r \in Routes : billed[p][r] > 0
  /\ answer[p] \in {Null, "ok", "unfinalized", "lost"}

\* A cache row, expired or not, has a request that stored it.
Cached ==
  \A x \in Prompts : cache[x] # Null => \E p \in Requests : Prepared(p) = x /\ Passed(p)

\* An answer from the cache was another request's.
Hits ==
  \A q \in Requests : answer[q] = "cached" =>
    \E p \in Requests \ {q} : Prepared(p) = PromptOf[q] /\ Passed(p)

\* The inductive invariant.
Each == \A q \in Requests : /\ Told(req[q], answer[q]) /\ Tried(req[q], answer[q])
                            /\ Paid(req[q], answer[q], logged[q], billed[q])

Inv == Types /\ Each /\ Cached /\ Hits

-----------------------------------------------------------------------------
\* A set of numbers has a least one.
LEMMA MinFacts ==
  ASSUME NEW S \in SUBSET Nat, S # {}
  PROVE  Min(S) \in S /\ \A n \in S : Min(S) <= n
<1> DEFINE R == {ss \in Nat \X Nat : ss[1] < ss[2]}
<1>1. IsWellFoundedOn(R, Nat)
  BY NatLessThanWellFounded DEF OpToRel
<1> HIDE DEF R
<1>2. PICK m \in S : \A n \in S : ~(<<n, m>> \in R)
  BY <1>1, WFMin
<1>3. \A n \in S : n < m => <<n, m>> \in R
  BY DEF R
<1>4. \A n \in S : ~(n < m)
  BY <1>2, <1>3
<1>5. m \in Nat /\ \A n \in S : n \in Nat
  OBVIOUS
<1>6. \A n \in S : m <= n
  BY <1>4, <1>5
<1>7. QED  BY <1>6 DEF Min

\* The inductive invariant holds at the start.
LEMMA InitInv == Init => Inv
<1> SUFFICES ASSUME Init  PROVE Inv
  OBVIOUS
<1>1. Arrived \in Req
  BY DEF Arrived, Req, Phases, Outcomes
<1>2. /\ Arrived.phase = "new" /\ Arrived.at = 0 /\ Arrived.plan = <<>> /\ Arrived.tries = <<>>
      /\ Len(Arrived.plan) = 0 /\ Len(Arrived.tries) = 0
  BY DEF Arrived
<1>3. Types
  BY <1>1, <1>2 DEF Init, Types
<1>4. ASSUME NEW q \in Requests
      PROVE  /\ Told(req[q], answer[q]) /\ Tried(req[q], answer[q])
             /\ Paid(req[q], answer[q], logged[q], billed[q])
  <2>1. /\ req[q] = Arrived /\ answer[q] = Null
        /\ \A r \in Routes : logged[q][r] = 0 /\ billed[q][r] = 0
    BY DEF Init
  <2>2. Told(req[q], answer[q])
    BY <1>2, <2>1 DEF Told, Answering
  <2>3. Tried(req[q], answer[q])
    BY <1>2, <2>1, NullAssumption DEF Tried, Routed, Answering, Answers
  <2>4. Paid(req[q], answer[q], logged[q], billed[q])
    BY <1>2, <2>1, NullAssumption DEF Paid, Answering, Answers
  <2>5. QED  BY <2>2, <2>3, <2>4
<1>5. Cached
  BY DEF Init, Cached
<1>6. Hits
  BY NullAssumption DEF Init, Hits, Answers
<1>7. QED  BY <1>3, <1>4, <1>5, <1>6 DEF Inv, Each

-----------------------------------------------------------------------------
\* All of it that one request's own fields decide.
Good(r, a, l, b) ==
  /\ r \in Req /\ Len(r.tries) = Len(r.plan) /\ r.at <= Len(r.plan)
  /\ a \in Answers \cup {Null} /\ l \in [Routes -> Nat] /\ b \in [Routes -> Nat]
  /\ Told(r, a) /\ Tried(r, a) /\ Paid(r, a, l, b)

\* A step of request q, which may bring the cache up to what q had stored.
Local(q) ==
  /\ req' = [req EXCEPT ![q] = req'[q]] /\ answer' = [answer EXCEPT ![q] = answer'[q]]
  /\ logged' = [logged EXCEPT ![q] = logged'[q]] /\ billed' = [billed EXCEPT ![q] = billed'[q]]
  /\ Good(req'[q], answer'[q], logged'[q], billed'[q])
  /\ Passed(q) => Passed(q)'
  /\ answer'[q] = "cached" => answer[q] = "cached" \/ (~Passed(q) /\ CacheHit(q))
  /\ cache' \in [Prompts -> {Null, "live", "expired"}]
  /\ \A x \in Prompts : cache'[x] # Null => cache[x] # Null \/ (Prepared(q) = x /\ Passed(q)')
  /\ cooling' \subseteq Cools

\* What the invariant says of one request.
LEMMA GoodFacts ==
  ASSUME Inv, NEW q \in Requests
  PROVE  /\ Good(req[q], answer[q], logged[q], billed[q])
         /\ req \in [Requests -> Req] /\ answer \in [Requests -> Answers \cup {Null}]
         /\ logged \in [Requests -> [Routes -> Nat]] /\ billed \in [Requests -> [Routes -> Nat]]
         /\ cache \in [Prompts -> {Null, "live", "expired"}] /\ cooling \subseteq Cools
  BY DEF Inv, Types, Each, Good

\* Such a step keeps the invariant.
LEMMA Locally ==
  ASSUME Inv, NEW q \in Requests, Local(q)
  PROVE  Inv'
<1>1. \A p \in Requests : /\ Good(req[p], answer[p], logged[p], billed[p])
                          /\ Good(req'[p], answer'[p], logged'[p], billed'[p])
  BY GoodFacts DEF Local
<1>2. Types'
  <2>1. /\ req' \in [Requests -> Req] /\ answer' \in [Requests -> Answers \cup {Null}]
        /\ logged' \in [Requests -> [Routes -> Nat]] /\ billed' \in [Requests -> [Routes -> Nat]]
    BY GoodFacts DEF Local, Good
  <2>2. \A p \in Requests : Len(req'[p].tries) = Len(req'[p].plan) /\ req'[p].at <= Len(req'[p].plan)
    BY <1>1 DEF Good
  <2>3. QED  BY <2>1, <2>2 DEF Local, Types
<1>3. Each'
  BY <1>1 DEF Each, Good
<1>4. \A p \in Requests : Passed(p) => Passed(p)'
  <2> SUFFICES ASSUME NEW p \in Requests, Passed(p), p # q  PROVE Passed(p)'
    BY DEF Local
  <2>1. /\ req'[p] = req[p] /\ answer'[p] = answer[p] /\ billed'[p] = billed[p]
    BY GoodFacts DEF Local
  <2>2. QED  BY <2>1 DEF Passed
<1>5. Cached'
  <2> SUFFICES ASSUME NEW x \in Prompts, cache'[x] # Null
               PROVE  \E p \in Requests : Prepared(p) = x /\ Passed(p)'
    BY DEF Cached, Prepared
  <2>1. CASE cache[x] # Null
    BY <1>4, <2>1 DEF Inv, Cached
  <2>2. CASE Prepared(q) = x /\ Passed(q)'
    BY <2>2
  <2>3. QED  BY <2>1, <2>2 DEF Local
<1>6. Hits'
  <2> SUFFICES ASSUME NEW h \in Requests, answer'[h] = "cached"
               PROVE  \E p \in Requests \ {h} : Prepared(p) = PromptOf[h] /\ Passed(p)'
    BY DEF Hits, Prepared
  <2>1. CASE answer[h] = "cached"
    BY <1>4, <2>1 DEF Inv, Hits
  <2>2. CASE answer[h] # "cached"
    <3>1. h = q /\ ~Passed(q) /\ CacheHit(q)
      BY <2>2, GoodFacts DEF Local
    <3>2. PromptOf[q] \in Prompts /\ cache[PromptOf[q]] # Null
      BY <3>1, RequestsAssumption, NullAssumption DEF CacheHit
    <3>3. PICK p \in Requests : Prepared(p) = PromptOf[q] /\ Passed(p)
      BY <3>2 DEF Inv, Cached
    <3>4. QED  BY <1>4, <3>1, <3>3
  <2>3. QED  BY <2>1, <2>2
<1>7. QED  BY <1>2, <1>3, <1>5, <1>6 DEF Inv

\* A step of the environment that touches no request.
LEMMA QuietInv ==
  ASSUME Inv, UNCHANGED <<req, answer, logged, billed>>, cooling' \subseteq Cools,
         cache' \in [Prompts -> {Null, "live", "expired"}],
         \A x \in Prompts : cache'[x] # Null => cache[x] # Null
  PROVE  Inv'
<1>1. Types' /\ Each'
  BY DEF Inv, Types, Each
<1>2. \A p \in Requests : Passed(p) => Passed(p)'
  BY DEF Passed
<1>3. Cached'
  BY <1>2 DEF Inv, Cached, Prepared
<1>4. Hits'
  BY <1>2 DEF Inv, Hits, Prepared
<1>5. QED  BY <1>1, <1>3, <1>4 DEF Inv

-----------------------------------------------------------------------------
\* Going on to another phase changes nothing else of a request.
SameBut(r, s, phase) ==
  /\ r \in Req /\ r.phase = phase
  /\ r.queue = s.queue /\ r.plan = s.plan /\ r.tries = s.tries /\ r.at = s.at
  /\ r.seen = s.seen /\ r.result = s.result

LEMMA EnterFacts ==
  ASSUME Inv, NEW q \in Requests, NEW phase \in Phases, Enter(q, phase)
  PROVE  /\ req' = [req EXCEPT ![q] = req'[q]]
         /\ SameBut(req'[q], req[q], phase)
<1>1. req \in [Requests -> Req] /\ req[q] \in Req
  BY DEF Inv, Types
<1>2. /\ req' = [req EXCEPT ![q] = req'[q]]
      /\ req'[q] = [req[q] EXCEPT !.phase = phase]
  BY <1>1 DEF Enter
<1>3. SameBut([req[q] EXCEPT !.phase = phase], req[q], phase)
  BY <1>1 DEF Req, SameBut
<1>4. QED  BY <1>2, <1>3

\* A client that is still there is told; one that is gone was told already.
LEMMA ReplyFacts ==
  ASSUME Inv, NEW q \in Requests, NEW a \in Answers, Reply(q, a)
  PROVE  /\ answer' = [answer EXCEPT ![q] = answer'[q]]
         /\ answer'[q] = IF answer[q] = Null THEN a ELSE answer[q]
  BY DEF Inv, Types, Reply

\* A request that ends with an answer other than "ok".
LEMMA FinishLocal ==
  ASSUME Inv, NEW q \in Requests, NEW a \in Answers \ {"ok"}, Finish(q, a),
         req[q].phase # "done",
         UNCHANGED <<cache, logged, billed>>, cooling' \subseteq Cools,
         a = "cached" => CacheHit(q) /\ req[q].phase = "new",
         req[q].phase \in {"recording", "recorded"} => a = "unfinalized",
         a = "exhausted" => \A i \in 1 .. Len(req[q].plan) :
           req[q].plan[i].on = {} => req[q].tries[i] = Attempts(req[q].plan[i].route)
  PROVE  Local(q)
<1> DEFINE r == req[q]
           s == req'[q]
<1>1. Good(r, answer[q], logged[q], billed[q])
  BY GoodFacts
<1>2. req' = [req EXCEPT ![q] = s] /\ SameBut(s, r, "done")
  BY EnterFacts DEF Finish, Phases
<1>3. /\ answer' = [answer EXCEPT ![q] = answer'[q]]
      /\ answer'[q] = IF answer[q] = Null THEN a ELSE answer[q]
  BY ReplyFacts DEF Finish
<1>4. logged'[q] = logged[q] /\ billed'[q] = billed[q]
  OBVIOUS
<1> HIDE DEF r, s
<1>5. Told(s, answer'[q])
  BY <1>2, <1>3, NullAssumption DEF Told, SameBut, Answering
<1>6. Tried(s, answer'[q])
  <2>1. s.phase \in Routed \/ answer'[q] = "ok" => s.at >= 1
    BY <1>1, <1>2, <1>3 DEF Good, Tried, SameBut, Routed, Answering
  <2>2. \A i \in 1 .. Len(s.plan) :
          /\ s.tries[i] <= Attempts(s.plan[i].route)
          /\ s.plan[i].on = {} /\ (i < s.at \/ answer'[q] = "exhausted")
               => s.tries[i] = Attempts(s.plan[i].route)
          /\ i > s.at => s.tries[i] = 0
    <3>1. answer'[q] = "exhausted" => answer[q] = "exhausted" \/ a = "exhausted"
      BY <1>3
    <3>2. QED  BY <1>1, <1>2, <3>1 DEF r, Good, Tried, SameBut
  <2>3. QED  BY <1>2, <2>1, <2>2 DEF Tried, SameBut
<1>7. Paid(s, answer'[q], logged'[q], billed'[q])
  BY <1>1, <1>2, <1>3, <1>4 DEF Good, Paid, SameBut, RouteOf, Answering
<1>8. Good(s, answer'[q], logged'[q], billed'[q])
  BY <1>1, <1>2, <1>3, <1>4, <1>5, <1>6, <1>7 DEF Good, SameBut
<1>9. Passed(q) => Passed(q)'
  <2> SUFFICES ASSUME Passed(q)  PROVE Passed(q)'
    OBVIOUS
  <2>1. r.phase \in {"recording", "recorded"}
    BY DEF r, Passed
  <2>2. a = "unfinalized"
    BY <2>1 DEF r
  <2>3. s.phase = "done"
    BY <1>2 DEF SameBut
  <2>4. answer'[q] \in {Null, "ok", "unfinalized", "lost"}
    BY <1>3, <2>2 DEF Passed
  <2>5. QED  BY <2>3, <2>4 DEF s, Passed
<1>10. answer'[q] = "cached" => answer[q] = "cached" \/ (~Passed(q) /\ CacheHit(q))
  BY <1>3 DEF Passed
<1>11. QED
  BY <1>2, <1>3, <1>8, <1>9, <1>10, GoodFacts DEF s, Local

\* check_cache answers what an earlier request stored.
LEMMA AnswerFromCacheLocal ==
  ASSUME Inv, NEW q \in Requests, AnswerFromCache(q)  PROVE Local(q)
BY FinishLocal, GoodFacts DEF AnswerFromCache, Answers

\* A guardrail ends a request that has called no provider.
LEMMA BlockPromptLocal ==
  ASSUME Inv, NEW q \in Requests, BlockPrompt(q)  PROVE Local(q)
BY FinishLocal, GoodFacts DEF BlockPrompt, Answers

\* No plan, no answer.
LEMMA PreflightFailsLocal ==
  ASSUME Inv, NEW q \in Requests, PreflightFails(q)  PROVE Local(q)
BY FinishLocal, GoodFacts DEF PreflightFails, Answers

\* So does one that fails or blocks in finalize.
LEMMA FinalizeEndsLocal ==
  ASSUME Inv, NEW q \in Requests, BlockAnswer(q) \/ FinalizeFails(q)  PROVE Local(q)
<1>1. CASE BlockAnswer(q)
  BY <1>1, FinishLocal, GoodFacts DEF BlockAnswer, Answers
<1>2. CASE FinalizeFails(q)
  BY <1>2, FinishLocal, GoodFacts DEF FinalizeFails, Answers
<1>3. QED  BY <1>1, <1>2

-----------------------------------------------------------------------------
\* A step that leaves the client, the cache and the rows as they are.
LEMMA SilentLocal ==
  ASSUME Inv, NEW q \in Requests, NEW s \in Req,
         req' = [req EXCEPT ![q] = s],
         UNCHANGED <<answer, cache, logged>>, cooling' \subseteq Cools,
         billed' = [billed EXCEPT ![q] = billed'[q]],
         req[q].phase \notin {"recording", "recorded", "done"},
         Good(s, answer[q], logged[q], billed'[q])
  PROVE  Local(q)
<1>1. req'[q] = s
  BY GoodFacts
<1>2. /\ answer' = [answer EXCEPT ![q] = answer'[q]] /\ answer'[q] = answer[q]
      /\ logged' = [logged EXCEPT ![q] = logged'[q]] /\ logged'[q] = logged[q]
  BY GoodFacts
<1>3. ~Passed(q)
  BY DEF Passed
<1>4. QED  BY <1>1, <1>2, <1>3, GoodFacts DEF Local

\* The routes are chosen before any is tried.
LEMMA ChooseRoutesLocal ==
  ASSUME Inv, NEW q \in Requests, ChooseRoutes(q)  PROVE Local(q)
<1> DEFINE r == req[q]
<1>1. PICK queue \in Queues :
        req' = [req EXCEPT ![q].phase = "planning", ![q].queue = queue]
  BY DEF ChooseRoutes
<1> DEFINE s == [[r EXCEPT !.phase = "planning"] EXCEPT !.queue = queue]
<1>2. Good(r, answer[q], logged[q], billed[q]) /\ r.phase = "new"
  BY GoodFacts DEF ChooseRoutes
<1>3. req' = [req EXCEPT ![q] = s]
  BY <1>1, GoodFacts
<1>4. queue \in Seq(Steps)
  BY RoutesAssumption DEF Steps
<1> HIDE DEF r
<1>5. /\ s \in Req /\ s.phase = "planning" /\ s.plan = r.plan /\ s.tries = r.tries
      /\ s.at = r.at
  BY <1>2, <1>4 DEF Good, Req, Phases
<1> HIDE DEF s
<1>6. Told(s, answer[q]) /\ Paid(s, answer[q], logged[q], billed[q])
  BY <1>2, <1>5, NullAssumption DEF Good, Told, Paid, Answering, Answers, RouteOf
<1>7. Tried(s, answer[q])
  BY <1>2, <1>5 DEF Good, Tried, Routed, Answering
<1>8. Good(s, answer[q], logged[q], billed[q])
  BY <1>2, <1>5, <1>6, <1>7 DEF Good
<1>9. QED
  BY <1>2, <1>3, <1>5, <1>8, SilentLocal, GoodFacts DEF r, ChooseRoutes

\* Every route may be called at least once.
LEMMA AttemptsFacts ==
  \A x \in Routes : Attempts(x) \in Nat \ {0} /\ Attempts(x) = Retries[x] + 1
BY RoutesAssumption DEF Attempts

\* A route enters the plan untried.
LEMMA PlanRouteLocal ==
  ASSUME Inv, NEW q \in Requests, PlanRoute(q)  PROVE Local(q)
<1> DEFINE r == req[q]
           step == Head(r.queue)
           open == step.route \notin cooling /\ ~CostCapReached(step.route)
           plan == IF open THEN Append(r.plan, step) ELSE r.plan
           tries == IF open THEN Append(r.tries, 0) ELSE r.tries
           s == [[[r EXCEPT !.queue = Tail(@)] EXCEPT !.plan = plan] EXCEPT !.tries = tries]
<1>1. Good(r, answer[q], logged[q], billed[q]) /\ r.phase = "planning" /\ r.queue # <<>>
  BY GoodFacts DEF PlanRoute
<1>2. req' = [req EXCEPT ![q] = s]
  BY GoodFacts DEF PlanRoute
<1>3. r \in Req /\ r.queue \in Seq(Steps) /\ r.plan \in Seq(Steps) /\ r.tries \in Seq(Nat)
      /\ Len(r.plan) = Len(r.tries)
  BY <1>1 DEF Good, Req
<1> HIDE DEF r
<1>4. step \in Steps /\ Tail(r.queue) \in Seq(Steps)
  BY <1>1, <1>3
<1> HIDE DEF step, open
<1>5. /\ plan \in Seq(Steps) /\ tries \in Seq(Nat) /\ Len(plan) = Len(tries)
      /\ Len(plan) >= Len(r.plan)
      /\ \A i \in 1 .. Len(plan) :
           \/ i \in 1 .. Len(r.plan) /\ plan[i] = r.plan[i] /\ tries[i] = r.tries[i]
           \/ i > Len(r.plan) /\ tries[i] = 0
  <2>1. CASE open
    <3>1. plan = Append(r.plan, step) /\ tries = Append(r.tries, 0)
      BY <2>1
    <3> HIDE DEF plan, tries
    <3>2. /\ plan \in Seq(Steps) /\ tries \in Seq(Nat)
          /\ Len(plan) = Len(r.plan) + 1 /\ Len(tries) = Len(r.tries) + 1
          /\ Len(r.plan) \in Nat
          /\ \A i \in 1 .. Len(r.plan) : plan[i] = r.plan[i] /\ tries[i] = r.tries[i]
          /\ tries[Len(r.tries) + 1] = 0
      BY <1>3, <1>4, <3>1
    <3>3. QED  BY <1>3, <3>2
  <2>2. CASE ~open
    BY <1>3, <2>2
  <2>3. QED  BY <2>1, <2>2
<1> HIDE DEF plan, tries
<1>6. /\ s \in Req /\ s.phase = "planning" /\ s.plan = plan /\ s.tries = tries
      /\ s.at = r.at
  BY <1>1, <1>3, <1>4, <1>5 DEF Req
<1> HIDE DEF s
<1>7. Told(s, answer[q]) /\ Paid(s, answer[q], logged[q], billed[q])
  BY <1>1, <1>6, NullAssumption DEF Good, Told, Paid, Answering, Answers, RouteOf
<1>8. answer[q] = Null /\ r.at = 0 /\ r.at \in Nat
  BY <1>1 DEF Good, Told, Tried, Answering
<1>9. Tried(s, answer[q])
  <2>0. \A i \in 1 .. Len(r.plan) : r.tries[i] = 0
    BY <1>1, <1>8 DEF Good, Tried
  <2>1. \A i \in 1 .. Len(plan) : tries[i] = 0
    BY <1>5, <2>0
  <2>2. \A i \in 1 .. Len(plan) : Attempts(plan[i].route) \in Nat \ {0}
    <3>1. \A i \in 1 .. Len(plan) : plan[i] \in Steps
      BY <1>5
    <3>2. \A x \in Steps : x.route \in Routes
      BY DEF Steps
    <3>3. \A x \in Routes : Attempts(x) \in Nat \ {0}
      BY AttemptsFacts
    <3>4. QED  BY <3>1, <3>2, <3>3
  <2>3. QED
    BY <1>6, <1>8, <2>1, <2>2, NullAssumption DEF Tried, Routed, Answering, Answers
<1>10. Good(s, answer[q], logged[q], billed[q])
  BY <1>1, <1>3, <1>5, <1>6, <1>7, <1>8, <1>9 DEF Good
<1>11. billed' = [billed EXCEPT ![q] = billed'[q]] /\ billed'[q] = billed[q]
       /\ UNCHANGED <<answer, cache, logged>> /\ cooling' \subseteq Cools
  BY GoodFacts DEF PlanRoute
<1>12. req[q].phase = "planning"
  BY DEF PlanRoute
<1>13. QED
  BY <1>2, <1>6, <1>10, <1>11, <1>12, SilentLocal

-----------------------------------------------------------------------------
\* The steps that are passed over are conditional ones.
LEMMA ProceedLocal ==
  ASSUME Inv, NEW q \in Requests, NEW from \in Nat, NEW seen \in SUBSET Triggers,
         req[q].phase \in {"planning", "reporting"}, from = req[q].at + 1,
         \A i \in 1 .. Len(req[q].plan) : i < from /\ req[q].plan[i].on = {}
           => req[q].tries[i] = Attempts(req[q].plan[i].route),
         ProceedFrom(q, from, seen),
         UNCHANGED <<cache, logged, billed>>, cooling' \subseteq Cools
  PROVE  Local(q)
<1> DEFINE r == req[q]
           left == {i \in from .. Len(r.plan) : Activated(r.plan[i], seen)}
<1>1. Good(r, answer[q], logged[q], billed[q])
  BY GoodFacts
<1>2. /\ r \in Req /\ r.plan \in Seq(Steps) /\ Len(r.plan) \in Nat /\ r.at \in Nat
      /\ r.phase \in {"planning", "reporting"} /\ from = r.at + 1
  BY <1>1 DEF Good, Req
<1>3. \A i \in from .. Len(r.plan) : i \notin left => r.plan[i].on # {}
  BY DEF Activated
<1>4. CASE left # {}
  <2> DEFINE m == Min(left)
             s == [[r EXCEPT !.phase = "calling"] EXCEPT !.at = m]
  <2>1. left \in SUBSET Nat
    BY <1>2
  <2>2. m \in left /\ \A i \in left : m <= i
    BY <1>4, <2>1, MinFacts
  <2>3. req' = [req EXCEPT ![q] = s] /\ UNCHANGED answer
    BY <1>4, GoodFacts DEF ProceedFrom
  <2>4. m \in Nat /\ m >= from /\ m >= 1 /\ m <= Len(r.plan)
    BY <1>2, <2>2
  <2>5. \A i \in from .. Len(r.plan) : i < m => r.plan[i].on # {}
    BY <1>2, <1>3, <2>2, <2>4
  <2>6. \A i \in 1 .. Len(r.plan) : i < m /\ r.plan[i].on = {}
          => r.tries[i] = Attempts(r.plan[i].route)
    BY <1>2, <2>4, <2>5
  <2> HIDE DEF left, m, r
  <2>7. /\ s \in Req /\ s.phase = "calling" /\ s.at = m /\ s.plan = r.plan
        /\ s.tries = r.tries
    BY <1>2, <2>4 DEF Req, Phases
  <2> HIDE DEF s
  <2>8. Told(s, answer[q]) /\ answer[q] = Null
    BY <1>1, <1>2, <2>7 DEF Good, Told, Answering
  <2>9. Paid(s, answer[q], logged[q], billed[q])
    BY <1>1, <1>2, <2>7, <2>8, NullAssumption DEF Good, Paid, Answering, Answers
  <2>10. Tried(s, answer[q])
    <3>1. \A i \in 1 .. Len(r.plan) :
            /\ r.tries[i] <= Attempts(r.plan[i].route)
            /\ i > m => r.tries[i] = 0
      BY <1>1, <1>2, <2>4 DEF Good, Tried
    <3>2. r.tries[m] = 0 /\ m \in 1 .. Len(r.plan)
      BY <1>1, <1>2, <2>4 DEF Good, Tried
    <3>3. r.plan[m] \in Steps
      BY <1>2, <3>2
    <3>4. r.plan[m].route \in Routes
      BY <3>3 DEF Steps
    <3>5. s.tries[s.at] < Attempts(RouteOf(s))
      BY <2>7, <3>2, <3>4, AttemptsFacts DEF RouteOf
    <3>6. answer[q] # "exhausted"
      BY <2>8, NullAssumption DEF Answers
    <3>7. QED
      BY <2>4, <2>6, <2>7, <3>1, <3>5, <3>6 DEF Tried
  <2>11. Good(s, answer[q], logged[q], billed[q])
    BY <1>1, <2>4, <2>7, <2>8, <2>9, <2>10 DEF Good
  <2>12. billed' = [billed EXCEPT ![q] = billed'[q]] /\ billed'[q] = billed[q]
    BY GoodFacts
  <2>13. QED
    BY <1>2, <2>3, <2>7, <2>11, <2>12, SilentLocal DEF r
<1>5. CASE left = {}
  <2>1. Finish(q, "exhausted")
    BY <1>5 DEF ProceedFrom
  <2>2. \A i \in 1 .. Len(r.plan) : r.plan[i].on = {}
          => r.tries[i] = Attempts(r.plan[i].route)
    BY <1>2, <1>3, <1>5
  <2>3. QED
    BY <1>2, <2>1, <2>2, FinishLocal DEF Answers
<1>6. QED  BY <1>4, <1>5

\* The first step is the first unconditional one.
LEMMA StartStepsLocal ==
  ASSUME Inv, NEW q \in Requests, StartSteps(q)  PROVE Local(q)
<1>1. Good(req[q], answer[q], logged[q], billed[q]) /\ req[q].phase = "planning"
  BY GoodFacts DEF StartSteps
<1>2. UNCHANGED <<cache, cooling, logged, billed>> /\ cooling' \subseteq Cools
  BY GoodFacts DEF StartSteps
<1>3. CASE req[q].plan = <<>>
  BY <1>1, <1>2, <1>3, FinishLocal DEF StartSteps, Answers
<1>4. CASE req[q].plan # <<>>
  <2>1. ProceedFrom(q, 1, {}) /\ req[q].at = 0
    BY <1>1, <1>4 DEF StartSteps, Good, Tried
  <2>2. \A i \in 1 .. Len(req[q].plan) : i < 1 /\ req[q].plan[i].on = {}
          => req[q].tries[i] = Attempts(req[q].plan[i].route)
    OBVIOUS
  <2>3. {} \in SUBSET Triggers /\ 1 \in Nat /\ 1 = req[q].at + 1
    BY <2>1
  <2>4. QED
    BY <1>1, <1>2, <2>1, <2>2, <2>3, ProceedLocal
<1>5. QED  BY <1>3, <1>4

\* An attempt is counted, and an answer in one piece charged for.
LEMMA CallProviderLocal ==
  ASSUME Inv, NEW q \in Requests, CallProvider(q)  PROVE Local(q)
<1> DEFINE r == req[q]
           at == r.at
           x == r.plan[at].route
<1>1. Good(r, answer[q], logged[q], billed[q]) /\ r.phase = "calling"
  BY GoodFacts DEF CallProvider
<1>0. PICK outcome \in Outcomes : \E seen \in TriggersOf(outcome), charge \in Charges(outcome) :
        /\ req' = [req EXCEPT ![q].phase = "reporting", ![q].tries[at] = @ + 1,
                              ![q].result = outcome, ![q].seen = seen]
        /\ billed' = [billed EXCEPT ![q][x] = @ + charge]
  BY DEF CallProvider
<1>2. PICK seen \in TriggersOf(outcome), charge \in Charges(outcome) :
        /\ req' = [req EXCEPT ![q].phase = "reporting", ![q].tries[at] = @ + 1,
                              ![q].result = outcome, ![q].seen = seen]
        /\ billed' = [billed EXCEPT ![q][x] = @ + charge]
  BY <1>0
<1> DEFINE tries == [r.tries EXCEPT ![at] = @ + 1]
           s == [[[[r EXCEPT !.phase = "reporting"] EXCEPT !.tries = tries]
                    EXCEPT !.result = outcome] EXCEPT !.seen = seen]
           b == [billed[q] EXCEPT ![x] = @ + charge]
<1>3. req' = [req EXCEPT ![q] = s]
  BY <1>2, GoodFacts
<1>4. billed' = [billed EXCEPT ![q] = b] /\ billed'[q] = b
  BY <1>2, GoodFacts
<1>5. seen \in SUBSET Triggers
  BY DEF TriggersOf, Triggers, Outcomes
<1>6. charge \in Nat /\ (outcome = "success" => charge = 1)
  BY DEF Charges, Outcomes
<1>7. UNCHANGED <<answer, cache, logged>> /\ cooling' \subseteq Cools
  BY GoodFacts DEF CallProvider
<1> HIDE DEF r
<1>8. /\ r \in Req /\ r.plan \in Seq(Steps) /\ r.tries \in Seq(Nat) /\ at \in Nat
      /\ Len(r.tries) = Len(r.plan) /\ at >= 1 /\ at <= Len(r.plan)
      /\ billed[q] \in [Routes -> Nat]
  BY <1>1 DEF Good, Req, Tried, Routed
<1>9. at \in 1 .. Len(r.plan) /\ r.plan[at] \in Steps
  BY <1>8
<1>10. x \in Routes
  BY <1>9 DEF Steps
<1> HIDE DEF at, x
<1>11. /\ tries \in Seq(Nat) /\ Len(tries) = Len(r.plan)
       /\ tries[at] = r.tries[at] + 1 /\ r.tries[at] \in Nat
       /\ \A i \in 1 .. Len(r.plan) : i # at => tries[i] = r.tries[i]
  BY <1>8, <1>9
<1> HIDE DEF tries
<1>12. /\ s \in Req /\ s.phase = "reporting" /\ s.tries = tries /\ s.plan = r.plan
       /\ s.at = at /\ s.result = outcome
  BY <1>1, <1>5, <1>8, <1>11 DEF at, Req, Phases
<1>13. /\ b \in [Routes -> Nat] /\ b[x] = billed[q][x] + charge
       /\ \A y \in Routes : billed[q][y] <= b[y]
  BY <1>6, <1>8, <1>10
<1> HIDE DEF s, b
<1>14. answer[q] = Null /\ Told(s, answer[q])
  BY <1>1, <1>12 DEF Good, Told, Answering
<1>15. Paid(s, answer[q], logged[q], b)
  <2>1. \A y \in Routes : logged[q][y] <= b[y] /\ logged[q][y] = 0
    <3>1. Paid(r, answer[q], logged[q], billed[q]) /\ r.phase = "calling"
      BY <1>1 DEF Good
    <3>2. \A y \in Routes : logged[q][y] = 0
      BY <3>1 DEF Paid
    <3>3. b \in [Routes -> Nat]
      BY <1>13
    <3>4. \A y \in Routes : 0 <= b[y]
      BY <3>3
    <3>5. QED  BY <3>2, <3>4
  <2>2. RouteOf(s) = x
    BY <1>12 DEF RouteOf, x, at
  <2>3. outcome = "success" => b[x] >= 1
    BY <1>6, <1>8, <1>10, <1>13
  <2>4. answer[q] # "ok"
    BY <1>14, NullAssumption DEF Answers
  <2>5. QED
    BY <1>12, <2>1, <2>2, <2>3, <2>4 DEF Paid, Answering
<1>16. Tried(s, answer[q])
  <2>1. /\ r.tries[at] < Attempts(x)
        /\ \A i \in 1 .. Len(r.plan) :
             /\ r.tries[i] <= Attempts(r.plan[i].route)
             /\ r.plan[i].on = {} /\ i < at
                  => r.tries[i] = Attempts(r.plan[i].route)
             /\ i > at => r.tries[i] = 0
    BY <1>1 DEF Good, Tried, RouteOf, at, x
  <2>2. tries[at] <= Attempts(x)
    BY <1>10, <1>11, <2>1, AttemptsFacts
  <2>3. \A i \in 1 .. Len(r.plan) :
          /\ tries[i] <= Attempts(r.plan[i].route)
          /\ r.plan[i].on = {} /\ i < at => tries[i] = Attempts(r.plan[i].route)
          /\ i > at => tries[i] = 0
    <3> SUFFICES ASSUME NEW i \in 1 .. Len(r.plan)
                 PROVE  /\ tries[i] <= Attempts(r.plan[i].route)
                        /\ r.plan[i].on = {} /\ i < at
                             => tries[i] = Attempts(r.plan[i].route)
                        /\ i > at => tries[i] = 0
      OBVIOUS
    <3>1. CASE i = at
      BY <1>8, <2>2, <3>1 DEF x
    <3>2. CASE i # at
      BY <1>11, <2>1, <3>2
    <3>3. QED  BY <3>1, <3>2
  <2>4. answer[q] \notin {"ok", "exhausted"}
    BY <1>14, NullAssumption DEF Answers
  <2>5. QED
    BY <1>8, <1>12, <2>3, <2>4 DEF Tried
<1>17. Good(s, answer[q], logged[q], b)
  BY <1>1, <1>8, <1>11, <1>12, <1>13, <1>14, <1>15, <1>16 DEF Good
<1>18. QED
  BY <1>1, <1>3, <1>4, <1>7, <1>12, <1>17, SilentLocal DEF r

\* What is reported changes only which routes are cooling.
LEMMA RouteResultFacts ==
  ASSUME Inv, NEW x, NEW outcome, RouteResult(x, outcome) \/ UNCHANGED cooling
  PROVE  cooling' \subseteq Cools
BY DEF Inv, Types, RouteResult

\* A request goes on to another phase, and everything else stays.
LEMMA EnterLocal ==
  ASSUME Inv, NEW q \in Requests, NEW phase \in Phases, Enter(q, phase),
         req[q].phase \notin {"recording", "recorded", "done"},
         UNCHANGED <<answer, cache, logged, billed>>, cooling' \subseteq Cools,
         \A s \in Req : SameBut(s, req[q], phase)
           => Good(s, answer[q], logged[q], billed[q])
  PROVE  Local(q)
<1>1. req' = [req EXCEPT ![q] = req'[q]] /\ SameBut(req'[q], req[q], phase)
  BY EnterFacts
<1>2. req'[q] \in Req
  BY <1>1 DEF SameBut
<1>3. billed' = [billed EXCEPT ![q] = billed'[q]] /\ billed'[q] = billed[q]
  BY GoodFacts
<1>4. QED
  BY <1>1, <1>2, <1>3, SilentLocal

-----------------------------------------------------------------------------
\* A retry, the next step, the answer or the end.
LEMMA ReportLocal ==
  ASSUME Inv, NEW q \in Requests, Report(q)  PROVE Local(q)
<1> DEFINE r == req[q]
           at == r.at
           x == r.plan[at].route
<1>1. Good(r, answer[q], logged[q], billed[q]) /\ r.phase = "reporting"
  BY GoodFacts DEF Report
<1>2. cooling' \subseteq Cools
  BY RouteResultFacts DEF Report
<1>3. AfterAttempt(q) /\ UNCHANGED <<cache, logged, billed>>
  BY DEF Report
<1>4. /\ r.plan \in Seq(Steps) /\ r.at \in Nat /\ Len(r.plan) \in Nat
      /\ answer[q] = Null /\ r.result \in Outcomes
  BY <1>1 DEF Good, Req, Told, Answering
<1>5. CASE r.result = "success"
  <2>1. Enter(q, "answered") /\ UNCHANGED answer
    BY <1>3, <1>5 DEF AfterAttempt, Transient
  <2>2. ASSUME NEW s \in Req, SameBut(s, r, "answered")
        PROVE  Good(s, answer[q], logged[q], billed[q])
    <3> HIDE DEF r
    <3>1. Told(s, answer[q]) /\ Tried(s, answer[q])
      BY <1>1, <1>4, <2>2 DEF Good, Told, Tried, SameBut, Answering, Routed
    <3>2. Paid(s, answer[q], logged[q], billed[q])
      BY <1>1, <1>4, <1>5, <2>2, NullAssumption
         DEF Good, Paid, SameBut, RouteOf, Answering, Answers
    <3>3. QED  BY <1>1, <2>2, <3>1, <3>2 DEF Good, SameBut
  <2>3. QED
    BY <1>1, <1>2, <1>3, <2>1, <2>2, EnterLocal DEF Phases
<1>6. CASE r.result \in {"garbled", "refused"}
  <2>1. Finish(q, "failed")
    BY <1>3, <1>6 DEF AfterAttempt, Transient
  <2>2. QED
    BY <1>1, <1>2, <1>3, <2>1, FinishLocal DEF Answers
<1>7. CASE Transient(r.result) /\ r.tries[at] < Attempts(x)
  <2>1. Enter(q, "calling") /\ UNCHANGED answer
    BY <1>3, <1>7 DEF AfterAttempt, Transient
  <2>2. ASSUME NEW s \in Req, SameBut(s, r, "calling")
        PROVE  Good(s, answer[q], logged[q], billed[q])
    <3> HIDE DEF r
    <3>1. Told(s, answer[q]) /\ Paid(s, answer[q], logged[q], billed[q])
      BY <1>1, <1>4, <2>2, NullAssumption
         DEF Good, Told, Paid, SameBut, Answering, Answers
    <3>2. Tried(s, answer[q])
      BY <1>1, <1>4, <1>7, <2>2 DEF Good, Tried, SameBut, Routed, RouteOf
    <3>3. QED  BY <1>1, <2>2, <3>1, <3>2 DEF Good, SameBut
  <2>3. QED
    BY <1>1, <1>2, <1>3, <2>1, <2>2, EnterLocal DEF Phases
<1>8. CASE Transient(r.result) /\ ~(r.tries[at] < Attempts(x))
  <2>1. ProceedFrom(q, at + 1, r.seen)
    BY <1>3, <1>8 DEF AfterAttempt, Transient
  <2>2. /\ at >= 1 /\ at <= Len(r.plan) /\ r.tries \in Seq(Nat) /\ Len(r.tries) = Len(r.plan)
        /\ \A i \in 1 .. Len(r.plan) :
             /\ r.tries[i] <= Attempts(r.plan[i].route)
             /\ r.plan[i].on = {} /\ i < at => r.tries[i] = Attempts(r.plan[i].route)
    BY <1>1 DEF Good, Tried, Routed, Req
  <2>3. at \in 1 .. Len(r.plan) /\ r.plan[at] \in Steps /\ r.tries[at] \in Nat
    BY <1>4, <2>2
  <2>4. Attempts(x) \in Nat
    BY <2>3, AttemptsFacts DEF Steps
  <2>5. r.tries[at] = Attempts(x)
    BY <1>8, <2>2, <2>3, <2>4
  <2>6. \A i \in 1 .. Len(r.plan) : i < at + 1 /\ r.plan[i].on = {}
          => r.tries[i] = Attempts(r.plan[i].route)
    <3> SUFFICES ASSUME NEW i \in 1 .. Len(r.plan), i < at + 1, r.plan[i].on = {}
                 PROVE  r.tries[i] = Attempts(r.plan[i].route)
      OBVIOUS
    <3>1. i = at \/ i < at
      BY <1>4
    <3>2. QED  BY <2>2, <2>5, <3>1
  <2>7. r.seen \in SUBSET Triggers /\ at + 1 \in Nat
    BY <1>1, <1>4 DEF Good, Req
  <2>8. PICK next \in Nat, seen \in SUBSET Triggers :
          next = at + 1 /\ ProceedFrom(q, next, seen)
    BY <2>1, <2>7 DEF ProceedFrom
  <2>9. \A i \in 1 .. Len(r.plan) : i < next /\ r.plan[i].on = {}
          => r.tries[i] = Attempts(r.plan[i].route)
    BY <2>6, <2>8
  <2>10. /\ req[q].phase \in {"planning", "reporting"} /\ cooling' \subseteq Cools
         /\ UNCHANGED <<cache, logged, billed>> /\ next = req[q].at + 1
    BY <1>1, <1>2, <1>3, <2>8
  <2>11. ProceedFrom(q, next, seen)
    BY <2>8
  <2> HIDE DEF at, x
  <2>12. QED
    BY <2>9, <2>10, <2>11, ProceedLocal
<1>9. QED
  BY <1>4, <1>5, <1>6, <1>7, <1>8 DEF Outcomes, Transient

-----------------------------------------------------------------------------
\* An answer that is cached already is recorded next, any other stored.
LEMMA CheckStoredLocal ==
  ASSUME Inv, NEW q \in Requests, CheckStored(q)  PROVE Local(q)
<1>1. /\ Good(req[q], answer[q], logged[q], billed[q]) /\ req[q].phase = "answered"
      /\ cooling' \subseteq Cools /\ UNCHANGED <<answer, cache, logged, billed>>
  BY GoodFacts DEF CheckStored
<1>2. PICK phase \in {"recording", "storing"} : Enter(q, phase)
  BY DEF CheckStored
<1>3. ASSUME NEW s \in Req, SameBut(s, req[q], phase)
      PROVE  Good(s, answer[q], logged[q], billed[q])
  <2>1. Told(s, answer[q]) /\ Tried(s, answer[q])
    BY <1>1, <1>3 DEF Good, Told, Tried, SameBut, Answering, Routed
  <2>2. Paid(s, answer[q], logged[q], billed[q])
    BY <1>1, <1>3, NullAssumption
       DEF Good, Told, Paid, SameBut, RouteOf, Answering, Answers
  <2>3. QED  BY <1>1, <1>3, <2>1, <2>2 DEF Good, SameBut
<1>4. QED
  BY <1>1, <1>2, <1>3, EnterLocal DEF Phases

\* A request holds a route of its plan from the first call on.
LEMMA RouteOfFacts ==
  ASSUME NEW r \in Req, r.at >= 1, r.at <= Len(r.plan)  PROVE RouteOf(r) \in Routes
<1>1. r.plan \in Seq(Steps) /\ r.at \in 1 .. Len(r.plan)
  BY DEF Req
<1>2. r.plan[r.at] \in Steps
  BY <1>1
<1>3. QED  BY <1>2 DEF RouteOf, Steps

\* What is stored was charged for, and no guardrail can block it any more.
LEMMA StoreAnswerLocal ==
  ASSUME Inv, NEW q \in Requests, StoreAnswer(q)  PROVE Local(q)
<1>1. /\ Good(req[q], answer[q], logged[q], billed[q]) /\ req[q].phase = "storing"
      /\ cooling' \subseteq Cools /\ UNCHANGED <<logged, billed>>
  BY GoodFacts DEF StoreAnswer
<1>2. CASE cache[Prepared(q)] = Null
  <2>1. /\ cache' = [cache EXCEPT ![Prepared(q)] = "live"]
        /\ Enter(q, "recording") /\ UNCHANGED answer
    BY <1>2 DEF StoreAnswer
  <2>2. req' = [req EXCEPT ![q] = req'[q]] /\ SameBut(req'[q], req[q], "recording")
    BY <2>1, EnterFacts DEF Phases
  <2>3. /\ answer' = [answer EXCEPT ![q] = answer'[q]] /\ answer'[q] = answer[q]
        /\ logged' = [logged EXCEPT ![q] = logged'[q]] /\ logged'[q] = logged[q]
        /\ billed' = [billed EXCEPT ![q] = billed'[q]] /\ billed'[q] = billed[q]
    BY <1>1, <2>1, GoodFacts
  <2>4. answer[q] \in {Null, "lost"}
    BY <1>1 DEF Good, Told, Answering
  <2>5. /\ Told(req'[q], answer[q]) /\ Tried(req'[q], answer[q])
        /\ Paid(req'[q], answer[q], logged[q], billed[q])
    <3>1. Told(req'[q], answer[q]) /\ Tried(req'[q], answer[q])
      BY <1>1, <2>2, <2>4 DEF Good, Told, Tried, SameBut, Answering, Routed
    <3>2. Paid(req'[q], answer[q], logged[q], billed[q])
      BY <1>1, <2>2, <2>4, NullAssumption
         DEF Good, Paid, SameBut, RouteOf, Answering, Answers
    <3>3. QED  BY <3>1, <3>2
  <2>6. Good(req'[q], answer'[q], logged'[q], billed'[q])
    BY <1>1, <2>2, <2>3, <2>5 DEF Good, SameBut
  <2>7. Passed(q)' /\ ~Passed(q)
    <3>1. RouteOf(req[q]) \in Routes /\ billed[q][RouteOf(req[q])] >= 1
      BY <1>1, RouteOfFacts DEF Good, Tried, Routed, Answering, Paid
    <3>2. billed[q] \in [Routes -> Nat]
      BY <1>1 DEF Good
    <3>3. \E x \in Routes : billed[q][x] > 0
      BY <3>1, <3>2
    <3>4. QED
      BY <1>1, <2>2, <2>3, <2>4, <3>3 DEF Passed, SameBut
  <2>8. /\ cache' \in [Prompts -> {Null, "live", "expired"}]
        /\ \A x \in Prompts : cache'[x] # Null => cache[x] # Null \/ Prepared(q) = x
    BY <2>1, GoodFacts
  <2>9. answer'[q] = "cached" => answer[q] = "cached"
    BY <2>3
  <2>10. QED
    BY <1>1, <2>2, <2>3, <2>6, <2>7, <2>8, <2>9 DEF Local
<1>3. CASE cache[Prepared(q)] # Null
  BY <1>1, <1>3, FinishLocal DEF StoreAnswer, Answers
<1>4. QED  BY <1>2, <1>3

\* The row is of the route that answered, which was charged for.
LEMMA RecordRequestLocal ==
  ASSUME Inv, NEW q \in Requests, RecordRequest(q)  PROVE Local(q)
<1> DEFINE r == req[q]
           x == RouteOf(r)
           l == [logged[q] EXCEPT ![x] = @ + 1]
<1>1. /\ Good(r, answer[q], logged[q], billed[q]) /\ r.phase = "recording"
      /\ cooling' \subseteq Cools /\ UNCHANGED <<answer, cache, billed>>
      /\ cache' \in [Prompts -> {Null, "live", "expired"}]
  BY GoodFacts DEF RecordRequest
<1>2. req' = [req EXCEPT ![q] = req'[q]] /\ SameBut(req'[q], r, "recorded")
  BY EnterFacts DEF RecordRequest, Phases
<1>3. logged' = [logged EXCEPT ![q] = l] /\ logged'[q] = l
  BY GoodFacts DEF RecordRequest, RouteOf
<1>4. /\ answer' = [answer EXCEPT ![q] = answer'[q]] /\ answer'[q] = answer[q]
      /\ billed' = [billed EXCEPT ![q] = billed'[q]] /\ billed'[q] = billed[q]
  BY <1>1, GoodFacts
<1>5. x \in Routes
  BY <1>1, RouteOfFacts DEF Good, Tried, Routed, Answering
<1> HIDE DEF x
<1>6. /\ logged[q] \in [Routes -> Nat] /\ billed[q] \in [Routes -> Nat]
      /\ \A y \in Routes : logged[q][y] = 0
      /\ billed[q][x] >= 1
  BY <1>1 DEF x, Good, Paid, Answering
<1>7. l \in [Routes -> Nat] /\ l[x] = 1 /\ \A y \in Routes : l[y] <= billed[q][y]
  BY <1>5, <1>6
<1> HIDE DEF l
<1>8. answer[q] \in {Null, "lost"}
  BY <1>1 DEF Good, Told, Answering
<1>9. Told(req'[q], answer[q]) /\ Tried(req'[q], answer[q])
  BY <1>1, <1>2, <1>8 DEF Good, Told, Tried, SameBut, Answering, Routed
<1>10. Paid(req'[q], answer[q], l, billed[q])
  <2>1. RouteOf(req'[q]) = x
    BY <1>2 DEF RouteOf, SameBut, x
  <2>2. QED
    BY <1>2, <1>6, <1>7, <1>8, <2>1, NullAssumption DEF Paid, SameBut, Answers
<1>11. Good(req'[q], answer'[q], logged'[q], billed'[q])
  BY <1>1, <1>2, <1>3, <1>4, <1>7, <1>9, <1>10 DEF Good, SameBut
<1>12. Passed(q) => Passed(q)'
  BY <1>2, <1>4 DEF Passed, SameBut
<1>13. answer'[q] = "cached" => answer[q] = "cached"
  BY <1>4
<1>14. QED
  BY <1>1, <1>2, <1>3, <1>4, <1>11, <1>12, <1>13 DEF Local

\* A mirror adds at most what it was charged for, to another route.
LEMMA AnswerClientLocal ==
  ASSUME Inv, NEW q \in Requests, AnswerClient(q)  PROVE Local(q)
<1> DEFINE r == req[q]
           x == RouteOf(r)
           m == MirrorOf[x]
           l == logged'[q]
           b == billed'[q]
<1>1. /\ Good(r, answer[q], logged[q], billed[q]) /\ r.phase = "recorded"
      /\ cooling' \subseteq Cools /\ UNCHANGED cache
      /\ cache' \in [Prompts -> {Null, "live", "expired"}]
  BY GoodFacts DEF AnswerClient
<1>2. req' = [req EXCEPT ![q] = req'[q]] /\ SameBut(req'[q], r, "done")
  BY EnterFacts DEF AnswerClient, Finish, Phases
<1>3. /\ answer' = [answer EXCEPT ![q] = answer'[q]]
      /\ answer'[q] = IF answer[q] = Null THEN "ok" ELSE answer[q]
  BY ReplyFacts DEF AnswerClient, Finish, Answers
<1>4. x \in Routes
  BY <1>1, RouteOfFacts DEF Good, Tried, Routed, Answering
<1>5. /\ logged \in [Requests -> [Routes -> Nat]] /\ billed \in [Requests -> [Routes -> Nat]]
      /\ logged[q] \in [Routes -> Nat] /\ billed[q] \in [Routes -> Nat]
      /\ logged[q][x] = 1 /\ \A y \in Routes : logged[q][y] <= billed[q][y]
  BY <1>1, GoodFacts DEF Good, Paid
<1>6. /\ m = Null \/ m \in Routes
      /\ MirrorsElsewhere => m # x
  BY <1>4, RoutesAssumption DEF MirrorsElsewhere
<1>7. \/ UNCHANGED <<logged, billed>>
      \/ /\ m \in Routes
         /\ billed' = [billed EXCEPT ![q][m] = @ + 1]
         /\ logged' = [logged EXCEPT ![q][m] = @ + 1] \/ UNCHANGED logged
  BY <1>6 DEF AnswerClient, RouteOf
<1> HIDE DEF x, m
<1>8. /\ logged' = [logged EXCEPT ![q] = l] /\ billed' = [billed EXCEPT ![q] = b]
      /\ l \in [Routes -> Nat] /\ b \in [Routes -> Nat]
      /\ \A y \in Routes : l[y] <= b[y] /\ b[y] >= billed[q][y]
      /\ MirrorsElsewhere => l[x] = 1
  <2>1. CASE UNCHANGED <<logged, billed>>
    BY <1>5, <2>1
  <2>2. CASE /\ m \in Routes
             /\ billed' = [billed EXCEPT ![q][m] = @ + 1]
             /\ logged' = [logged EXCEPT ![q][m] = @ + 1] \/ UNCHANGED logged
    <3>1. b = [billed[q] EXCEPT ![m] = @ + 1]
      BY <1>5, <2>2
    <3>2. l = [logged[q] EXCEPT ![m] = @ + 1] \/ l = logged[q]
      BY <1>5, <2>2
    <3>3. logged' = [logged EXCEPT ![q] = l] /\ billed' = [billed EXCEPT ![q] = b]
      BY <1>5, <2>2
    <3> HIDE DEF l, b
    <3>4. /\ l \in [Routes -> Nat] /\ b \in [Routes -> Nat]
          /\ \A y \in Routes : l[y] <= b[y] /\ b[y] >= billed[q][y]
      <4>1. /\ b \in [Routes -> Nat] /\ b[m] = billed[q][m] + 1
            /\ \A y \in Routes : y # m => b[y] = billed[q][y]
        BY <1>5, <2>2, <3>1
      <4>2. /\ l \in [Routes -> Nat] /\ l[m] <= logged[q][m] + 1
            /\ \A y \in Routes : y # m => l[y] = logged[q][y]
        BY <1>5, <2>2, <3>2
      <4>3. \A y \in Routes : logged[q][y] \in Nat /\ billed[q][y] \in Nat
        BY <1>5
      <4>4. ASSUME NEW y \in Routes
            PROVE  l[y] <= b[y] /\ b[y] >= billed[q][y]
        <5>1. CASE y = m
          BY <1>5, <2>2, <4>1, <4>2, <4>3, <5>1
        <5>2. CASE y # m
          BY <1>5, <4>1, <4>2, <4>3, <5>2
        <5>3. QED  BY <5>1, <5>2
      <4>5. QED  BY <4>1, <4>2, <4>4
    <3>5. MirrorsElsewhere => l[x] = 1
      BY <1>4, <1>5, <1>6, <2>2, <3>2
    <3>6. QED  BY <3>3, <3>4, <3>5
  <2>3. QED  BY <1>7, <2>1, <2>2
<1> HIDE DEF l, b, r
<1>9. answer[q] \in {Null, "lost"}
  BY <1>1 DEF Good, Told, Answering
<1>10. answer'[q] \in {"ok", "lost"}
  BY <1>3, <1>9
<1>11. Told(req'[q], answer'[q]) /\ Tried(req'[q], answer'[q])
  <2>1. Told(req'[q], answer'[q])
    BY <1>2, <1>10, NullAssumption DEF Told, SameBut, Answering, Answers
  <2>2. Tried(req'[q], answer'[q])
    BY <1>1, <1>2, <1>10 DEF Good, Tried, SameBut, Routed, Answering
  <2>3. QED  BY <2>1, <2>2
<1>12. Paid(req'[q], answer'[q], l, b)
  <2>1. RouteOf(req'[q]) = x
    BY <1>2 DEF RouteOf, SameBut, x
  <2>2. QED
    BY <1>2, <1>8, <2>1 DEF Paid, SameBut, Answering
<1>13. Good(req'[q], answer'[q], l, b)
  BY <1>1, <1>2, <1>8, <1>10, <1>11, <1>12 DEF Good, SameBut, Answers
<1>14. Passed(q) => Passed(q)'
  <2> SUFFICES ASSUME Passed(q)  PROVE Passed(q)'
    OBVIOUS
  <2>1. PICK y \in Routes : billed[q][y] > 0
    BY DEF Passed
  <2>2. b[y] > 0
    BY <1>5, <1>8, <2>1
  <2>3. QED
    BY <1>2, <1>10, <2>2 DEF b, Passed, SameBut
<1>15. answer'[q] = "cached" => answer[q] = "cached"
  BY <1>10
<1>16. QED
  BY <1>1, <1>2, <1>3, <1>8, <1>13, <1>14, <1>15 DEF l, b, Local

\* A client that is gone loses its request, or only the answer to it.
LEMMA GatewayDiesLocal ==
  ASSUME Inv, NEW q \in Requests, GatewayDies(q)  PROVE Local(q)
<1>1. /\ Good(req[q], answer[q], logged[q], billed[q])
      /\ req[q].phase \notin {"new", "done"} /\ answer[q] = Null
      /\ Reply(q, "lost") /\ UNCHANGED <<cache, cooling, logged, billed>>
  BY GoodFacts DEF GatewayDies
<1>2. CASE req[q].phase \in {"planning", "calling", "reporting"}
  <2>1. Finish(q, "lost")
    BY <1>1, <1>2 DEF GatewayDies, Finish
  <2>2. cooling' \subseteq Cools
    BY <1>1, GoodFacts
  <2>3. QED
    BY <1>1, <1>2, <2>1, <2>2, FinishLocal DEF Answers
<1>3. CASE req[q].phase \notin {"planning", "calling", "reporting"}
  <2>1. UNCHANGED req /\ req[q].phase \in Answering
    BY <1>1, <1>3 DEF GatewayDies, Good, Req, Phases, Answering
  <2>2. answer' = [answer EXCEPT ![q] = answer'[q]] /\ answer'[q] = "lost"
    BY <1>1, ReplyFacts DEF Answers
  <2>3. /\ req' = [req EXCEPT ![q] = req'[q]] /\ req'[q] = req[q]
        /\ logged' = [logged EXCEPT ![q] = logged'[q]] /\ logged'[q] = logged[q]
        /\ billed' = [billed EXCEPT ![q] = billed'[q]] /\ billed'[q] = billed[q]
        /\ UNCHANGED cache /\ cache' \in [Prompts -> {Null, "live", "expired"}]
        /\ cooling' \subseteq Cools
    BY <1>1, <2>1, GoodFacts
  <2>4. Told(req[q], "lost") /\ Tried(req[q], "lost")
        /\ Paid(req[q], "lost", logged[q], billed[q])
    BY <1>1, <2>1, NullAssumption DEF Good, Told, Tried, Paid, Answering, Answers
  <2>5. Good(req'[q], answer'[q], logged'[q], billed'[q])
    BY <1>1, <2>2, <2>3, <2>4 DEF Good, Answers
  <2>6. Passed(q) => Passed(q)'
    BY <2>2, <2>3 DEF Passed
  <2>7. QED
    BY <2>2, <2>3, <2>5, <2>6 DEF Local
<1>4. QED  BY <1>2, <1>3

-----------------------------------------------------------------------------
\* Every step keeps the inductive invariant.
LEMMA NextInv == Inv /\ [Next]_vars => Inv'
<1> SUFFICES ASSUME Inv, [Next]_vars  PROVE Inv'
  OBVIOUS
<1>1. ASSUME NEW q \in Requests,
             Preflight(q) \/ Execute(q) \/ Finalize(q)
             \/ PreflightFails(q) \/ FinalizeFails(q) \/ GatewayDies(q)
      PROVE  Local(q)
  <2>1. CASE Preflight(q) \/ PreflightFails(q)
    BY <2>1, AnswerFromCacheLocal, BlockPromptLocal, ChooseRoutesLocal, PlanRouteLocal,
       PreflightFailsLocal DEF Preflight
  <2>2. CASE Execute(q)
    BY <2>2, StartStepsLocal, CallProviderLocal, ReportLocal DEF Execute
  <2>3. CASE Finalize(q) \/ FinalizeFails(q)
    BY <2>3, FinalizeEndsLocal, CheckStoredLocal, StoreAnswerLocal, RecordRequestLocal,
       AnswerClientLocal DEF Finalize
  <2>4. CASE GatewayDies(q)
    BY <2>4, GatewayDiesLocal
  <2>5. QED  BY <1>1, <2>1, <2>2, <2>3, <2>4
<1>2. ASSUME NEW r \in Routes, CooldownEnds(r)  PROVE Inv'
  BY <1>2, QuietInv DEF CooldownEnds, Inv, Types
<1>3. ASSUME NEW p \in Prompts, CacheExpires(p)  PROVE Inv'
  <2>1. /\ cache' \in [Prompts -> {Null, "live", "expired"}] /\ cooling' \subseteq Cools
        /\ UNCHANGED <<req, answer, logged, billed>>
    BY <1>3 DEF CacheExpires, Inv, Types
  <2>2. \A x \in Prompts : cache'[x] # Null => cache[x] # Null
    BY <1>3, NullAssumption DEF CacheExpires, Inv, Types
  <2>3. QED  BY <2>1, <2>2, QuietInv
<1>4. CASE UNCHANGED vars
  BY <1>4, QuietInv DEF vars, Inv, Types
<1>5. QED  BY <1>1, <1>2, <1>3, <1>4, Locally DEF Next

\* The inductive invariant holds throughout.
LEMMA InvHolds == Spec => []Inv
BY InitInv, NextInv, PTL DEF Spec

\* Every variable keeps the form the code gives it, and a request is always at
\* a step of its own plan.
THEOREM TypeCorrect == Spec => []TypeOK
<1>1. Inv => TypeOK
  BY DEF Inv, Types, Req, TypeOK
<1>2. QED  BY <1>1, InvHolds, PTL

\* Finalize writes the row of a chat completion before the client is answered,
\* and once: where no route mirrors itself, the route that answered has one
\* success row, whatever was retried, lost or restarted.
THEOREM AnswersAreRecordedOnce == Spec => [](MirrorsElsewhere => AnsweredIsRecorded)
<1>1. Inv => (MirrorsElsewhere => AnsweredIsRecorded)
  BY DEF Inv, Each, Paid, RouteOf, AnsweredIsRecorded
<1>2. QED  BY <1>1, InvHolds, PTL

\* The rows behind the cost caps, a mirror's too, never say more of a route
\* than its provider charged for.
THEOREM RowsAreBilled == Spec => []RecordedWasBilled
<1>1. Inv => RecordedWasBilled
  BY DEF Inv, Each, Paid, RecordedWasBilled
<1>2. QED  BY <1>1, InvHolds, PTL

\* However retries, triggers and fallbacks interleave, the data plane leaves an
\* unconditional step of the plan only after all its attempts.
THEOREM RoutesInOrder == Spec => []RoutesAreExhaustedInOrder
<1>1. Inv => RoutesAreExhaustedInOrder
  <2> SUFFICES ASSUME Inv, NEW q \in Requests, NEW i \in 1 .. Len(req[q].plan)
               PROVE  LET step == req[q].plan[i]
                      IN /\ req[q].tries[i] <= Attempts(step.route)
                         /\ (step.on = {}
                             /\ (answer[q] = "exhausted"
                                 \/ \E j \in i + 1 .. Len(req[q].plan) : req[q].tries[j] > 0))
                              => req[q].tries[i] = Retries[step.route] + 1
    BY DEF RoutesAreExhaustedInOrder
  <2>1. Good(req[q], answer[q], logged[q], billed[q])
    BY GoodFacts
  <2>2. /\ Len(req[q].plan) \in Nat /\ req[q].at \in Nat
        /\ req[q].plan[i] \in Steps
    BY <2>1 DEF Good, Req
  <2>3. Attempts(req[q].plan[i].route) = Retries[req[q].plan[i].route] + 1
    BY DEF Attempts
  <2>4. (\E j \in i + 1 .. Len(req[q].plan) : req[q].tries[j] > 0) => i < req[q].at
    <3> SUFFICES ASSUME NEW j \in i + 1 .. Len(req[q].plan), req[q].tries[j] > 0
                 PROVE  i < req[q].at
      OBVIOUS
    <3>1. j \in 1 .. Len(req[q].plan) /\ i < j
      BY <2>2
    <3>2. ~(j > req[q].at)
      BY <2>1, <3>1 DEF Good, Tried
    <3>3. QED  BY <2>2, <3>1, <3>2
  <2>5. QED
    BY <2>1, <2>3, <2>4 DEF Good, Tried
<1>2. QED  BY <1>1, InvHolds, PTL

\* The prompt cache never answers what a guardrail blocked, and nothing it
\* answers was not paid for, however requests of one prepared prompt interleave.
THEOREM CacheIsPaidFor == Spec => []CachedAnswersPassed
<1>1. Inv => CachedAnswersPassed
  BY DEF Inv, Hits, Passed, CachedAnswersPassed
<1>2. QED  BY <1>1, InvHolds, PTL

-----------------------------------------------------------------------------
(* RouteHealth *)

\* Columns that somebody is about to write to a row.
Columns(columns) ==
  /\ DOMAIN columns \subseteq {"active", "autoDisable", "failures", "reason"}
  /\ "active" \in DOMAIN columns => columns["active"] \in BOOLEAN
  /\ "autoDisable" \in DOMAIN columns => columns["autoDisable"] \in BOOLEAN
  /\ "failures" \in DOMAIN columns => columns["failures"] \in Counts
  /\ "reason" \in DOMAIN columns => columns["reason"] \in Reasons

\* The worker's reason is there only if a run has disabled the route, and none
\* has enabled it since.
Marked(route, r, own) == route["reason"] = "Auto-disabled" => r \in own

\* A run enables only what was suspended when it began, and clears the reason with
\* it; it leaves its reason only where it disables.
Update(columns, r, own) ==
  /\ Columns(columns)
  /\ "active" \in DOMAIN columns /\ columns["active"]
       => r \in own /\ "reason" \in DOMAIN columns
  /\ "reason" \in DOMAIN columns /\ columns["reason"] = "Auto-disabled"
       => "active" \in DOMAIN columns /\ ~columns["active"]

RunOK(run) ==
  \/ run = NoRun
  \/ /\ DOMAIN run = {"loaded", "todo", "updates", "suspended"} /\ run.suspended \subseteq Routes
     /\ run.loaded \in [Routes -> Rows] /\ \A r \in Routes : Marked(run.loaded[r], r, run.suspended)
     /\ run.todo \subseteq Routes /\ run.todo \cup DOMAIN run.updates = Routes
     /\ \A r \in DOMAIN run.updates : Update(run.updates[r], r, run.suspended)

\* A report touches neither is_active nor the worker's reason.
ReportOK(rep) ==
  /\ DOMAIN rep = {"route", "columns"} /\ rep.route \in Routes \cup {Null}
  /\ rep.columns # Null =>
       /\ rep.route \in Routes
       /\ Columns(rep.columns) /\ DOMAIN rep.columns \subseteq {"failures", "reason"}
       /\ "reason" \in DOMAIN rep.columns => rep.columns["reason"] # "Auto-disabled"

\* An operator edits no reason.
PutOK(p) ==
  /\ DOMAIN p = {"route", "columns"} /\ p.route \in Routes \cup {Null}
  /\ p # NoPut => p.route \in Routes
  /\ Columns(p.columns) /\ DOMAIN p.columns \subseteq {"active", "autoDisable"}

RowsOK    == /\ row \in [Routes -> Rows] /\ window \in [Routes -> Verdicts] /\ suspended \subseteq Routes
             /\ \A r \in Routes : Marked(row[r], r, suspended)
WorkersOK == DOMAIN worker = Workers /\ \A w \in Workers : RunOK(worker[w])
ReportsOK == DOMAIN report = Reports /\ \A s \in Reports : ReportOK(report[s])
PutsOK    == DOMAIN put = Operators /\ \A o \in Operators : PutOK(put[o])

HealthInv == RowsOK /\ WorkersOK /\ ReportsOK /\ PutsOK

-----------------------------------------------------------------------------
\* Counts stay within the threshold.
LEMMA CountFacts == 0 \in Counts /\ \A n \in Counts : Count(n) \in Counts
  BY ThresholdAssumption DEF Counts, Count

\* The inductive invariant holds at the start.
LEMMA HealthInitInv == HealthInit => HealthInv
<1> SUFFICES ASSUME HealthInit  PROVE HealthInv
  OBVIOUS
<1>1. RowsOK
  <2>1. row \in [Routes -> Rows]
    BY CountFacts DEF HealthInit, Rows, Reasons
  <2>2. \A r \in Routes : Marked(row[r], r, suspended)
    BY ReasonsAssumption DEF HealthInit, Marked
  <2>3. QED  BY <2>1, <2>2 DEF HealthInit, RowsOK, Verdicts
<1>2. WorkersOK
  BY DEF HealthInit, WorkersOK, RunOK
<1>3. ReportsOK
  BY DEF HealthInit, ReportsOK, ReportOK, NoReport
<1>4. PutsOK
  BY DEF HealthInit, PutsOK, PutOK, NoPut, Columns
<1>5. QED  BY <1>1, <1>2, <1>3, <1>4 DEF HealthInv

\* A row with some of its columns written is a row.
LEMMA WriteFacts ==
  ASSUME NEW old \in Rows, NEW columns, Columns(columns)
  PROVE  /\ Write(old, columns) \in Rows
         /\ \A c \in {"active", "autoDisable", "failures", "reason"} :
              Write(old, columns)[c] = IF c \in DOMAIN columns THEN columns[c] ELSE old[c]
<1> DEFINE new == Write(old, columns)
<1>1. DOMAIN old = {"active", "autoDisable", "failures", "reason"}
  BY DEF Rows
<1>2. /\ old["active"] \in BOOLEAN /\ old["autoDisable"] \in BOOLEAN
      /\ old["failures"] \in Counts /\ old["reason"] \in Reasons
  BY DEF Rows
<1>3. /\ DOMAIN new = {"active", "autoDisable", "failures", "reason"}
      /\ \A c \in {"active", "autoDisable", "failures", "reason"} :
           new[c] = IF c \in DOMAIN columns THEN columns[c] ELSE old[c]
      /\ new = [c \in {"active", "autoDisable", "failures", "reason"} |-> new[c]]
  BY <1>1 DEF Write
<1> HIDE DEF new
<1>4. /\ new["active"] \in BOOLEAN /\ new["autoDisable"] \in BOOLEAN
      /\ new["failures"] \in Counts /\ new["reason"] \in Reasons
  BY <1>2, <1>3 DEF Columns
<1>5. new = [active |-> new["active"], autoDisable |-> new["autoDisable"],
             failures |-> new["failures"], reason |-> new["reason"]]
  BY <1>3
<1>6. new \in Rows
  BY <1>4, <1>5 DEF Rows
<1>7. QED  BY <1>3, <1>6 DEF new

\* What a run decides about a route, whatever it has loaded.
LEMMA JudgeFacts ==
  ASSUME NEW verdict \in Verdicts, NEW route \in Rows, NEW r, NEW own, Marked(route, r, own)
  PROVE  Update(Judge(verdict, route), r, own)
<1>1. /\ route["active"] \in BOOLEAN /\ route["autoDisable"] \in BOOLEAN
      /\ route["failures"] \in Counts /\ route["reason"] \in Reasons
  BY DEF Rows
<1>2. Update(Reset(route), r, own) /\ Update(<<>>, r, own)
  BY CountFacts DEF Reset, Update, Columns
<1>3. CASE verdict = "bad"
  <2>1. Judge(verdict, route) = BadWindow(route)
    BY <1>3 DEF Judge
  <2> DEFINE n == Count(route.failures)
  <2>2. n \in Counts
    BY <1>1, CountFacts
  <2>3. \/ BadWindow(route) = [failures |-> n]
        \/ BadWindow(route) = [failures |-> n, active |-> FALSE, reason |-> "Auto-disabled"]
    BY DEF BadWindow
  <2> HIDE DEF n
  <2>4. Update([failures |-> n], r, own)
    BY <2>2 DEF Update, Columns
  <2>5. Update([failures |-> n, active |-> FALSE, reason |-> "Auto-disabled"], r, own)
    BY <2>2 DEF Update, Columns, Reasons
  <2>6. QED  BY <2>1, <2>3, <2>4, <2>5
<1>4. CASE verdict = "good"
  <2>1. Judge(verdict, route) = GoodWindow(route)
    BY <1>4 DEF Judge
  <2>2. CASE ~route.active /\ route.reason = "Auto-disabled"
    <3>1. r \in own
      BY <2>2 DEF Marked
    <3>2. GoodWindow(route) = [active |-> TRUE, reason |-> Null, failures |-> 0]
      BY <2>2 DEF GoodWindow
    <3>3. Update([active |-> TRUE, reason |-> Null, failures |-> 0], r, own)
      BY <3>1, CountFacts, ReasonsAssumption DEF Update, Columns, Reasons
    <3>4. QED  BY <2>1, <3>2, <3>3
  <2>3. CASE ~(~route.active /\ route.reason = "Auto-disabled")
    BY <1>2, <2>1, <2>3 DEF GoodWindow
  <2>4. QED  BY <2>2, <2>3
<1>5. CASE verdict = "thin"
  BY <1>2, <1>5 DEF Judge, ThinWindow
<1>6. QED  BY <1>3, <1>4, <1>5 DEF Verdicts

\* A step that writes no row: the other variables may move.
LEMMA HealthQuietInv ==
  ASSUME HealthInv, UNCHANGED <<row, suspended>>, window' \in [Routes -> Verdicts],
         DOMAIN worker' = Workers, \A w \in Workers : worker'[w] = worker[w] \/ RunOK(worker'[w]),
         DOMAIN report' = Reports, \A s \in Reports : report'[s] = report[s] \/ ReportOK(report'[s]),
         DOMAIN put' = Operators, \A o \in Operators : put'[o] = put[o] \/ PutOK(put'[o])
  PROVE  HealthInv'
<1>1. RowsOK'
  BY DEF HealthInv, RowsOK
<1>2. WorkersOK'
  BY DEF HealthInv, WorkersOK
<1>3. ReportsOK'
  BY DEF HealthInv, ReportsOK
<1>4. PutsOK'
  BY DEF HealthInv, PutsOK
<1>5. QED  BY <1>1, <1>2, <1>3, <1>4 DEF HealthInv

\* Traffic, and its absence.
LEMMA WindowInv ==
  ASSUME HealthInv, NEW r \in Routes, Traffic(r) \/ Aging(r) \/ WindowEmpties(r)
  PROVE  HealthInv'
<1>1. \E verdict \in Verdicts : window' = [window EXCEPT ![r] = verdict]
  BY DEF Traffic, Aging, WindowEmpties, Verdicts
<1>2. window' \in [Routes -> Verdicts]
  BY <1>1 DEF HealthInv, RowsOK
<1>3. UNCHANGED <<row, suspended, worker, report, put>>
  BY DEF Traffic, Aging, WindowEmpties
<1>4. QED  BY <1>2, <1>3, HealthQuietInv DEF HealthInv, WorkersOK, ReportsOK, PutsOK

\* A run of the worker begins, or ends without a trace.
LEMMA LoadOrAbortInv ==
  ASSUME HealthInv, NEW w \in Workers, LoadRoutes(w) \/ AbortRun(w)
  PROVE  HealthInv'
<1> DEFINE load == [loaded |-> row, todo |-> Routes, updates |-> <<>>, suspended |-> suspended]
<1>1. RunOK(NoRun) /\ RunOK(load)
  BY DEF RunOK, HealthInv, RowsOK
<1>2. worker' = [worker EXCEPT ![w] = load] \/ worker' = [worker EXCEPT ![w] = NoRun]
  BY DEF LoadRoutes, AbortRun
<1> HIDE DEF load
<1>3. UNCHANGED <<row, suspended, window, report, put>>
  BY DEF LoadRoutes, AbortRun
<1>4. DOMAIN worker' = Workers /\ \A v \in Workers : worker'[v] = worker[v] \/ RunOK(worker'[v])
  BY <1>1, <1>2 DEF HealthInv, WorkersOK
<1>5. QED  BY <1>3, <1>4, HealthQuietInv DEF HealthInv, RowsOK, ReportsOK, PutsOK

\* A run decides about a route.
LEMMA CheckRouteInv ==
  ASSUME HealthInv, NEW w \in Workers, NEW r \in Routes, CheckRoute(w, r)
  PROVE  HealthInv'
<1> DEFINE u == Judge(window[r], worker[w].loaded[r])
           updates == Extend(worker[w].updates, r, u)
           run == [[worker[w] EXCEPT !.todo = worker[w].todo \ {r}] EXCEPT !.updates = updates]
<1>1. worker' = [worker EXCEPT ![w] = run] /\ UNCHANGED <<row, suspended, window, report, put>>
  BY DEF CheckRoute
<1> DEFINE own == worker[w].suspended
<1>2. /\ DOMAIN worker[w] = {"loaded", "todo", "updates", "suspended"} /\ own \subseteq Routes
      /\ worker[w].loaded \in [Routes -> Rows] /\ \A x \in Routes : Marked(worker[w].loaded[x], x, own)
      /\ worker[w].todo \subseteq Routes /\ worker[w].todo \cup DOMAIN worker[w].updates = Routes
      /\ \A x \in DOMAIN worker[w].updates : Update(worker[w].updates[x], x, own)
  <2>1. worker[w] # NoRun
    BY DEF CheckRoute, NoRun
  <2>2. QED  BY <2>1 DEF HealthInv, WorkersOK, RunOK
<1>3. Update(u, r, own)
  BY <1>2, JudgeFacts DEF HealthInv, RowsOK
<1>4. run.loaded = worker[w].loaded /\ run.todo = worker[w].todo \ {r} /\ run.updates = updates
      /\ run.suspended = own /\ DOMAIN run = {"loaded", "todo", "updates", "suspended"}
  BY <1>2
<1> HIDE DEF u
<1>5. DOMAIN updates = DOMAIN worker[w].updates \cup {r}
      /\ \A x \in DOMAIN updates : updates[x] = IF x = r THEN u ELSE worker[w].updates[x]
  BY DEF Extend
<1> HIDE DEF run, updates
<1>6. RunOK(run)
  BY <1>2, <1>3, <1>4, <1>5 DEF RunOK
<1>7. DOMAIN worker' = Workers /\ \A v \in Workers : worker'[v] = worker[v] \/ RunOK(worker'[v])
  BY <1>1, <1>6 DEF HealthInv, WorkersOK
<1>8. QED  BY <1>1, <1>7, HealthQuietInv DEF HealthInv, RowsOK, ReportsOK, PutsOK

\* The updates of a run that is about to commit.
LEMMA UpdatesFacts ==
  ASSUME HealthInv, NEW w \in Workers, CommitRun(w)
  PROVE  \A r \in Routes : Update(worker[w].updates[r], r, worker[w].suspended)
<1>1. worker[w] # NoRun /\ worker[w].todo = {}
  BY DEF CommitRun
<1>2. DOMAIN worker[w].updates = Routes
      /\ \A r \in DOMAIN worker[w].updates : Update(worker[w].updates[r], r, worker[w].suspended)
  BY <1>1 DEF HealthInv, WorkersOK, RunOK
<1>3. QED  BY <1>2

\* A run commits all it has decided.
LEMMA CommitRunInv ==
  ASSUME HealthInv, NEW w \in Workers, CommitRun(w)  PROVE HealthInv'
<1> DEFINE updates == worker[w].updates
<1>1. /\ row' = [r \in Routes |-> Write(row[r], updates[r])]
      /\ suspended' = (suspended \cup {r \in Routes : Disables(updates[r])})
                        \ {r \in Routes : Enables(updates[r])}
      /\ worker' = [worker EXCEPT ![w] = NoRun]
      /\ UNCHANGED <<window, report, put>>
  BY DEF CommitRun
<1>2. \A r \in Routes : Update(updates[r], r, worker[w].suspended)
  BY UpdatesFacts
<1> HIDE DEF updates
<1>3. \A r \in Routes : /\ Write(row[r], updates[r]) \in Rows
                        /\ Marked(Write(row[r], updates[r]), r, suspended')
  <2> TAKE r \in Routes
  <2>1. /\ row[r] \in Rows /\ Marked(row[r], r, suspended)
        /\ Update(updates[r], r, worker[w].suspended)
    BY <1>2 DEF HealthInv, RowsOK
  <2>2. /\ Write(row[r], updates[r]) \in Rows
        /\ Write(row[r], updates[r])["reason"] =
             IF "reason" \in DOMAIN updates[r] THEN updates[r]["reason"] ELSE row[r]["reason"]
    BY <2>1, WriteFacts DEF Update
  <2>3. CASE "reason" \in DOMAIN updates[r] /\ updates[r]["reason"] = "Auto-disabled"
    <3>1. Disables(updates[r]) /\ ~Enables(updates[r])
      BY <2>1, <2>3 DEF Update, Disables, Enables
    <3>2. QED  BY <1>1, <2>2, <3>1 DEF Marked
  <2>4. CASE ~("reason" \in DOMAIN updates[r] /\ updates[r]["reason"] = "Auto-disabled")
    <3>1. CASE Enables(updates[r])
      BY <2>1, <2>2, <2>4, <3>1 DEF Marked, Update, Enables
    <3>2. CASE ~Enables(updates[r])
      BY <1>1, <2>1, <2>2, <2>4, <3>2 DEF Marked
    <3>3. QED  BY <3>1, <3>2
  <2>5. QED  BY <2>3, <2>4
<1>4. RowsOK'
  BY <1>1, <1>3 DEF HealthInv, RowsOK
<1>5. WorkersOK'
  BY <1>1 DEF HealthInv, WorkersOK, RunOK
<1>6. ReportsOK' /\ PutsOK'
  BY <1>1 DEF HealthInv, ReportsOK, PutsOK
<1>7. QED  BY <1>4, <1>5, <1>6 DEF HealthInv

-----------------------------------------------------------------------------
\* The columns an ORM session writes.
LEMMA ChangedFacts ==
  ASSUME NEW old, NEW new, Columns(new)
  PROVE  /\ Columns(Changed(old, new)) /\ DOMAIN Changed(old, new) \subseteq DOMAIN new
         /\ \A c \in DOMAIN Changed(old, new) : Changed(old, new)[c] = new[c]
  BY DEF Columns, Changed

\* What a report will write.
LEMMA ReportColumns ==
  ASSUME NEW old \in Rows, NEW columns \in {SuccessColumns(old)} \cup FailureColumns(old)
  PROVE  /\ Columns(columns) /\ DOMAIN columns \subseteq {"failures", "reason"}
         /\ "reason" \in DOMAIN columns => columns["reason"] # "Auto-disabled"
<1> DEFINE n == Count(old.failures)
           cleared == [failures |-> 0, reason |-> Null]
<1>1. old.failures \in Counts
  BY DEF Rows
<1>2. n \in Counts
  BY <1>1, CountFacts
<1>3. CASE columns = SuccessColumns(old)
  <2>1. /\ DOMAIN cleared = {"failures", "reason"} /\ cleared["failures"] \in Counts
        /\ cleared["reason"] = Null
    BY CountFacts
  <2> HIDE DEF cleared
  <2>2. Columns(cleared)
    BY <2>1 DEF Columns, Reasons
  <2>3. columns = Changed(old, cleared)
    BY <1>3 DEF SuccessColumns, cleared
  <2>4. QED  BY <2>1, <2>2, <2>3, ChangedFacts, ReasonsAssumption
<1>4. CASE columns \in FailureColumns(old)
  <2>1. columns = [failures |-> n, reason |-> "error"] \/ columns = [failures |-> n]
    BY <1>4 DEF FailureColumns
  <2> HIDE DEF n
  <2>2. QED  BY <1>2, <2>1 DEF Columns, Reasons
<1>5. QED  BY <1>3, <1>4

\* A report is made ready, or lost.
LEMMA ReportQuietInv ==
  ASSUME HealthInv, NEW s \in Reports,
         (\E r \in Routes : CallRoute(s, r)) \/ ReadReported(s) \/ LoseReport(s)
  PROVE  HealthInv'
<1>1. UNCHANGED <<row, suspended, window, worker, put>>
  BY DEF CallRoute, ReadReported, LoseReport
<1>2. ReportOK(report[s]) /\ DOMAIN report = Reports
  BY DEF HealthInv, ReportsOK
<1>3. \E rep : ReportOK(rep) /\ report' = [report EXCEPT ![s] = rep]
  <2>1. ASSUME NEW r \in Routes, CallRoute(s, r)
        PROVE  \E rep : ReportOK(rep) /\ report' = [report EXCEPT ![s] = rep]
    <3> DEFINE rep == [report[s] EXCEPT !.route = r]
    <3>1. report' = [report EXCEPT ![s] = rep] /\ report[s] = NoReport
      BY <2>1 DEF CallRoute
    <3>2. rep.route = r /\ rep.columns = Null /\ DOMAIN rep = {"route", "columns"}
      BY <1>2, <3>1 DEF ReportOK, NoReport
    <3> HIDE DEF rep
    <3>3. ReportOK(rep)
      BY <3>2 DEF ReportOK
    <3>4. QED  BY <3>1, <3>3
  <2>2. CASE ReadReported(s)
    <3> DEFINE old == row[report[s].route]
    <3>1. PICK columns \in {SuccessColumns(old)} \cup FailureColumns(old) :
            report' = [report EXCEPT ![s].columns = columns]
      BY <2>2 DEF ReadReported
    <3> DEFINE rep == [report[s] EXCEPT !.columns = columns]
    <3>2. report' = [report EXCEPT ![s] = rep] /\ report[s].route # Null
      BY <2>2, <3>1 DEF ReadReported
    <3>3. report[s].route \in Routes
      BY <1>2, <3>2 DEF ReportOK
    <3>4. old \in Rows
      BY <3>3 DEF HealthInv, RowsOK
    <3>5. rep.route = report[s].route /\ rep.columns = columns /\ DOMAIN rep = {"route", "columns"}
      BY <1>2 DEF ReportOK
    <3> HIDE DEF rep, old
    <3>6. ReportOK(rep)
      BY <3>3, <3>4, <3>5, ReportColumns DEF ReportOK
    <3>7. QED  BY <3>2, <3>6
  <2>3. CASE LoseReport(s)
    BY <2>3 DEF LoseReport, ReportOK, NoReport
  <2>4. QED  BY <2>1, <2>2, <2>3
<1>4. DOMAIN report' = Reports /\ \A x \in Reports : report'[x] = report[x] \/ ReportOK(report'[x])
  BY <1>2, <1>3
<1>5. QED  BY <1>1, <1>4, HealthQuietInv DEF HealthInv, RowsOK, WorkersOK, PutsOK

\* A row gets columns with which no run is concerned.
LEMMA WriteInv ==
  ASSUME HealthInv, NEW r \in Routes, NEW columns, Columns(columns),
         "reason" \in DOMAIN columns => columns["reason"] # "Auto-disabled",
         row' = [row EXCEPT ![r] = Write(row[r], columns)],
         UNCHANGED <<window, worker, suspended>>,
         DOMAIN report' = Reports, \A s \in Reports : report'[s] = report[s] \/ ReportOK(report'[s]),
         DOMAIN put' = Operators, \A o \in Operators : put'[o] = put[o] \/ PutOK(put'[o])
  PROVE  HealthInv'
<1>1. row \in [Routes -> Rows] /\ \A x \in Routes : Marked(row[x], x, suspended)
  BY DEF HealthInv, RowsOK
<1>2. Write(row[r], columns) \in Rows /\ Marked(Write(row[r], columns), r, suspended)
  BY <1>1, WriteFacts DEF Marked
<1>3. RowsOK'
  BY <1>1, <1>2 DEF HealthInv, RowsOK
<1>4. WorkersOK' /\ ReportsOK' /\ PutsOK'
  BY DEF HealthInv, WorkersOK, ReportsOK, PutsOK
<1>5. QED  BY <1>3, <1>4 DEF HealthInv

\* A report is written.
LEMMA CommitReportInv ==
  ASSUME HealthInv, NEW s \in Reports, CommitReport(s)
  PROVE  HealthInv' /\ \A r \in Routes : row'[r].active = row[r].active
<1> DEFINE r == report[s].route
           columns == report[s].columns
<1>1. /\ row' = [row EXCEPT ![r] = Write(row[r], columns)]
      /\ report' = [report EXCEPT ![s] = NoReport]
      /\ UNCHANGED <<window, worker, put, suspended>> /\ columns # Null
  BY DEF CommitReport
<1>2. /\ DOMAIN report = Reports /\ r \in Routes
      /\ Columns(columns) /\ DOMAIN columns \subseteq {"failures", "reason"}
      /\ "reason" \in DOMAIN columns => columns["reason"] # "Auto-disabled"
  BY <1>1 DEF HealthInv, ReportsOK, ReportOK
<1> HIDE DEF r, columns
<1>3. row \in [Routes -> Rows]
  BY DEF HealthInv, RowsOK
<1>4. Write(row[r], columns)["active"] = row[r]["active"]
  BY <1>2, <1>3, WriteFacts
<1>5. ReportOK(NoReport)
  BY DEF ReportOK, NoReport
<1>6. HealthInv'
  BY <1>1, <1>2, <1>5, WriteInv DEF HealthInv, PutsOK
<1>7. QED  BY <1>1, <1>2, <1>3, <1>4, <1>6

\* An operator's request reads a route.
LEMMA ReadRouteInv ==
  ASSUME HealthInv, NEW o \in Operators, NEW r \in Routes, NEW edit \in Edits, ReadRoute(o, r, edit)
  PROVE  HealthInv'
<1> DEFINE columns == Changed(row[r], edit)
           p == [route |-> r, columns |-> columns]
<1>1. put' = [put EXCEPT ![o] = p] /\ UNCHANGED <<row, suspended, window, worker, report>>
  BY DEF ReadRoute
<1>2. Columns(edit) /\ DOMAIN edit \subseteq {"active", "autoDisable"}
  BY DEF Edits, Columns
<1>3. Columns(columns) /\ DOMAIN columns \subseteq {"active", "autoDisable"}
  BY <1>2, ChangedFacts
<1> HIDE DEF columns
<1>4. PutOK(p)
  BY <1>3 DEF PutOK
<1> HIDE DEF p
<1>5. DOMAIN put' = Operators /\ \A x \in Operators : put'[x] = put[x] \/ PutOK(put'[x])
  BY <1>1, <1>4 DEF HealthInv, PutsOK
<1>6. QED  BY <1>1, <1>5, HealthQuietInv DEF HealthInv, RowsOK, WorkersOK, ReportsOK

\* An operator's request is written.
LEMMA UpdateRouteInv ==
  ASSUME HealthInv, NEW o \in Operators, UpdateRoute(o)
  PROVE  /\ HealthInv'
         /\ \A r \in Routes : r # put[o].route => row'[r] = row[r]
<1> DEFINE r == put[o].route
           columns == put[o].columns
<1>1. /\ row' = [row EXCEPT ![r] = Write(row[r], columns)]
      /\ put' = [put EXCEPT ![o] = NoPut]
      /\ UNCHANGED <<window, worker, report, suspended>> /\ put[o] # NoPut
  BY DEF UpdateRoute
<1>2. /\ DOMAIN put = Operators /\ r \in Routes
      /\ Columns(columns) /\ DOMAIN columns \subseteq {"active", "autoDisable"}
  BY <1>1 DEF HealthInv, PutsOK, PutOK
<1> HIDE DEF columns
<1>3. PutOK(NoPut)
  BY DEF PutOK, NoPut, Columns
<1>4. HealthInv'
  BY <1>1, <1>2, <1>3, WriteInv DEF HealthInv, ReportsOK
<1>5. QED  BY <1>1, <1>4 DEF HealthInv, RowsOK

\* Every step keeps the inductive invariant.
LEMMA HealthNextInv == HealthInv /\ [HealthNext]_healthVars => HealthInv'
<1> SUFFICES ASSUME HealthInv, [HealthNext]_healthVars  PROVE HealthInv'
  OBVIOUS
<1>1. ASSUME NEW r \in Routes, Traffic(r) \/ Aging(r) \/ WindowEmpties(r)  PROVE HealthInv'
  BY <1>1, WindowInv
<1>2. ASSUME NEW w \in Workers, LoadRoutes(w) \/ CommitRun(w) \/ AbortRun(w)  PROVE HealthInv'
  BY <1>2, LoadOrAbortInv, CommitRunInv
<1>3. ASSUME NEW w \in Workers, NEW r \in Routes, CheckRoute(w, r)  PROVE HealthInv'
  BY <1>3, CheckRouteInv
<1>4. ASSUME NEW s \in Reports, NEW r \in Routes, CallRoute(s, r)  PROVE HealthInv'
  BY <1>4, ReportQuietInv
<1>5. ASSUME NEW s \in Reports, ReadReported(s) \/ CommitReport(s) \/ LoseReport(s)  PROVE HealthInv'
  BY <1>5, ReportQuietInv, CommitReportInv
<1>6. ASSUME NEW o \in Operators, NEW r \in Routes, NEW edit \in Edits, ReadRoute(o, r, edit)
      PROVE  HealthInv'
  BY <1>6, ReadRouteInv
<1>7. ASSUME NEW o \in Operators, UpdateRoute(o)  PROVE HealthInv'
  BY <1>7, UpdateRouteInv
<1>8. CASE UNCHANGED healthVars
  BY <1>8, HealthQuietInv DEF healthVars, HealthInv, RowsOK, WorkersOK, ReportsOK, PutsOK
<1>9. QED
  BY <1>1, <1>2, <1>3, <1>4, <1>5, <1>6, <1>7, <1>8 DEF HealthNext

\* A route comes back by an operator, or by a run that found it suspended.
LEMMA StepBringsBack ==
  ASSUME HealthInv, [HealthNext]_healthVars, NEW r \in Routes, ~row[r].active, row'[r].active
  PROVE  \/ \E o \in Operators : UpdateRoute(o) /\ put[o].route = r
         \/ \E w \in Workers : CommitRun(w) /\ r \in worker[w].suspended
<1>1. row' # row
  OBVIOUS
<1>2. \/ \E w \in Workers : CommitRun(w)
      \/ \E s \in Reports : CommitReport(s)
      \/ \E o \in Operators : UpdateRoute(o)
  BY <1>1 DEF HealthNext, healthVars, Traffic, Aging, WindowEmpties, LoadRoutes, AbortRun, CheckRoute,
    CallRoute, ReadReported, LoseReport, ReadRoute
<1>3. ASSUME NEW w \in Workers, CommitRun(w)  PROVE r \in worker[w].suspended
  <2> DEFINE columns == worker[w].updates[r]
  <2>1. row'[r] = Write(row[r], columns)
    BY <1>3 DEF CommitRun
  <2>2. Update(columns, r, worker[w].suspended) /\ row[r] \in Rows
    BY <1>3, UpdatesFacts DEF HealthInv, RowsOK
  <2> HIDE DEF columns
  <2>3. row'[r]["active"] = IF "active" \in DOMAIN columns THEN columns["active"] ELSE row[r]["active"]
    BY <2>1, <2>2, WriteFacts DEF Update
  <2>4. QED  BY <2>2, <2>3 DEF Update
<1>4. ASSUME NEW s \in Reports, CommitReport(s)  PROVE FALSE
  BY <1>4, CommitReportInv
<1>5. ASSUME NEW o \in Operators, UpdateRoute(o)  PROVE put[o].route = r
  BY <1>5, UpdateRouteInv
<1>6. QED  BY <1>2, <1>3, <1>4, <1>5

-----------------------------------------------------------------------------
\* For any number of runs, reports and operators that work on rows they loaded
\* before, a route that is out of rotation comes back by an operator's request
\* about it, or by a run that found it disabled by a run and enabled by none since
\* (gateway_health.py, update_gateway_route).
THEOREM OnlyAutoDisabledRoutesRecover == HealthSpec => OnlyAutoDisabledRecover
<1>1. HealthInv /\ [HealthNext]_healthVars
        => [\A r \in Routes : ~row[r].active /\ row'[r].active =>
              \/ \E o \in Operators : UpdateRoute(o) /\ put[o].route = r
              \/ \E w \in Workers : CommitRun(w) /\ r \in worker[w].suspended]_healthVars
  BY StepBringsBack
<1>2. QED  BY <1>1, HealthInitInv, HealthNextInv, PTL DEF HealthSpec, OnlyAutoDisabledRecover

\* Rows stay rows of the table, whatever columns the three writers mix.
THEOREM HealthTypeCorrect == HealthSpec => []HealthTypeOK
<1>1. HealthInv => HealthTypeOK
  BY DEF HealthInv, RowsOK, WorkersOK, ReportsOK, PutsOK, RunOK, ReportOK, PutOK, HealthTypeOK, NoRun
<1>2. QED  BY <1>1, HealthInitInv, HealthNextInv, PTL DEF HealthSpec
=============================================================================
