---------------------------- MODULE RouteHealth -----------------------------
(* Which gateway routes are in rotation.  The health worker                  *)
(* (workers/gateway_health.py) disables a route after bad windows and        *)
(* enables it again, every finished provider call is reported to             *)
(* gateway_runtime_route_result, and operators switch routes by PUT          *)
(* /gateway/routes/{id}.                                                     *)
(*                                                                           *)
(* All three load a row, decide on what they loaded and write later.  The    *)
(* worker's UPDATEs keep their rows locked until the one commit at the end   *)
(* of the run; an ORM session writes the columns it has changed.             *)
EXTENDS GatewayRoutes, Integers, FiniteSets

CONSTANTS
  Workers,   \* concurrent runs of gateway.health_check
  Reports,   \* provider calls in flight, each reported once
  Operators, \* sessions of PUT /gateway/routes/{id}
  Threshold  \* _FAILURE_THRESHOLD

ASSUME ThresholdAssumption == Threshold \in Nat \ {0}
ASSUME ReasonsAssumption == Null \notin Routes \cup {"Auto-disabled", "error"}

VARIABLES
  row,      \* the committed row of each route
  window,   \* what the last ten minutes of gateway_requests say of a route
  worker,   \* the routes a run has loaded, those it has yet to check, its UPDATEs,
            \* and (history) what was suspended when it loaded them
  report,   \* the route a call went to, the columns its report will write
  put,      \* the route an operator edits, the columns the request will write
  suspended \* history: routes that a run has disabled and no run has enabled since

healthVars == <<row, window, worker, report, put, suspended>>

Reasons == {Null, "Auto-disabled", "error"}
Verdicts == {"thin", "bad", "good"}   \* below 5 requests, above 5 % errors, else

\* The counter is only compared with 0 and the threshold, so it stops there.
Counts == 0 .. Threshold
Count(n) == IF n < Threshold THEN n + 1 ELSE n

Rows == [active : BOOLEAN, autoDisable : BOOLEAN, failures : Counts, reason : Reasons]

NoRun    == [loaded |-> Null, todo |-> {}, updates |-> <<>>, suspended |-> {}]
NoReport == [route |-> Null, columns |-> Null]
NoPut    == [route |-> Null, columns |-> <<>>]

HealthTypeOK ==
  /\ row \in [Routes -> Rows]
  /\ window \in [Routes -> Verdicts]
  /\ \A w \in Workers :
       /\ worker[w].loaded \in [Routes -> Rows] \cup {Null}
       /\ worker[w].todo \cup DOMAIN worker[w].updates \subseteq Routes
       /\ worker[w].suspended \subseteq Routes
  /\ \A s \in Reports : report[s].route \in Routes \cup {Null}
  /\ \A o \in Operators : put[o].route \in Routes \cup {Null}
  /\ suspended \subseteq Routes

HealthInit ==
  /\ row \in [Routes -> [active : {TRUE}, autoDisable : BOOLEAN, failures : {0},
                         reason : {Null}]]
  /\ window = [r \in Routes |-> "thin"]
  /\ worker = [w \in Workers |-> NoRun]
  /\ report = [s \in Reports |-> NoReport]
  /\ put = [o \in Operators |-> NoPut]
  /\ suspended = {}

\* A row with some of its columns written.
Write(old, columns) ==
  [c \in DOMAIN old |-> IF c \in DOMAIN columns THEN columns[c] ELSE old[c]]

Locked(r) == \E w \in Workers : r \in DOMAIN worker[w].updates

-----------------------------------------------------------------------------
(* Traffic.  select_routes offers active routes only, so an inactive one gets *)
(* no new rows and its old ones leave the window.                             *)

Traffic(r) ==
  /\ row[r].active
  /\ \E verdict \in Verdicts \ {window[r]} : window' = [window EXCEPT ![r] = verdict]
  /\ UNCHANGED <<row, worker, report, put, suspended>>

\* The older rows may be the failures or the successes.
Aging(r) ==
  /\ ~row[r].active /\ window[r] # "thin"
  /\ \E verdict \in Verdicts \ {window[r]} : window' = [window EXCEPT ![r] = verdict]
  /\ UNCHANGED <<row, worker, report, put, suspended>>

\* The last row has left the window.
WindowEmpties(r) ==
  /\ ~row[r].active /\ window[r] # "thin"
  /\ window' = [window EXCEPT ![r] = "thin"]
  /\ UNCHANGED <<row, worker, report, put, suspended>>

-----------------------------------------------------------------------------
(* workers/gateway_health.py: _run_health_check *)

LoadRoutes(w) ==
  /\ worker[w] = NoRun
  /\ worker' = [worker EXCEPT ![w] =
       [loaded |-> row, todo |-> Routes, updates |-> <<>>, suspended |-> suspended]]
  /\ UNCHANGED <<row, window, report, put, suspended>>

BadWindow(route) ==
  LET failures == Count(route.failures)
  IN IF route.active /\ route.autoDisable /\ failures >= Threshold
     THEN [failures |-> failures, active |-> FALSE, reason |-> "Auto-disabled"]
     ELSE [failures |-> failures]

\* Mutant: one failure is forgiven instead of all.
Reset_decrement(route) == [failures |-> route.failures - 1]

Reset(route) == IF route.failures > 0 THEN [failures |-> 0] ELSE <<>>

\* Mutant: any inactive route whose window is good is enabled.
GoodWindow_any(route) ==
  IF ~route.active
  THEN [active |-> TRUE, reason |-> Null, failures |-> 0]
  ELSE Reset(route)

GoodWindow(route) ==
  IF ~route.active /\ route.reason = "Auto-disabled"
  THEN [active |-> TRUE, reason |-> Null, failures |-> 0]
  ELSE Reset(route)

ThinWindow(route) == IF route.active THEN Reset(route) ELSE <<>>

\* The UPDATEs follow from the window as it is now and the row as it was loaded.
Judge(verdict, route) ==
  CASE verdict = "bad"  -> BadWindow(route)
    [] verdict = "good" -> GoodWindow(route)
    [] verdict = "thin" -> ThinWindow(route)

Extend(f, r, v) == [x \in DOMAIN f \cup {r} |-> IF x = r THEN v ELSE f[x]]

\* last_health_check_at is written for every route, which locks its row.
CheckRoute(w, r) ==
  /\ r \in worker[w].todo /\ ~Locked(r)
  /\ worker' = [worker EXCEPT ![w].todo = @ \ {r},
                              ![w].updates = Extend(@, r, Judge(window[r], worker[w].loaded[r]))]
  /\ UNCHANGED <<row, window, report, put, suspended>>

\* Mutant: the session is closed without a commit.
CommitRun_never(w) ==
  /\ worker[w] # NoRun /\ worker[w].todo = {}
  /\ worker' = [worker EXCEPT ![w] = NoRun]
  /\ UNCHANGED <<row, window, report, put, suspended>>

Disables(columns) == "active" \in DOMAIN columns /\ ~columns.active
Enables(columns)  == "active" \in DOMAIN columns /\ columns.active

CommitRun(w) ==
  LET updates == worker[w].updates
  IN /\ worker[w] # NoRun /\ worker[w].todo = {}
     /\ row' = [r \in Routes |-> Write(row[r], updates[r])]
     /\ suspended' = (suspended \cup {r \in Routes : Disables(updates[r])})
                       \ {r \in Routes : Enables(updates[r])}
     /\ worker' = [worker EXCEPT ![w] = NoRun]
     /\ UNCHANGED <<window, report, put>>

\* A run dies, or loses a deadlock with one that locks the routes in another
\* order.
AbortRun(w) ==
  /\ worker[w] # NoRun
  /\ worker' = [worker EXCEPT ![w] = NoRun]
  /\ UNCHANGED <<row, window, report, put, suspended>>

-----------------------------------------------------------------------------
(* routers/gateway_runtime.py: gateway_runtime_route_result *)

\* A request gets a plan with the route in it.
CallRoute(s, r) ==
  /\ report[s] = NoReport /\ row[r].active
  /\ report' = [report EXCEPT ![s].route = r]
  /\ UNCHANGED <<row, window, worker, put, suspended>>

\* Columns that were assigned a value other than the loaded one.
Changed(old, new) == [c \in {c \in DOMAIN new : new[c] # old[c]} |-> new[c]]

\* Mutant: all columns are written, as a session that merges the row would.
SuccessColumns_all(old) == [old EXCEPT !.failures = 0, !.reason = Null]

SuccessColumns(old) == Changed(old, [failures |-> 0, reason |-> Null])

\* The counter of bad windows is raised here as well, and the reason is the
\* provider's error, which may be the text that is there already.
FailureColumns(old) ==
  {[failures |-> Count(old.failures), reason |-> "error"]}
    \cup (IF old.reason = "error" THEN {[failures |-> Count(old.failures)]} ELSE {})

ReadReported(s) ==
  /\ report[s].route # Null /\ report[s].columns = Null
  /\ LET old == row[report[s].route]
     IN \E columns \in {SuccessColumns(old)} \cup FailureColumns(old) :
          report' = [report EXCEPT ![s].columns = columns]
  /\ UNCHANGED <<row, window, worker, put, suspended>>

CommitReport(s) ==
  LET r == report[s].route
  IN /\ report[s].columns # Null /\ ~Locked(r)
     /\ row' = [row EXCEPT ![r] = Write(@, report[s].columns)]
     /\ report' = [report EXCEPT ![s] = NoReport]
     /\ UNCHANGED <<window, worker, put, suspended>>

\* The data plane dies, or its report is lost.
LoseReport(s) ==
  /\ report[s] # NoReport
  /\ report' = [report EXCEPT ![s] = NoReport]
  /\ UNCHANGED <<row, window, worker, put, suspended>>

-----------------------------------------------------------------------------
(* routers/gateway_routing.py: update_gateway_route *)

\* is_active and health_auto_disable may be edited; disabled_reason stays.
Edits == [active : BOOLEAN] \cup [autoDisable : BOOLEAN]

ReadRoute(o, r, edit) ==
  /\ put[o] = NoPut
  /\ put' = [put EXCEPT ![o] = [route |-> r, columns |-> Changed(row[r], edit)]]
  /\ UNCHANGED <<row, window, worker, report, suspended>>

UpdateRoute(o) ==
  LET r == put[o].route
  IN /\ put[o] # NoPut /\ ~Locked(r)
     /\ row' = [row EXCEPT ![r] = Write(@, put[o].columns)]
     /\ put' = [put EXCEPT ![o] = NoPut]
     /\ UNCHANGED <<window, worker, report, suspended>>

-----------------------------------------------------------------------------
HealthNext ==
  \/ \E r \in Routes : Traffic(r) \/ Aging(r) \/ WindowEmpties(r)
  \/ \E w \in Workers : LoadRoutes(w) \/ CommitRun(w) \/ AbortRun(w)
  \/ \E w \in Workers, r \in Routes : CheckRoute(w, r)
  \/ \E s \in Reports, r \in Routes : CallRoute(s, r)
  \/ \E s \in Reports : ReadReported(s) \/ CommitReport(s) \/ LoseReport(s)
  \/ \E o \in Operators, r \in Routes, edit \in Edits : ReadRoute(o, r, edit)
  \/ \E o \in Operators : UpdateRoute(o)

\* Beat starts a run every five minutes, and not every run dies.  The rows of a
\* route that gets no traffic are older than ten minutes in the end.
HealthFairness ==
  /\ \A w \in Workers : WF_healthVars(LoadRoutes(w)) /\ SF_healthVars(CommitRun(w))
  /\ \A w \in Workers, r \in Routes : SF_healthVars(CheckRoute(w, r))
  /\ \A r \in Routes : SF_healthVars(WindowEmpties(r))

HealthSpec == HealthInit /\ [][HealthNext]_healthVars /\ HealthFairness

-----------------------------------------------------------------------------
(* Properties *)

\* "if a previously auto-disabled route now has <5% error rate, re-enable it": a
\* route that is out of rotation comes back by an operator's request about it, or
\* by a run at whose start it was one that a run had disabled and none enabled
\* since.  Neither a report loaded while the route was active brings one back, nor
\* a run that finds a route which only operators took out.  (A route that a run
\* disabled is still its own after an operator enables and disables it, since a
\* PUT leaves disabled_reason: a run then undoes the operator's last decision.)
OnlyAutoDisabledRecover ==
  [][\A r \in Routes : ~row[r].active /\ row'[r].active =>
       \/ \E o \in Operators : UpdateRoute(o) /\ put[o].route = r
       \/ \E w \in Workers : CommitRun(w) /\ r \in worker[w].suspended]_healthVars

\* From some time on the window of the route is bad as long as it is active,
\* automatic disabling is on, and no operator interferes.
KeepsFailing(r) ==
  /\ <>[](row[r].autoDisable /\ (window[r] = "bad" \/ ~row[r].active))
  /\ <>[][\A o \in Operators : ~UpdateRoute(o)]_healthVars

Succeeds(s) ==
  CommitReport(s) /\ ~("failures" \in DOMAIN report[s].columns /\ report[s].columns.failures > 0)

\* A route that keeps failing leaves rotation, if in the end none of its calls
\* is reported a success, however often runs die and work on stale rows.
FailingRouteLeaves ==
  \A r \in Routes :
    KeepsFailing(r) /\ <>[][\A s \in Reports : ~Succeeds(s)]_healthVars => <>(~row[r].active)
=============================================================================
