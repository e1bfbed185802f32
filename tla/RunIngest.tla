----------------------------- MODULE RunIngest ------------------------------
(* The lifecycle of ingested runs: the API queues batches of events          *)
(* (routers/ingest.py, routers/otlp.py), workers/pipeline.py persists them,  *)
(* and runs are closed by their own run_end, by an admin (routers/runs.py),  *)
(* by workers/otlp_finalize.py and by the runaway protection of              *)
(* workers/budgets.py.                                                       *)
(*                                                                           *)
(* Every one of these is a database transaction of several statements; a     *)
(* step executes one statement.  PostgreSQL runs them at READ COMMITTED: a   *)
(* statement sees what is committed and what its own transaction wrote, and  *)
(* waits for a row another open transaction has written.                     *)
EXTENDS Integers, Sequences, SequencesExt, FiniteSets

CONSTANTS
  Runs,           \* run ids
  OtlpRuns,       \* the runs whose source_type is otlp
  Spans,          \* span ids
  RunOf,          \* the run of each span
  Batches,        \* process_events tasks
  EventsOf,       \* the events of each batch, in order
  Workers,        \* pipeline worker processes
  Finalizers,     \* concurrent runs of otlp.finalize_stale_traces
  Guards,         \* concurrent runs of budgets.runaway_protection
  Admins,         \* concurrent PATCH /runs/{id}/cancel requests
  NoBatch,        \* not a batch
  NoSpan,         \* the span_id of a call made outside any span
  MaxLosses       \* bound on the deliveries of tasks that were taken before

ASSUME RunsAssumption ==
  IsFiniteSet(Runs) /\ OtlpRuns \subseteq Runs /\ RunOf \in [Spans -> Runs]
ASSUME BatchesAssumption == NoBatch \notin Batches /\ NoSpan \notin Spans
                            /\ MaxLosses \in Nat
ASSUME WorkersAssumption == Workers \cap (Finalizers \cup Guards \cup Admins) = {}

VARIABLES
  queue,          \* tasks the broker has to deliver
  deliveries,     \* how often each task has been taken
  losses,         \* how often a task that was taken came back
  db,             \* the committed rows
  tx              \* the open transactions

vars == <<queue, deliveries, losses, db, tx>>

Transactions == Workers \cup Finalizers \cup Guards \cup Admins
Events       == UNION {ToSet(EventsOf[b]) : b \in Batches}
IsCall(e)    == e.type \in {"provider_call", "tool_call"}

\* Call rows by their ids: a call in a span has one that is derived from its run
\* and span, any other a random one, new at every delivery.
SpanCall(e)  == <<e.run, e.span>>
RowsOf(e)    == ({e} \X (1 .. MaxLosses + 1)) \cup
                  IF e.type = "provider_call" /\ e.span # NoSpan THEN {SpanCall(e)} ELSE {}
CallRows     == UNION {RowsOf(e) : e \in {x \in Events : IsCall(x)}}
Rows         == Runs \cup Spans \cup CallRows

RunStatus  == {"absent", "running", "succeeded", "failed", "cancelled"}
SpanStatus == {"absent", "running", "succeeded", "failed"}
Ended      == {"succeeded", "failed", "cancelled"}

\* Ids are ids of one table, and the schema of the ingest API has checked what
\* an event says.
ASSUME RowsAssumption ==
  /\ Runs \cap (Spans \cup CallRows \cup Events) = {}
  /\ Spans \cap CallRows = {}
ASSUME EventsAssumption ==
  /\ EventsOf \in [Batches -> Seq(Events)]
  /\ \A e \in Events :
       \/ e.type = "run_start" /\ e.run \in Runs
       \/ e.type = "run_end" /\ e.run \in Runs /\ e.status \in RunStatus \ {"absent"}
       \/ e.type = "span_start" /\ e.span \in Spans
       \/ e.type = "span_end" /\ e.span \in Spans /\ e.status \in SpanStatus \ {"absent"}
       \/ e.type = "tool_call" /\ e.run \in Runs
       \/ e.type = "provider_call" /\ e.run \in Runs /\ e.span \in Spans \cup {NoSpan}

Idle == [open |-> FALSE, batch |-> NoBatch, delivery |-> 0,
         todo |-> << >>, writes |-> << >>]

Init ==
  /\ queue = {}
  /\ deliveries = [b \in Batches |-> 0]
  /\ losses = 0
  /\ db = [x \in Rows |-> "absent"]
  /\ tx = [t \in Transactions |-> Idle]

-----------------------------------------------------------------------------
(* Statements.                                                               *)

\* A transaction sees what it wrote, and of other rows what is committed.
Seen(t, x) == IF x \in DOMAIN tx[t].writes THEN tx[t].writes[x] ELSE db[x]

Over(new, old) ==
  [x \in DOMAIN new \cup DOMAIN old |-> IF x \in DOMAIN new THEN new[x] ELSE old[x]]

Recorded(e) == {x \in RowsOf(e) : db[x] # "absent"}

Free(t, x) == \A u \in Transactions \ {t} : x \notin DOMAIN tx[u].writes

Statement(t, type) == tx[t].todo # << >> /\ Head(tx[t].todo).type = type

Write(t, writes) ==
  /\ \A x \in DOMAIN writes : Free(t, x)
  /\ tx' = [tx EXCEPT ![t].todo = Tail(@), ![t].writes = Over(writes, @)]
  /\ UNCHANGED <<queue, deliveries, losses, db>>

\* Mutant: each event runs in a savepoint of its own.
Fail_savepoint(t) ==
  /\ tx' = [tx EXCEPT ![t].todo = Tail(@)]
  /\ UNCHANGED <<queue, deliveries, losses, db>>

\* An error aborts the whole transaction.  The exception is caught and the
\* next event is tried, but every later statement fails as well.
Fail(t) ==
  /\ tx' = [tx EXCEPT ![t].todo = << >>, ![t].writes = << >>]
  /\ UNCHANGED <<queue, deliveries, losses, db>>

\* INSERT ... ON CONFLICT DO NOTHING of a row, and its foreign key to a run.
Insert(t, x, value) ==
  IF Seen(t, x) = "absent" THEN Write(t, [r \in {x} |-> value]) ELSE Write(t, << >>)

InsertOf(t, run, x, value) ==
  IF Seen(t, run) = "absent" THEN Fail(t) ELSE Insert(t, x, value)

\* UPDATE ... WHERE id IN ...: of the rows there are, whatever their status.
Update(t, X, value) ==
  Write(t, [x \in {y \in X : Seen(t, y) # "absent"} |-> value])

-----------------------------------------------------------------------------
(* The handlers of workers/pipeline.py.                                      *)

\* Mutant: the conflict is resolved by an update.
HandleRunStart_upsert(t, e) == Write(t, [r \in {e.run} |-> "running"])

HandleRunStart(t, e) == Insert(t, e.run, "running")

HandleRunEnd(t, e) == Update(t, {e.run}, e.status)

\* Mutant: a span takes the status of a run.
HandleSpanStart_cancelled(t, e) == InsertOf(t, RunOf[e.span], e.span, "cancelled")

HandleSpanStart(t, e) == InsertOf(t, RunOf[e.span], e.span, "running")

HandleSpanEnd(t, e) == Update(t, {e.span}, e.status)

\* Mutant: the id is random.
ProviderCallId_random(t, e) == <<e, tx[t].delivery>>

\* With a span_id the id is the same at every delivery, without one it is random.
ProviderCallId(t, e) ==
  IF e.span # NoSpan THEN SpanCall(e) ELSE <<e, tx[t].delivery>>

HandleProviderCall(t, e) == InsertOf(t, e.run, ProviderCallId(t, e), "recorded")

\* A tool call has a random id: another one at every delivery.
HandleToolCall(t, e) == InsertOf(t, e.run, <<e, tx[t].delivery>>, "recorded")

Dispatch(t) ==
  \/ Statement(t, "run_start")     /\ HandleRunStart(t, Head(tx[t].todo))
  \/ Statement(t, "run_end")       /\ HandleRunEnd(t, Head(tx[t].todo))
  \/ Statement(t, "span_start")    /\ HandleSpanStart(t, Head(tx[t].todo))
  \/ Statement(t, "span_end")      /\ HandleSpanEnd(t, Head(tx[t].todo))
  \/ Statement(t, "provider_call") /\ HandleProviderCall(t, Head(tx[t].todo))
  \/ Statement(t, "tool_call")     /\ HandleToolCall(t, Head(tx[t].todo))

-----------------------------------------------------------------------------
(* The queue.                                                                *)

Begin(t, batch, delivery, todo) ==
  /\ ~tx[t].open
  /\ tx' = [tx EXCEPT ![t] = [open |-> TRUE, batch |-> batch, delivery |-> delivery,
                              todo |-> todo, writes |-> << >>]]

\* 202: the broker has the batch.
Accept(b) ==
  /\ deliveries[b] = 0
  /\ b \notin queue
  /\ queue' = queue \cup {b}
  /\ UNCHANGED <<deliveries, losses, db, tx>>

\* A worker takes a task.
ProcessEvents(w, b) ==
  /\ b \in queue
  /\ queue' = queue \ {b}
  /\ deliveries' = [deliveries EXCEPT ![b] = @ + 1]
  /\ Begin(w, b, deliveries'[b], EventsOf[b])
  /\ UNCHANGED <<losses, db>>

\* COMMIT, which after an error is a ROLLBACK that nobody is told of.  The task
\* is acknowledged after it.
Commit(t) ==
  /\ tx[t].open
  /\ tx[t].todo = << >>
  /\ db' = Over(tx[t].writes, db)
  /\ tx' = [tx EXCEPT ![t] = Idle]

ComesBack(b) ==
  /\ losses < MaxLosses
  /\ losses' = losses + 1
  /\ queue' = queue \cup {b}

CommitAndAck(t) == Commit(t) /\ UNCHANGED <<queue, deliveries, losses>>

\* A worker is lost between the commit and the acknowledgement, ...
LoseAck(w) == Commit(w) /\ ComesBack(tx[w].batch) /\ UNCHANGED deliveries

\* ... or in the middle of a batch, which the database rolls back, ...
LoseWorker(w) ==
  /\ tx[w].open
  /\ tx' = [tx EXCEPT ![w] = Idle]
  /\ ComesBack(tx[w].batch)
  /\ UNCHANGED <<deliveries, db>>

\* ... or it is so late that the broker delivers the task a second time.
VisibilityTimeout(w) ==
  /\ tx[w].open
  /\ ComesBack(tx[w].batch)
  /\ UNCHANGED <<deliveries, db, tx>>

-----------------------------------------------------------------------------
(* Who else closes runs.                                                     *)

Running(R) == {r \in R : db[r] = "running"}

\* workers/otlp_finalize.py selects the runs that have been open longer than
\* the timeout, which may be any of those still running.
SelectStale(f, R) ==
  /\ R # {} /\ R \subseteq Running(OtlpRuns)
  /\ Begin(f, NoBatch, 0, << [type |-> "fail_spans", runs |-> R],
                             [type |-> "cancel_runs", runs |-> R] >>)
  /\ UNCHANGED <<queue, deliveries, losses, db>>

FailOpenSpans(t, R) ==
  Write(t, [s \in {x \in Spans : RunOf[x] \in R /\ Seen(t, x) = "running"} |-> "failed"])

\* Mutant: the selected runs are left for the next task to cancel.
CancelRuns_spansOnly(t, R) == Write(t, << >>)

\* The runs were selected earlier: the UPDATE goes by their ids.
CancelRuns(t, R) == Update(t, R, "cancelled")

\* The runaway protection selects running runs, in any order, and cancels those
\* with a retry storm or a token spike, which have provider calls.
SelectRunaway(g, R) ==
  /\ R # {} /\ R \subseteq Running(Runs)
  /\ \A r \in R : \E e \in Events :
       e.type = "provider_call" /\ e.run = r /\ Recorded(e) # {}
  /\ \E order \in SetToSeqs(R) :
       Begin(g, NoBatch, 0,
             [i \in DOMAIN order |-> [type |-> "cancel_runs", runs |-> {order[i]}]])
  /\ UNCHANGED <<queue, deliveries, losses, db>>

\* PATCH /runs/{id}/cancel: 409 unless the run it reads is running.
CancelRun(a, r) ==
  /\ db[r] = "running"
  /\ Begin(a, NoBatch, 0, << [type |-> "cancel_runs", runs |-> {r}] >>)
  /\ UNCHANGED <<queue, deliveries, losses, db>>

Close(t) ==
  \/ Statement(t, "fail_spans")  /\ FailOpenSpans(t, Head(tx[t].todo).runs)
  \/ Statement(t, "cancel_runs") /\ CancelRuns(t, Head(tx[t].todo).runs)

-----------------------------------------------------------------------------
(* Deadlocks between transactions.                                           *)

Wants(t) ==
  LET e    == Head(tx[t].todo)
      have == {x \in Rows : Seen(t, x) # "absent"}
  IN CASE e.type = "run_start"   -> {e.run} \ have
       [] e.type = "run_end"     -> {e.run} \cap have
       [] e.type = "span_start"  -> {e.span} \ have
       [] e.type = "span_end"    -> {e.span} \cap have
       [] e.type = "fail_spans"  -> {x \in Spans : RunOf[x] \in e.runs /\ Seen(t, x) = "running"}
       [] e.type = "cancel_runs" -> e.runs \cap have
       [] e.type = "provider_call" -> {ProviderCallId(t, e)} \ have
       [] e.type = "tool_call"     -> {}

WaitsFor(t) ==
  IF tx[t].todo = << >> THEN {}
  ELSE {u \in Transactions \ {t} : Wants(t) \cap DOMAIN tx[u].writes # {}}

\* PostgreSQL finds a circle of waiting transactions and fails the statement of
\* one of them.
BreakDeadlock(t) ==
  /\ WaitsFor(t) # {}
  /\ \E circle \in SUBSET {u \in Transactions : WaitsFor(u) # {}} :
       /\ t \in circle
       /\ \A u \in circle : /\ WaitsFor(u) \cap circle # {}
                            /\ \E v \in circle : u \in WaitsFor(v)
  /\ Fail(t)

-----------------------------------------------------------------------------
Step(t) == Dispatch(t) \/ Close(t) \/ CommitAndAck(t) \/ BreakDeadlock(t)

Next ==
  \/ \E b \in Batches : Accept(b)
  \/ \E w \in Workers, b \in Batches : ProcessEvents(w, b)
  \/ \E w \in Workers : LoseAck(w)
  \/ \E w \in Workers : LoseWorker(w)
  \/ \E w \in Workers : VisibilityTimeout(w)
  \/ \E f \in Finalizers, R \in SUBSET OtlpRuns : SelectStale(f, R)
  \/ \E g \in Guards, R \in SUBSET Runs : SelectRunaway(g, R)
  \/ \E a \in Admins, r \in Runs : CancelRun(a, r)
  \/ \E t \in Transactions : Dispatch(t)
  \/ \E t \in Transactions : Close(t)
  \/ \E t \in Transactions : CommitAndAck(t)
  \/ \E t \in Transactions : BreakDeadlock(t)

\* The broker delivers, an open transaction goes on, and beat starts the
\* finalizer every three minutes, which sees every run older than five.
Fairness ==
  /\ \A b \in Batches : WF_vars(\E w \in Workers : ProcessEvents(w, b))
  /\ \A t \in Transactions : WF_vars(Step(t))
  /\ \A r \in OtlpRuns :
       WF_vars(\E f \in Finalizers, R \in SUBSET OtlpRuns : r \in R /\ SelectStale(f, R))

Spec == Init /\ [][Next]_vars /\ Fairness

-----------------------------------------------------------------------------
(* Properties.                                                               *)

\* Runs and spans have the statuses of their enums, a call row is there or not,
\* and every transaction writes rows of the database only.
TypeOK ==
  /\ queue \subseteq Batches
  /\ deliveries \in [Batches -> 0 .. MaxLosses + 1]
  /\ \A r \in Runs : db[r] \in RunStatus
  /\ \A s \in Spans : db[s] \in SpanStatus
  /\ \A c \in CallRows : db[c] \in {"absent", "recorded"}
  /\ \A t \in Transactions : DOMAIN tx[t].writes \subseteq Rows

\* A provider call in a span is billed once: however often its batch is
\* delivered, also to two workers at a time, one row is made of the event.
CallsCountedOnce ==
  \A e \in Events :
    e.type = "provider_call" /\ e.span # NoSpan => Cardinality(Recorded(e)) <= 1

\* The calls of a batch are recorded together or not at all: an event that
\* fails takes with it those before it and those after it.
BatchIsAtomic ==
  \A b \in Batches :
    LET calls == {e \in ToSet(EventsOf[b]) : IsCall(e)}
    IN {e \in calls : Recorded(e) # {}} \in {{}, calls}

\* A late or repeated run_start, in whatever order the batches come, never sets
\* a closed run running again.
NeverReopens ==
  [][\A r \in Runs : db[r] \in Ended => db'[r] \in Ended]_vars

\* Every OTLP run is closed in the end, by its run_end or by the finalizer,
\* whatever batches are lost, failed or out of order.
StaleTraceCloses ==
  \A r \in OtlpRuns : db[r] = "running" ~> db[r] \in Ended
=============================================================================
