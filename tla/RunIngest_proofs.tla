-------------------------- MODULE RunIngest_proofs --------------------------
(* Proofs about RunIngest: what the row locks of open transactions are worth. *)
EXTENDS RunIngest, FiniteSetTheorems, SequenceTheorems, TLAPS

\* Written values, and the writes of one transaction.
Stati   == {"running", "succeeded", "failed", "cancelled", "recorded"}
Partial == UNION {[X -> Stati] : X \in SUBSET Rows}

\* A transaction works on the rest of a batch or on closing statements.
Closings == [type : {"fail_spans", "cancel_runs"}, runs : SUBSET Runs]
Tx == [open : BOOLEAN, batch : Batches \cup {NoBatch}, delivery : 0 .. MaxLosses + 1,
       todo : Seq(Events) \cup Seq(Closings), writes : Partial]

Value(x) == IF x \in Runs THEN RunStatus
            ELSE IF x \in Spans THEN SpanStatus ELSE {"absent", "recorded"}

\* The random id of a call that has a derived one.
Spurious(x) ==
  \E e \in Events, n \in 1 .. MaxLosses + 1 :
    x = <<e, n>> /\ e.type = "provider_call" /\ e.span # NoSpan

\* Deliveries come from the first queueing of a task and from losses.
QueueOK ==
  /\ queue \subseteq Batches /\ losses \in 0 .. MaxLosses
  /\ deliveries \in [Batches -> Nat]
  /\ \A b \in Batches : deliveries[b] + (IF b \in queue THEN 1 ELSE 0) <= losses + 1

TxOK ==
  /\ tx \in [Transactions -> Tx]
  /\ \A t \in Transactions : tx[t].todo \in Seq(Closings)
                             \/ (tx[t].todo \in Seq(Events) /\ tx[t].delivery >= 1)
  /\ \A w \in Workers : tx[w].open => tx[w].batch \in Batches

\* A row that an open transaction has written is written by no other.
Locks ==
  \A t, u \in Transactions : t # u => DOMAIN tx[t].writes \cap DOMAIN tx[u].writes = {}

RowsOK ==
  /\ DOMAIN db = Rows
  /\ \A x \in Rows : db[x] \in Value(x) /\ (Spurious(x) => db[x] = "absent")

\* A run_end that says running would pass the schema; no client sends it.
EndsEnd == \A e \in Events : e.type = "run_end" => e.status \in Ended

\* What a transaction wrote may be committed: a run it wrote as running was
\* absent, and still is.
WritesOK ==
  \A t \in Transactions : \A x \in DOMAIN tx[t].writes :
    /\ tx[t].writes[x] \in Value(x) /\ ~Spurious(x)
    /\ EndsEnd /\ x \in Runs /\ tx[t].writes[x] = "running" => db[x] = "absent"

Inv == QueueOK /\ TxOK /\ Locks /\ RowsOK /\ WritesOK

-----------------------------------------------------------------------------
\* Rows are of one kind only.
LEMMA KindFacts ==
  /\ \A x \in Runs : x \in Rows /\ ~Spurious(x) /\ Value(x) = RunStatus
  /\ \A x \in Spans : x \in Rows /\ ~Spurious(x) /\ Value(x) = SpanStatus
  /\ \A x \in CallRows : x \in Rows /\ Value(x) = {"absent", "recorded"}
<1>1. \A x : Spurious(x) => x \in CallRows
  BY DEF Spurious, CallRows, RowsOf, IsCall
<1>2. QED  BY <1>1, RowsAssumption DEF Rows, Value

\* The writes of a transaction, and those with which a statement overlays them.
LEMMA OverFacts ==
  ASSUME NEW new \in Partial, NEW old \in Partial
  PROVE  /\ Over(new, old) \in Partial
         /\ DOMAIN Over(new, old) = DOMAIN new \cup DOMAIN old
         /\ \A x \in DOMAIN new : Over(new, old)[x] = new[x]
         /\ \A x \in DOMAIN old \ DOMAIN new : Over(new, old)[x] = old[x]
<1>1. PICK X \in SUBSET Rows, Y \in SUBSET Rows : new \in [X -> Stati] /\ old \in [Y -> Stati]
  BY DEF Partial
<1>2. X \cup Y \in SUBSET Rows /\ Over(new, old) \in [X \cup Y -> Stati]
  BY <1>1 DEF Over
<1>3. Over(new, old) \in Partial
  BY <1>2 DEF Partial
<1>4. QED  BY <1>1, <1>3 DEF Over

\* Nothing is written at first.
LEMMA IdleFacts ==
  /\ Idle \in Tx /\ Idle.todo = << >> /\ Idle.open = FALSE
  /\ DOMAIN Idle.writes = {} /\ << >> \in Seq(Closings) /\ << >> \in Seq(Events)
  /\ << >> \in Partial /\ DOMAIN << >> = {}
<1>1. << >> \in Seq(Closings) /\ << >> \in Seq(Events)
  OBVIOUS
<1>2. DOMAIN << >> = {}
  OBVIOUS
<1>3. << >> \in [{} -> Stati]
  BY <1>2
<1>4. << >> \in Partial
  BY <1>3 DEF Partial
<1>5. QED  BY <1>1, <1>2, <1>4, BatchesAssumption DEF Idle, Tx

\* The inductive invariant holds at the start.
LEMMA InitInv == Init => Inv
<1> SUFFICES ASSUME Init  PROVE Inv
  OBVIOUS
<1>1. QueueOK
  BY BatchesAssumption DEF Init, QueueOK
<1>2. \A t \in Transactions : tx[t] = Idle
  BY DEF Init
<1>3. TxOK
  <2>1. tx \in [Transactions -> Tx]
    BY IdleFacts DEF Init
  <2>2. Workers \subseteq Transactions
    BY DEF Transactions
  <2>3. QED  BY <1>2, <2>1, <2>2, IdleFacts DEF TxOK
<1>4. Locks /\ WritesOK
  BY <1>2, IdleFacts DEF Locks, WritesOK
<1>5. RowsOK
  BY DEF Init, RowsOK, Value, RunStatus, SpanStatus
<1>6. QED  BY <1>1, <1>3, <1>4, <1>5 DEF Inv

-----------------------------------------------------------------------------
\* A statement that may write what it writes.
LEMMA WriteInv ==
  ASSUME Inv, NEW t \in Transactions, NEW w \in Partial, tx[t].todo # << >>, Write(t, w),
         \A x \in DOMAIN w :
           /\ w[x] \in Value(x) /\ ~Spurious(x)
           /\ EndsEnd /\ x \in Runs /\ w[x] = "running" => db[x] = "absent"
  PROVE  Inv'
<1> DEFINE r == tx[t]
           s == [[r EXCEPT !.todo = Tail(@)] EXCEPT !.writes = Over(w, @)]
<1>1. tx \in [Transactions -> Tx] /\ r \in Tx
  BY DEF Inv, TxOK
<1>2. tx' = [tx EXCEPT ![t] = s] /\ UNCHANGED <<queue, deliveries, losses, db>>
  BY <1>1 DEF Write
<1>3. \A u \in Transactions \ {t} : tx'[u] = tx[u]
  BY <1>1, <1>2
<1>4. tx'[t] = s
  BY <1>1, <1>2
<1>5. /\ r.todo \in Seq(Closings) \/ (r.todo \in Seq(Events) /\ r.delivery >= 1)
      /\ r.todo # << >> /\ r.writes \in Partial
  BY <1>1 DEF Inv, TxOK, Tx
<1> HIDE DEF r
<1>6. /\ Tail(r.todo) \in Seq(Closings) \/ (Tail(r.todo) \in Seq(Events) /\ r.delivery >= 1)
  BY <1>5
<1>7. /\ Over(w, r.writes) \in Partial
      /\ DOMAIN Over(w, r.writes) = DOMAIN w \cup DOMAIN r.writes
      /\ \A x \in DOMAIN w : Over(w, r.writes)[x] = w[x]
      /\ \A x \in DOMAIN r.writes \ DOMAIN w : Over(w, r.writes)[x] = r.writes[x]
  BY <1>5, OverFacts
<1>8. /\ s \in Tx /\ s.open = r.open /\ s.batch = r.batch /\ s.delivery = r.delivery
      /\ s.todo = Tail(r.todo) /\ s.writes = Over(w, r.writes)
  BY <1>1, <1>6, <1>7 DEF Tx
<1> HIDE DEF s
<1>9. QueueOK' /\ RowsOK'
  BY <1>2 DEF Inv, QueueOK, RowsOK
<1>10. TxOK'
  <2>1. tx' \in [Transactions -> Tx]
    BY <1>1, <1>2, <1>8
  <2>2. \A u \in Transactions : tx'[u].todo \in Seq(Closings)
                                \/ (tx'[u].todo \in Seq(Events) /\ tx'[u].delivery >= 1)
    BY <1>3, <1>4, <1>6, <1>8 DEF Inv, TxOK
  <2>3. \A u \in Transactions : tx'[u].open = tx[u].open /\ tx'[u].batch = tx[u].batch
    BY <1>3, <1>4, <1>8 DEF r
  <2>4. Workers \subseteq Transactions
    BY DEF Transactions
  <2>5. QED  BY <2>1, <2>2, <2>3, <2>4 DEF Inv, TxOK
<1>11. \A u \in Transactions \ {t} :
         DOMAIN w \cap DOMAIN tx[u].writes = {} /\ DOMAIN r.writes \cap DOMAIN tx[u].writes = {}
  BY DEF Write, Free, Inv, Locks, r
<1>12. Locks'
  BY <1>3, <1>4, <1>7, <1>8, <1>11 DEF Inv, Locks
<1>13. WritesOK'
  <2> SUFFICES ASSUME NEW u \in Transactions, NEW x \in DOMAIN tx'[u].writes
               PROVE  /\ tx'[u].writes[x] \in Value(x) /\ ~Spurious(x)
                      /\ EndsEnd /\ x \in Runs /\ tx'[u].writes[x] = "running"
                           => db'[x] = "absent"
    BY DEF WritesOK
  <2>1. CASE u # t
    BY <1>2, <1>3, <2>1 DEF Inv, WritesOK
  <2>2. CASE u = t /\ x \in DOMAIN w
    BY <1>2, <1>4, <1>7, <1>8, <2>2
  <2>3. CASE u = t /\ x \notin DOMAIN w
    <3>1. x \in DOMAIN r.writes /\ tx'[u].writes[x] = r.writes[x]
      BY <1>4, <1>7, <1>8, <2>3
    <3>2. QED  BY <1>2, <3>1 DEF Inv, WritesOK, r
  <2>4. QED  BY <2>1, <2>2, <2>3
<1>14. QED  BY <1>9, <1>10, <1>12, <1>13 DEF Inv

\* A row a transaction sees as absent is absent.
LEMMA SeenFacts ==
  ASSUME Inv, NEW t \in Transactions, NEW x \in Rows, Seen(t, x) = "absent"
  PROVE  db[x] = "absent"
<1>1. tx[t].writes \in Partial
  BY DEF Inv, TxOK, Tx
<1>2. PICK X \in SUBSET Rows : tx[t].writes \in [X -> Stati]
  BY <1>1 DEF Partial
<1>3. \A y \in X : tx[t].writes[y] # "absent"
  BY <1>2 DEF Stati
<1>4. QED  BY <1>2, <1>3 DEF Seen

\* An INSERT of a row of the table.
LEMMA InsertInv ==
  ASSUME Inv, NEW t \in Transactions, NEW x \in Rows, NEW value \in Stati,
         tx[t].todo # << >>, Insert(t, x, value), value \in Value(x), ~Spurious(x)
  PROVE  Inv'
<1>1. CASE Seen(t, x) = "absent"
  <2> DEFINE w == [r \in {x} |-> value]
  <2>1. Write(t, w)
    BY <1>1 DEF Insert
  <2>2. w \in [{x} -> Stati] /\ DOMAIN w = {x} /\ w[x] = value
    OBVIOUS
  <2>3. w \in Partial
    BY <2>2 DEF Partial
  <2>4. db[x] = "absent"
    BY <1>1, SeenFacts
  <2> HIDE DEF w
  <2>5. QED  BY <2>1, <2>2, <2>3, <2>4, WriteInv
<1>2. CASE Seen(t, x) # "absent"
  <2>1. Write(t, << >>)
    BY <1>2 DEF Insert
  <2>2. QED  BY <2>1, IdleFacts, WriteInv
<1>3. QED  BY <1>1, <1>2

\* An UPDATE by ids.
LEMMA UpdateInv ==
  ASSUME Inv, NEW t \in Transactions, NEW X \in SUBSET Rows, NEW value \in Stati,
         tx[t].todo # << >>, Update(t, X, value),
         \A x \in X : /\ value \in Value(x) /\ ~Spurious(x)
                      /\ EndsEnd /\ x \in Runs => value # "running"
  PROVE  Inv'
<1>1. PICK Y \in SUBSET X : Y = {y \in X : Seen(t, y) # "absent"}
  OBVIOUS
<1> DEFINE w == [x \in Y |-> value]
<1>2. Write(t, w)
  BY <1>1 DEF Update
<1>3. w \in [Y -> Stati] /\ Y \in SUBSET Rows /\ DOMAIN w = Y /\ \A x \in Y : w[x] = value
  OBVIOUS
<1>4. w \in Partial
  BY <1>3 DEF Partial
<1> HIDE DEF w
<1>5. QED  BY <1>2, <1>3, <1>4, WriteInv

\* A transaction that is rolled back or starts over with nothing written.
LEMMA ResetInv ==
  ASSUME Inv, NEW t \in Transactions, NEW s \in Tx, tx' = [tx EXCEPT ![t] = s],
         UNCHANGED db, QueueOK', DOMAIN s.writes = {},
         s.todo \in Seq(Closings) \/ (s.todo \in Seq(Events) /\ s.delivery >= 1),
         t \in Workers /\ s.open => s.batch \in Batches
  PROVE  Inv'
<1>1. tx \in [Transactions -> Tx] /\ Workers \subseteq Transactions
  BY DEF Inv, TxOK, Transactions
<1>2. tx' \in [Transactions -> Tx] /\ tx'[t] = s /\ \A u \in Transactions \ {t} : tx'[u] = tx[u]
  BY <1>1
<1>3. TxOK'
  BY <1>1, <1>2 DEF Inv, TxOK
<1>4. Locks'
  BY <1>2 DEF Inv, Locks
<1>5. WritesOK'
  BY <1>2 DEF Inv, WritesOK
<1>6. RowsOK'
  BY DEF Inv, RowsOK
<1>7. QED  BY <1>3, <1>4, <1>5, <1>6 DEF Inv

\* An error leaves nothing of the transaction.
LEMMA FailInv ==
  ASSUME Inv, NEW t \in Transactions, Fail(t)  PROVE Inv'
<1> DEFINE r == tx[t]
           s == [[r EXCEPT !.todo = << >>] EXCEPT !.writes = << >>]
<1>1. r \in Tx /\ (t \in Workers /\ r.open => r.batch \in Batches)
  BY DEF Inv, TxOK
<1>2. tx' = [tx EXCEPT ![t] = s] /\ UNCHANGED <<queue, deliveries, losses, db>>
  BY DEF Fail, Inv, TxOK
<1> HIDE DEF r
<1>3. /\ s \in Tx /\ s.open = r.open /\ s.batch = r.batch /\ s.todo = << >>
      /\ s.writes = << >>
  BY <1>1, IdleFacts DEF Tx
<1>4. QueueOK'
  BY <1>2 DEF Inv, QueueOK
<1> HIDE DEF s
<1>5. PICK x \in Tx : x = s
  BY <1>3
<1>6. QED  BY <1>1, <1>2, <1>3, <1>4, <1>5, IdleFacts, ResetInv

\* Ids of call rows: derived or random, never a random one in place of a
\* derived one.
LEMMA CallIdFacts ==
  ASSUME Inv, NEW t \in Transactions, tx[t].delivery >= 1, NEW e \in Events, IsCall(e)
  PROVE  /\ e.type = "provider_call" => /\ ProviderCallId(t, e) \in CallRows
                                        /\ ~Spurious(ProviderCallId(t, e))
         /\ e.type = "tool_call" => /\ <<e, tx[t].delivery>> \in CallRows
                                    /\ ~Spurious(<<e, tx[t].delivery>>)
<1>1. PICK d \in 1 .. MaxLosses + 1 : d = tx[t].delivery
  BY BatchesAssumption DEF Inv, TxOK, Tx
<1>2. RowsOf(e) \subseteq CallRows
  BY DEF CallRows
<1>3. <<e, d>> \in CallRows
  BY <1>2 DEF RowsOf
<1>4. ~(e.type = "provider_call" /\ e.span # NoSpan) => ~Spurious(<<e, d>>)
  BY DEF Spurious
<1>5. e.type = "provider_call" /\ e.span # NoSpan
        => SpanCall(e) \in CallRows /\ ~Spurious(SpanCall(e))
  <2> SUFFICES ASSUME e.type = "provider_call", e.span # NoSpan
               PROVE  SpanCall(e) \in CallRows /\ ~Spurious(SpanCall(e))
    OBVIOUS
  <2>1. SpanCall(e) \in CallRows
    BY <1>2 DEF RowsOf
  <2>2. e.run \in Runs /\ e.run \notin Events
    BY EventsAssumption, RowsAssumption
  <2>3. QED  BY <2>1, <2>2 DEF SpanCall, Spurious
<1>6. QED  BY <1>1, <1>3, <1>4, <1>5 DEF ProviderCallId

\* The handlers insert rows that are not there, and end runs and spans.
LEMMA DispatchInv ==
  ASSUME Inv, NEW t \in Transactions, Dispatch(t)  PROVE Inv'
<1>1. PICK i \in Seq(Events) : /\ i = tx[t].todo /\ i # << >> /\ tx[t].delivery >= 1
  <2>1. /\ tx[t].todo # << >>
        /\ Head(tx[t].todo).type \notin {"fail_spans", "cancel_runs"}
    BY DEF Dispatch, Statement
  <2>2. tx[t].todo \notin Seq(Closings)
    <3> SUFFICES ASSUME tx[t].todo \in Seq(Closings)  PROVE FALSE
      OBVIOUS
    <3>1. Head(tx[t].todo) \in Closings
      BY <2>1
    <3>2. QED  BY <2>1, <3>1 DEF Closings
  <2>3. QED  BY <2>1, <2>2 DEF Inv, TxOK
<1>2. PICK e \in Events : e = Head(tx[t].todo)
  BY <1>1
<1>3. e.type \in {"provider_call", "tool_call"} => IsCall(e)
  BY DEF IsCall
<1>4. CASE e.type = "run_start"
  <2>1. Insert(t, e.run, "running") /\ e.run \in Runs
    BY <1>2, <1>4, EventsAssumption DEF Dispatch, Statement, HandleRunStart
  <2>2. QED  BY <1>1, <2>1, InsertInv, KindFacts DEF Stati, RunStatus
<1>5. CASE e.type = "run_end"
  <2>1. Update(t, {e.run}, e.status) /\ e.run \in Runs /\ e.status \in RunStatus \ {"absent"}
    BY <1>2, <1>5, EventsAssumption DEF Dispatch, Statement, HandleRunEnd
  <2>2. {e.run} \in SUBSET Rows /\ e.status \in Stati
    BY <2>1, KindFacts DEF RunStatus, Stati
  <2>3. EndsEnd => e.status # "running"
    BY <1>5 DEF EndsEnd, Ended
  <2>4. QED  BY <1>1, <2>1, <2>2, <2>3, UpdateInv, KindFacts
<1>6. CASE e.type = "span_start"
  <2>1. InsertOf(t, RunOf[e.span], e.span, "running") /\ e.span \in Spans
    BY <1>2, <1>6, EventsAssumption DEF Dispatch, Statement, HandleSpanStart
  <2>2. QED  BY <1>1, <2>1, InsertInv, FailInv, KindFacts DEF InsertOf, Stati, SpanStatus
<1>7. CASE e.type = "span_end"
  <2>1. Update(t, {e.span}, e.status) /\ e.span \in Spans /\ e.status \in SpanStatus \ {"absent"}
    BY <1>2, <1>7, EventsAssumption DEF Dispatch, Statement, HandleSpanEnd
  <2>2. {e.span} \in SUBSET Rows /\ e.status \in Stati /\ e.span \notin Runs
    BY <2>1, KindFacts, RowsAssumption DEF SpanStatus, Stati
  <2>3. QED  BY <1>1, <2>1, <2>2, UpdateInv, KindFacts
<1>8. CASE e.type = "provider_call"
  <2>1. PICK x \in CallRows : x = ProviderCallId(t, e) /\ ~Spurious(x)
    BY <1>1, <1>3, <1>8, CallIdFacts
  <2>2. InsertOf(t, e.run, x, "recorded")
    BY <1>2, <1>8, <2>1 DEF Dispatch, Statement, HandleProviderCall, InsertOf, Insert, Seen
  <2>3. QED  BY <1>1, <2>1, <2>2, InsertInv, FailInv, KindFacts DEF InsertOf, Stati
<1>9. CASE e.type = "tool_call"
  <2>1. PICK x \in CallRows : x = <<e, tx[t].delivery>> /\ ~Spurious(x)
    BY <1>1, <1>3, <1>9, CallIdFacts
  <2>2. InsertOf(t, e.run, x, "recorded")
    BY <1>2, <1>9, <2>1 DEF Dispatch, Statement, HandleToolCall, InsertOf, Insert, Seen
  <2>3. QED  BY <1>1, <2>1, <2>2, InsertInv, FailInv, KindFacts DEF InsertOf, Stati
<1>10. QED
  BY <1>4, <1>5, <1>6, <1>7, <1>8, <1>9, EventsAssumption

\* The other closers fail spans and cancel runs.
LEMMA CloseInv ==
  ASSUME Inv, NEW t \in Transactions, Close(t)  PROVE Inv'
<1>1. tx[t].todo # << >> /\ Head(tx[t].todo).type \in {"fail_spans", "cancel_runs"}
  BY DEF Close, Statement
<1>2. tx[t].todo \notin Seq(Events)
  <2> SUFFICES ASSUME tx[t].todo \in Seq(Events)  PROVE FALSE
    OBVIOUS
  <2>1. Head(tx[t].todo) \in Events
    BY <1>1
  <2>2. QED  BY <1>1, <2>1, EventsAssumption
<1>3. tx[t].todo \in Seq(Closings)
  BY <1>2 DEF Inv, TxOK
<1>4. PICK c \in Closings : c = Head(tx[t].todo)
  BY <1>1, <1>3
<1>5. c.runs \in SUBSET Runs /\ c.runs \in SUBSET Rows
  BY KindFacts DEF Closings
<1>6. CASE c.type = "fail_spans"
  <2>1. FailOpenSpans(t, c.runs)
    BY <1>4, <1>6 DEF Close, Statement
  <2>2. PICK X \in SUBSET Spans :
          X = {x \in Spans : RunOf[x] \in c.runs /\ Seen(t, x) = "running"}
    OBVIOUS
  <2> DEFINE w == [x \in X |-> "failed"]
  <2>3. Write(t, w)
    BY <2>1, <2>2 DEF FailOpenSpans
  <2>4. w \in [X -> Stati] /\ X \in SUBSET Rows /\ DOMAIN w = X /\ \A x \in X : w[x] = "failed"
    BY KindFacts DEF Stati
  <2>5. w \in Partial
    BY <2>4 DEF Partial
  <2> HIDE DEF w
  <2>6. QED  BY <1>1, <2>3, <2>4, <2>5, WriteInv, KindFacts DEF SpanStatus
<1>7. CASE c.type = "cancel_runs"
  <2>1. Update(t, c.runs, "cancelled")
    BY <1>4, <1>7 DEF Close, Statement, CancelRuns
  <2>2. QED  BY <1>1, <1>5, <2>1, UpdateInv, KindFacts DEF Stati, RunStatus
<1>8. QED  BY <1>6, <1>7 DEF Closings

-----------------------------------------------------------------------------
\* A transaction begins with nothing written.
LEMMA BeginInv ==
  ASSUME Inv, NEW t \in Transactions, NEW b \in Batches \cup {NoBatch},
         NEW d \in 0 .. MaxLosses + 1, NEW todo \in Seq(Events) \cup Seq(Closings),
         Begin(t, b, d, todo), UNCHANGED db, QueueOK',
         todo \in Seq(Closings) \/ d >= 1, t \in Workers => b \in Batches
  PROVE  Inv'
<1> DEFINE s == [open |-> TRUE, batch |-> b, delivery |-> d, todo |-> todo, writes |-> << >>]
<1>1. s \in Tx
  BY IdleFacts DEF Tx
<1>2. tx' = [tx EXCEPT ![t] = s]
  BY DEF Begin
<1>3. s.todo = todo /\ s.writes = << >> /\ s.delivery = d /\ s.batch = b
  OBVIOUS
<1> HIDE DEF s
<1>4. QED  BY <1>1, <1>2, <1>3, IdleFacts, ResetInv

\* A batch is queued once by the API; each loss accounts for one more delivery.
LEMMA QueueFacts ==
  ASSUME Inv
  PROVE  /\ \A b \in Batches : Accept(b) => QueueOK'
         /\ \A b \in Batches, w \in Workers : ProcessEvents(w, b) =>
              QueueOK' /\ deliveries'[b] \in 1 .. MaxLosses + 1
         /\ \A b \in Batches : ComesBack(b) /\ UNCHANGED deliveries => QueueOK'
<1>1. ASSUME NEW b \in Batches, Accept(b)  PROVE QueueOK'
  BY <1>1 DEF Accept, Inv, QueueOK
<1>2. ASSUME NEW b \in Batches, NEW w \in Workers, ProcessEvents(w, b)
      PROVE  QueueOK' /\ deliveries'[b] \in 1 .. MaxLosses + 1
  <2>1. /\ b \in queue /\ queue' = queue \ {b} /\ UNCHANGED losses
        /\ deliveries' = [deliveries EXCEPT ![b] = @ + 1]
    BY <1>2 DEF ProcessEvents
  <2>2. deliveries'[b] = deliveries[b] + 1 /\ deliveries[b] \in Nat
        /\ deliveries[b] + 1 <= losses + 1 /\ losses \in 0 .. MaxLosses
    BY <2>1 DEF Inv, QueueOK
  <2>3. QueueOK'
    BY <2>1, <2>2 DEF Inv, QueueOK
  <2>4. QED  BY <2>2, <2>3, BatchesAssumption
<1>3. ASSUME NEW b \in Batches, ComesBack(b), UNCHANGED deliveries  PROVE QueueOK'
  BY <1>3, BatchesAssumption DEF ComesBack, Inv, QueueOK
<1>4. QED  BY <1>1, <1>2, <1>3

\* A delivery begins a transaction with the events of its batch.
LEMMA ProcessEventsInv ==
  ASSUME Inv, NEW w \in Workers, NEW b \in Batches, ProcessEvents(w, b)  PROVE Inv'
<1>1. PICK d \in 1 .. MaxLosses + 1 : d = deliveries'[b] /\ QueueOK'
  BY QueueFacts
<1>2. Begin(w, b, d, EventsOf[b]) /\ UNCHANGED db
  BY <1>1 DEF ProcessEvents, Begin
<1>3. EventsOf[b] \in Seq(Events) /\ w \in Transactions /\ d \in 0 .. MaxLosses + 1 /\ d >= 1
  BY EventsAssumption, BatchesAssumption DEF Transactions
<1>4. QED  BY <1>1, <1>2, <1>3, BeginInv

\* The selections of the three other closers begin one with closing statements.
LEMMA SelectInv ==
  ASSUME Inv, NEW t \in Finalizers \cup Guards \cup Admins,
         NEW todo \in Seq(Closings), Begin(t, NoBatch, 0, todo),
         UNCHANGED <<queue, deliveries, losses, db>>
  PROVE  Inv'
<1>1. t \in Transactions /\ t \notin Workers
  BY WorkersAssumption DEF Transactions
<1>2. QueueOK'
  BY DEF Inv, QueueOK
<1>3. 0 \in 0 .. MaxLosses + 1
  BY BatchesAssumption
<1>4. QED  BY <1>1, <1>2, <1>3, BeginInv

\* The finalizer fails the spans of the runs it selected and cancels these.
LEMMA SelectStaleFacts ==
  ASSUME NEW f \in Finalizers, NEW R \in SUBSET OtlpRuns, SelectStale(f, R)
  PROVE  \E todo \in Seq(Closings) :
           Begin(f, NoBatch, 0, todo) /\ UNCHANGED <<queue, deliveries, losses, db>>
<1> DEFINE todo == << [type |-> "fail_spans", runs |-> R], [type |-> "cancel_runs", runs |-> R] >>
<1>1. /\ [type |-> "fail_spans", runs |-> R] \in Closings
      /\ [type |-> "cancel_runs", runs |-> R] \in Closings
  BY RunsAssumption DEF Closings
<1>2. todo \in Seq(Closings)
  BY <1>1
<1>3. Begin(f, NoBatch, 0, todo) /\ UNCHANGED <<queue, deliveries, losses, db>>
  BY DEF SelectStale
<1> HIDE DEF todo
<1>4. QED  BY <1>2, <1>3

\* The runaway protection cancels one run after the other.
LEMMA SelectRunawayFacts ==
  ASSUME NEW g \in Guards, NEW R \in SUBSET Runs, SelectRunaway(g, R)
  PROVE  \E todo \in Seq(Closings) :
           Begin(g, NoBatch, 0, todo) /\ UNCHANGED <<queue, deliveries, losses, db>>
<1>1. PICK order \in SetToSeqs(R) :
        Begin(g, NoBatch, 0,
              [i \in DOMAIN order |-> [type |-> "cancel_runs", runs |-> {order[i]}]])
  BY DEF SelectRunaway
<1> DEFINE todo == [i \in DOMAIN order |-> [type |-> "cancel_runs", runs |-> {order[i]}]]
<1>2. Cardinality(R) \in Nat
  BY RunsAssumption, FS_Subset, FS_CardinalityType
<1>3. order \in [1 .. Cardinality(R) -> R]
  BY DEF SetToSeqs
<1>4. \A i \in 1 .. Cardinality(R) : [type |-> "cancel_runs", runs |-> {order[i]}] \in Closings
  BY <1>3 DEF Closings
<1>5. todo \in [1 .. Cardinality(R) -> Closings]
  BY <1>3, <1>4
<1>6. todo \in Seq(Closings)
  <2> HIDE DEF todo
  <2>1. PICK n \in Nat : n = Cardinality(R)
    BY <1>2
  <2>2. todo \in [1 .. n -> Closings]
    BY <1>5, <2>1
  <2>3. Seq(Closings) = UNION {[1 .. k -> Closings] : k \in Nat}
    BY SeqDef
  <2>4. QED  BY <2>2, <2>3
<1>7. Begin(g, NoBatch, 0, todo) /\ UNCHANGED <<queue, deliveries, losses, db>>
  BY <1>1 DEF SelectRunaway
<1> HIDE DEF todo
<1>8. QED  BY <1>6, <1>7

\* An admin cancels one run.
LEMMA CancelRunFacts ==
  ASSUME NEW a \in Admins, NEW r \in Runs, CancelRun(a, r)
  PROVE  \E todo \in Seq(Closings) :
           Begin(a, NoBatch, 0, todo) /\ UNCHANGED <<queue, deliveries, losses, db>>
<1> DEFINE todo == << [type |-> "cancel_runs", runs |-> {r}] >>
<1>1. todo \in Seq(Closings)
  BY DEF Closings
<1>2. Begin(a, NoBatch, 0, todo) /\ UNCHANGED <<queue, deliveries, losses, db>>
  BY DEF CancelRun
<1> HIDE DEF todo
<1>3. QED  BY <1>1, <1>2

-----------------------------------------------------------------------------
\* A commit stores what was written, which no other open transaction wrote.
LEMMA CommitInv ==
  ASSUME Inv, NEW t \in Transactions, Commit(t), QueueOK'  PROVE Inv'
<1>1. /\ tx \in [Transactions -> Tx] /\ Workers \subseteq Transactions
      /\ db' = Over(tx[t].writes, db) /\ tx' = [tx EXCEPT ![t] = Idle]
  BY DEF Inv, TxOK, Transactions, Commit
<1>2. /\ tx' \in [Transactions -> Tx] /\ tx'[t] = Idle
      /\ \A u \in Transactions \ {t} : tx'[u] = tx[u]
  BY <1>1, IdleFacts
<1>3. TxOK'
  BY <1>1, <1>2, IdleFacts DEF Inv, TxOK
<1>4. Locks'
  BY <1>2, IdleFacts DEF Inv, Locks
<1>5. PICK X \in SUBSET Rows : tx[t].writes \in [X -> Stati]
  <2>1. tx[t] \in Tx
    BY <1>1
  <2>2. tx[t].writes \in Partial
    BY <2>1 DEF Tx
  <2>3. QED  BY <2>2 DEF Partial
<1>6. /\ DOMAIN db' = Rows
      /\ \A x \in X : db'[x] = tx[t].writes[x]
      /\ \A x \in Rows \ X : db'[x] = db[x]
  BY <1>1, <1>5 DEF Over, Inv, RowsOK
<1>7. RowsOK'
  BY <1>5, <1>6 DEF Inv, RowsOK, WritesOK
<1>8. \A u \in Transactions \ {t} : \A x \in DOMAIN tx[u].writes : x \in Rows \ X
  <2> SUFFICES ASSUME NEW u \in Transactions \ {t}, NEW x \in DOMAIN tx[u].writes
               PROVE  x \in Rows \ X
    OBVIOUS
  <2>1. tx[u].writes \in Partial
    BY <1>1 DEF Tx
  <2>2. x \in Rows
    BY <2>1 DEF Partial
  <2>3. QED  BY <1>5, <2>2 DEF Inv, Locks
<1>9. WritesOK'
  <2> SUFFICES ASSUME NEW u \in Transactions, NEW x \in DOMAIN tx'[u].writes
               PROVE  /\ tx'[u].writes[x] \in Value(x) /\ ~Spurious(x)
                      /\ EndsEnd /\ x \in Runs /\ tx'[u].writes[x] = "running"
                           => db'[x] = "absent"
    BY DEF WritesOK
  <2>1. u # t
    BY <1>2, IdleFacts
  <2>2. QED  BY <1>2, <1>6, <1>8, <2>1 DEF Inv, WritesOK
<1>10. QED  BY <1>3, <1>4, <1>7, <1>9 DEF Inv

\* Nothing but the queue changes when a batch is queued or delivered again.
LEMMA QueuedInv == ASSUME Inv, UNCHANGED <<db, tx>>, QueueOK'  PROVE Inv'
BY DEF Inv, TxOK, Locks, RowsOK, WritesOK

\* The losses of workers before, during and after the commit.
LEMMA LossesInv ==
  ASSUME Inv, NEW w \in Workers, LoseAck(w) \/ LoseWorker(w) \/ VisibilityTimeout(w)
  PROVE  Inv'
<1>1. tx[w].open /\ w \in Transactions
  BY DEF LoseAck, LoseWorker, VisibilityTimeout, Commit, Transactions
<1>2. PICK b \in Batches : b = tx[w].batch
  BY <1>1 DEF Inv, TxOK
<1>3. ComesBack(b) /\ UNCHANGED deliveries
  BY <1>2 DEF LoseAck, LoseWorker, VisibilityTimeout, ComesBack
<1>4. QueueOK'
  BY <1>3, QueueFacts
<1>5. CASE LoseAck(w)
  BY <1>1, <1>4, <1>5, CommitInv DEF LoseAck
<1>6. CASE LoseWorker(w)
  BY <1>1, <1>4, <1>6, ResetInv, IdleFacts DEF LoseWorker
<1>7. CASE VisibilityTimeout(w)
  BY <1>4, <1>7, QueuedInv DEF VisibilityTimeout
<1>8. QED  BY <1>5, <1>6, <1>7

\* Every step keeps the inductive invariant.
LEMMA NextInv == Inv /\ [Next]_vars => Inv'
<1> SUFFICES ASSUME Inv, [Next]_vars  PROVE Inv'
  OBVIOUS
<1>1. ASSUME NEW b \in Batches, Accept(b)  PROVE Inv'
  BY <1>1, QueueFacts, QueuedInv DEF Accept
<1>2. ASSUME NEW t \in Transactions, CommitAndAck(t)  PROVE Inv'
  <2>1. QueueOK'
    BY <1>2 DEF CommitAndAck, Inv, QueueOK
  <2>2. QED  BY <1>2, <2>1, CommitInv DEF CommitAndAck
<1>3. ASSUME NEW t \in Transactions, BreakDeadlock(t)  PROVE Inv'
  BY <1>3, FailInv DEF BreakDeadlock
<1>4. CASE UNCHANGED vars
  <2>1. QueueOK' /\ UNCHANGED <<db, tx>>
    BY <1>4 DEF vars, Inv, QueueOK
  <2>2. QED  BY <2>1, QueuedInv
<1>5. QED
  BY <1>1, <1>2, <1>3, <1>4, ProcessEventsInv, LossesInv, SelectInv, SelectStaleFacts,
     SelectRunawayFacts, CancelRunFacts, DispatchInv, CloseInv DEF Next

\* The inductive invariant holds throughout.
LEMMA InvHolds == Spec => []Inv
BY InitInv, NextInv, PTL DEF Spec

-----------------------------------------------------------------------------
\* Runs, spans, calls and transactions keep the forms of their tables, and no
\* task is delivered more often than it came back.
THEOREM TypeCorrect == Spec => []TypeOK
<1>1. Inv => TypeOK
  <2> SUFFICES ASSUME Inv  PROVE TypeOK
    OBVIOUS
  <2>1. \A x \in Rows : db[x] \in Value(x)
    BY DEF Inv, RowsOK
  <2>2. deliveries \in [Batches -> 0 .. MaxLosses + 1]
    BY BatchesAssumption DEF Inv, QueueOK
  <2>3. \A t \in Transactions : DOMAIN tx[t].writes \subseteq Rows
    <3> SUFFICES ASSUME NEW t \in Transactions  PROVE DOMAIN tx[t].writes \subseteq Rows
      OBVIOUS
    <3>1. tx[t].writes \in Partial
      BY DEF Inv, TxOK, Tx
    <3>2. QED  BY <3>1 DEF Partial
  <2>4. QED  BY <2>1, <2>2, <2>3, KindFacts DEF TypeOK, Inv, QueueOK
<1>2. QED  BY <1>1, InvHolds, PTL

\* uuid5 over run and span makes one row of a provider call in a span, however
\* many deliveries of its batch overlap.
THEOREM SpanCallsCountOnce == Spec => []CallsCountedOnce
<1>1. Inv => CallsCountedOnce
  <2> SUFFICES ASSUME Inv, NEW e \in Events, e.type = "provider_call", e.span # NoSpan
               PROVE  Cardinality(Recorded(e)) <= 1
    BY DEF CallsCountedOnce
  <2>1. RowsOf(e) \subseteq Rows
    BY DEF Rows, CallRows, IsCall
  <2>2. \A x \in {e} \X (1 .. MaxLosses + 1) : db[x] = "absent"
    BY <2>1 DEF Inv, RowsOK, Spurious, RowsOf
  <2>3. Recorded(e) \subseteq {SpanCall(e)}
    BY <2>2 DEF Recorded, RowsOf
  <2>4. IsFiniteSet({SpanCall(e)}) /\ Cardinality({SpanCall(e)}) = 1
    BY FS_Singleton
  <2>5. Cardinality(Recorded(e)) <= Cardinality({SpanCall(e)})
    BY <2>3, <2>4, FS_Subset
  <2>6. QED  BY <2>4, <2>5
<1>2. QED  BY <1>1, InvHolds, PTL

\* For any number of workers and closers: as long as every run_end names an
\* end, no order of their statements and commits sets a closed run running.
THEOREM ClosedRunsStayClosed == ASSUME EndsEnd  PROVE Spec => NeverReopens
<1>1. Inv /\ [Next]_vars =>
        [\A r \in Runs : db[r] \in Ended => db'[r] \in Ended]_vars
  <2> SUFFICES ASSUME Inv, [Next]_vars, NEW r \in Runs, db[r] \in Ended
               PROVE  db'[r] \in Ended
    OBVIOUS
  <2>1. CASE UNCHANGED db
    BY <2>1
  <2>2. CASE \E t \in Transactions : Commit(t)
    <3>1. PICK t \in Transactions : Commit(t)
      BY <2>2
    <3>2. db' = Over(tx[t].writes, db) /\ r \in DOMAIN db
      BY <3>1, KindFacts DEF Commit, Inv, RowsOK
    <3>3. CASE r \notin DOMAIN tx[t].writes
      BY <3>2, <3>3 DEF Over
    <3>4. CASE r \in DOMAIN tx[t].writes
      <4>1. db'[r] = tx[t].writes[r] /\ tx[t].writes[r] # "running"
        BY <3>2, <3>4 DEF Over, Inv, WritesOK, Ended
      <4>2. tx[t].writes \in Partial
        BY DEF Inv, TxOK, Tx
      <4>3. tx[t].writes[r] \in Stati /\ tx[t].writes[r] \in RunStatus
        BY <3>4, <4>2, KindFacts DEF Partial, Inv, WritesOK
      <4>4. QED  BY <4>1, <4>3 DEF Stati, RunStatus, Ended
    <3>5. QED  BY <3>3, <3>4
  <2>3. UNCHANGED db \/ \E t \in Transactions : Commit(t)
    BY DEF Next, vars, Transactions, Accept, ProcessEvents, LoseAck, LoseWorker,
       VisibilityTimeout, SelectStale, SelectRunaway, CancelRun, Dispatch, Close, CommitAndAck,
       BreakDeadlock, Fail, Write, Insert, InsertOf, Update, HandleRunStart, HandleRunEnd,
       HandleSpanStart, HandleSpanEnd, HandleProviderCall, HandleToolCall, FailOpenSpans,
       CancelRuns
  <2>4. QED  BY <2>1, <2>2, <2>3
<1>2. QED  BY <1>1, InvHolds, PTL DEF Spec, NeverReopens

-----------------------------------------------------------------------------
(* What a batch records, it records whole.                                   *)

Calls(b) == {e \in ToSet(EventsOf[b]) : IsCall(e)}

\* No call has the id of another.  The id of a provider call comes from its run
\* and span alone, so two calls of one span do not meet this.
OwnIds ==
  \A b, c \in Batches : \A e \in Calls(b), f \in Calls(c) :
    RowsOf(e) \cap RowsOf(f) # {} => e = f /\ b = c

\* A worker has written calls of its batch only, and sees each of them that is
\* not left to do, unless an error took everything.
Working(t) ==
  LET b == tx[t].batch
  IN /\ tx[t].todo \in Seq(Events) /\ ToSet(tx[t].todo) \subseteq ToSet(EventsOf[b])
     /\ \A x \in DOMAIN tx[t].writes \cap CallRows : \E e \in Calls(b) : x \in RowsOf(e)
     /\ \/ tx[t].todo = << >> /\ DOMAIN tx[t].writes = {}
        \/ \A e \in Calls(b) : e \in ToSet(tx[t].todo)
                               \/ \E x \in RowsOf(e) : Seen(t, x) # "absent"

\* Nobody else writes calls.
Callless(t) ==
  tx[t].todo \in Seq(Closings) /\ DOMAIN tx[t].writes \cap CallRows = {}

Whole ==
  /\ \A t \in Transactions : IF t \in Workers /\ tx[t].open THEN Working(t) ELSE Callless(t)
  /\ \A b \in Batches : \A e, f \in Calls(b) : Recorded(e) # {} => Recorded(f) # {}

\* A handler of a call writes or finds a row of it; no other writes call rows.
LEMMA DispatchFacts ==
  ASSUME Inv, NEW t \in Transactions, Dispatch(t)
  PROVE  \E e \in Events :
           /\ e = Head(tx[t].todo) /\ tx[t].todo # << >> /\ tx[t].todo \in Seq(Events)
           /\ \/ Fail(t)
              \/ \E w \in Partial :
                   /\ Write(t, w)
                   /\ \A x \in DOMAIN w \cap CallRows : IsCall(e) /\ x \in RowsOf(e)
                   /\ IsCall(e) => \E x \in RowsOf(e) : x \in DOMAIN w \/ Seen(t, x) # "absent"
<1>1. /\ tx[t].todo # << >>
      /\ Head(tx[t].todo).type \notin {"fail_spans", "cancel_runs"}
  BY DEF Dispatch, Statement
<1>2. tx[t].todo \in Seq(Events) /\ tx[t].delivery >= 1
  <2>1. tx[t].todo \notin Seq(Closings)
    <3> SUFFICES ASSUME tx[t].todo \in Seq(Closings)  PROVE FALSE
      OBVIOUS
    <3>1. Head(tx[t].todo) \in Closings
      BY <1>1
    <3>2. QED  BY <1>1, <3>1 DEF Closings
  <2>2. QED  BY <2>1 DEF Inv, TxOK
<1>3. PICK e \in Events : e = Head(tx[t].todo)
  BY <1>1, <1>2
<1>4. ASSUME NEW x \in Rows, NEW v \in Stati, Insert(t, x, v),
             x \in CallRows => IsCall(e) /\ x \in RowsOf(e), IsCall(e) => x \in CallRows
      PROVE  \E w \in Partial :
               /\ Write(t, w)
               /\ \A y \in DOMAIN w \cap CallRows : IsCall(e) /\ y \in RowsOf(e)
               /\ IsCall(e) => \E y \in RowsOf(e) : y \in DOMAIN w \/ Seen(t, y) # "absent"
  <2>1. CASE Seen(t, x) = "absent"
    <3> DEFINE w == [r \in {x} |-> v]
    <3>1. Write(t, w)
      BY <1>4, <2>1 DEF Insert
    <3>2. w \in [{x} -> Stati] /\ DOMAIN w = {x}
      OBVIOUS
    <3>3. w \in Partial
      BY <3>2 DEF Partial
    <3> HIDE DEF w
    <3>4. QED  BY <1>4, <3>1, <3>2, <3>3
  <2>2. CASE Seen(t, x) # "absent"
    <3>1. Write(t, << >>)
      BY <1>4, <2>2 DEF Insert
    <3>2. QED  BY <1>4, <2>2, <3>1, IdleFacts
  <2>3. QED  BY <2>1, <2>2
<1>5. ASSUME NEW X \in SUBSET Rows, NEW v \in Stati, Update(t, X, v),
             X \cap CallRows = {}, ~IsCall(e)
      PROVE  \E w \in Partial :
               /\ Write(t, w)
               /\ \A y \in DOMAIN w \cap CallRows : IsCall(e) /\ y \in RowsOf(e)
               /\ IsCall(e) => \E y \in RowsOf(e) : y \in DOMAIN w \/ Seen(t, y) # "absent"
  <2>1. PICK Y \in SUBSET X : Y = {y \in X : Seen(t, y) # "absent"}
    OBVIOUS
  <2> DEFINE w == [x \in Y |-> v]
  <2>2. Write(t, w)
    BY <1>5, <2>1 DEF Update
  <2>3. w \in [Y -> Stati] /\ Y \in SUBSET Rows /\ DOMAIN w = Y
    OBVIOUS
  <2>4. w \in Partial
    BY <2>3 DEF Partial
  <2> HIDE DEF w
  <2>5. QED  BY <1>5, <2>2, <2>3, <2>4
<1>6. CASE e.type = "run_start"
  <2>1. Insert(t, e.run, "running") /\ e.run \in Runs /\ ~IsCall(e)
    BY <1>3, <1>6, EventsAssumption DEF Dispatch, Statement, HandleRunStart, IsCall
  <2>2. e.run \in Rows /\ e.run \notin CallRows
    BY <2>1, KindFacts, RowsAssumption
  <2>3. QED  BY <1>1, <1>2, <1>3, <1>4, <2>1, <2>2 DEF Stati
<1>7. CASE e.type = "run_end"
  <2>1. Update(t, {e.run}, e.status) /\ e.run \in Runs /\ e.status \in RunStatus \ {"absent"}
        /\ ~IsCall(e)
    BY <1>3, <1>7, EventsAssumption DEF Dispatch, Statement, HandleRunEnd, IsCall
  <2>2. {e.run} \in SUBSET Rows /\ {e.run} \cap CallRows = {} /\ e.status \in Stati
    BY <2>1, KindFacts, RowsAssumption DEF RunStatus, Stati
  <2>3. QED  BY <1>1, <1>2, <1>3, <1>5, <2>1, <2>2
<1>8. CASE e.type = "span_start"
  <2>1. InsertOf(t, RunOf[e.span], e.span, "running") /\ e.span \in Spans /\ ~IsCall(e)
    BY <1>3, <1>8, EventsAssumption DEF Dispatch, Statement, HandleSpanStart, IsCall
  <2>2. e.span \in Rows /\ e.span \notin CallRows
    BY <2>1, KindFacts, RowsAssumption
  <2>3. QED  BY <1>1, <1>2, <1>3, <1>4, <2>1, <2>2 DEF Stati, InsertOf
<1>9. CASE e.type = "span_end"
  <2>1. Update(t, {e.span}, e.status) /\ e.span \in Spans /\ e.status \in SpanStatus \ {"absent"}
        /\ ~IsCall(e)
    BY <1>3, <1>9, EventsAssumption DEF Dispatch, Statement, HandleSpanEnd, IsCall
  <2>2. {e.span} \in SUBSET Rows /\ {e.span} \cap CallRows = {} /\ e.status \in Stati
    BY <2>1, KindFacts, RowsAssumption DEF SpanStatus, Stati
  <2>3. QED  BY <1>1, <1>2, <1>3, <1>5, <2>1, <2>2
<1>10. CASE IsCall(e)
  <2>1. PICK x \in RowsOf(e) : InsertOf(t, e.run, x, "recorded")
    <3>1. PICK d \in 1 .. MaxLosses + 1 : d = tx[t].delivery
      BY <1>2, BatchesAssumption DEF Inv, TxOK, Tx
    <3>2. <<e, d>> \in RowsOf(e)
      BY DEF RowsOf
    <3>3. CASE e.type = "tool_call"
      BY <1>3, <3>1, <3>2, <3>3
         DEF Dispatch, Statement, HandleToolCall, InsertOf, Insert, Seen
    <3>4. CASE e.type = "provider_call"
      <4>1. PICK x \in RowsOf(e) : x = ProviderCallId(t, e)
        BY <3>1, <3>2, <3>4 DEF ProviderCallId, RowsOf
      <4>2. QED
        BY <1>3, <3>4, <4>1 DEF Dispatch, Statement, HandleProviderCall, InsertOf, Insert, Seen
    <3>5. QED  BY <1>10, <3>3, <3>4 DEF IsCall
  <2>2. x \in CallRows /\ x \in Rows
    BY <1>10, <2>1 DEF CallRows, Rows
  <2>3. QED  BY <1>1, <1>2, <1>3, <1>4, <1>10, <2>1, <2>2 DEF Stati, InsertOf
<1>11. QED
  BY <1>6, <1>7, <1>8, <1>9, <1>10, EventsAssumption DEF IsCall

\* A closing statement writes runs and spans only.
LEMMA CloseFacts ==
  ASSUME Inv, NEW t \in Transactions, Close(t)
  PROVE  /\ tx[t].todo # << >> /\ tx[t].todo \notin Seq(Events)
         /\ \E w \in Partial : Write(t, w) /\ DOMAIN w \cap CallRows = {}
<1>1. tx[t].todo # << >> /\ Head(tx[t].todo).type \in {"fail_spans", "cancel_runs"}
  BY DEF Close, Statement
<1>2. tx[t].todo \notin Seq(Events)
  <2> SUFFICES ASSUME tx[t].todo \in Seq(Events)  PROVE FALSE
    OBVIOUS
  <2>1. Head(tx[t].todo) \in Events
    BY <1>1
  <2>2. QED  BY <1>1, <2>1, EventsAssumption
<1>3. PICK c \in Closings : c = Head(tx[t].todo)
  <2>1. tx[t].todo \in Seq(Closings)
    BY <1>2 DEF Inv, TxOK
  <2>2. QED  BY <1>1, <2>1
<1>4. PICK X \in SUBSET (Runs \cup Spans), v \in Stati : Write(t, [x \in X |-> v])
  <2>1. CASE c.type = "fail_spans"
    <3>1. FailOpenSpans(t, c.runs)
      BY <1>3, <2>1 DEF Close, Statement
    <3>2. PICK X \in SUBSET Spans :
            X = {x \in Spans : RunOf[x] \in c.runs /\ Seen(t, x) = "running"}
      OBVIOUS
    <3>3. Write(t, [x \in X |-> "failed"])
      BY <3>1, <3>2 DEF FailOpenSpans
    <3>4. QED  BY <3>3 DEF Stati
  <2>2. CASE c.type = "cancel_runs"
    <3>1. Update(t, c.runs, "cancelled") /\ c.runs \in SUBSET Runs
      BY <1>3, <2>2 DEF Close, Statement, CancelRuns, Closings
    <3>2. PICK X \in SUBSET c.runs : X = {y \in c.runs : Seen(t, y) # "absent"}
      OBVIOUS
    <3>3. Write(t, [x \in X |-> "cancelled"])
      BY <3>1, <3>2 DEF Update
    <3>4. QED  BY <3>1, <3>3 DEF Stati
  <2>3. QED  BY <2>1, <2>2 DEF Closings
<1> DEFINE w == [x \in X |-> v]
<1>5. w \in [X -> Stati] /\ DOMAIN w = X /\ X \in SUBSET Rows /\ X \cap CallRows = {}
  BY KindFacts, RowsAssumption
<1>6. w \in Partial
  BY <1>5 DEF Partial
<1>7. QED  BY <1>1, <1>2, <1>4, <1>5, <1>6

\* A step of one transaction that commits nothing.
LEMMA OneWhole ==
  ASSUME Inv, Whole, NEW t \in Transactions, NEW s, tx' = [tx EXCEPT ![t] = s],
         UNCHANGED db, IF t \in Workers /\ s.open THEN Working(t)' ELSE Callless(t)'
  PROVE  Whole'
<1>1. tx'[t] = s /\ \A u \in Transactions \ {t} : tx'[u] = tx[u]
  BY DEF Inv, TxOK
<1>2. \A u \in Transactions \ {t} : Working(u) => Working(u)'
  BY <1>1 DEF Working, Seen
<1>3. \A u \in Transactions \ {t} : Callless(u) => Callless(u)'
  BY <1>1 DEF Callless
<1>4. \A u \in Transactions : IF u \in Workers /\ tx'[u].open THEN Working(u)' ELSE Callless(u)'
  BY <1>1, <1>2, <1>3 DEF Whole
<1>5. \A b \in Batches : \A e, f \in Calls(b) : Recorded(e)' # {} => Recorded(f)' # {}
  BY DEF Whole, Recorded
<1>6. QED  BY <1>4, <1>5 DEF Whole, Calls

\* What a statement changes of its transaction.
LEMMA WriteFacts ==
  ASSUME Inv, NEW t \in Transactions, NEW w \in Partial, Write(t, w)
  PROVE  /\ tx' = [tx EXCEPT ![t] = tx'[t]] /\ UNCHANGED db
         /\ tx'[t].open = tx[t].open /\ tx'[t].batch = tx[t].batch
         /\ tx'[t].todo = Tail(tx[t].todo)
         /\ DOMAIN tx'[t].writes = DOMAIN w \cup DOMAIN tx[t].writes
         /\ \A x \in DOMAIN w : tx'[t].writes[x] \in Stati
         /\ \A x \in DOMAIN tx[t].writes \ DOMAIN w : tx'[t].writes[x] = tx[t].writes[x]
<1> DEFINE r == tx[t]
           s == [[r EXCEPT !.todo = Tail(@)] EXCEPT !.writes = Over(w, @)]
<1>1. tx \in [Transactions -> Tx] /\ r \in Tx
  BY DEF Inv, TxOK
<1>2. tx' = [tx EXCEPT ![t] = s] /\ tx'[t] = s /\ UNCHANGED db
  BY <1>1 DEF Write
<1> HIDE DEF r
<1>3. /\ s.open = r.open /\ s.batch = r.batch /\ s.todo = Tail(r.todo)
      /\ s.writes = Over(w, r.writes) /\ r.writes \in Partial
  BY <1>1 DEF Tx
<1> HIDE DEF s
<1>4. \A x \in DOMAIN w : w[x] \in Stati
  BY DEF Partial
<1>5. tx' = [tx EXCEPT ![t] = tx'[t]]
  BY <1>2
<1>6. /\ DOMAIN s.writes = DOMAIN w \cup DOMAIN r.writes
      /\ \A x \in DOMAIN w : s.writes[x] = w[x]
      /\ \A x \in DOMAIN r.writes \ DOMAIN w : s.writes[x] = r.writes[x]
  BY <1>3, OverFacts
<1>7. QED  BY <1>2, <1>3, <1>4, <1>5, <1>6 DEF r

\* Events that are done leave the rest of a batch one by one.
LEMMA TailFacts ==
  ASSUME NEW q \in Seq(Events), q # << >>
  PROVE  /\ Tail(q) \in Seq(Events) /\ Head(q) \in ToSet(q)
         /\ ToSet(Tail(q)) \subseteq ToSet(q) /\ ToSet(q) = {Head(q)} \cup ToSet(Tail(q))
<1>1. /\ Len(q) \in Nat /\ Len(q) >= 1 /\ Tail(q) \in Seq(Events) /\ Len(Tail(q)) = Len(q) - 1
      /\ DOMAIN q = 1 .. Len(q) /\ DOMAIN Tail(q) = 1 .. Len(q) - 1 /\ Head(q) = q[1]
      /\ \A i \in 1 .. Len(q) - 1 : Tail(q)[i] = q[i + 1]
  OBVIOUS
<1>2. \A i \in 1 .. Len(q) : i = 1 \/ (i - 1 \in 1 .. Len(q) - 1 /\ q[i] = Tail(q)[i - 1])
  BY <1>1
<1>3. \A i \in 1 .. Len(q) - 1 : i + 1 \in 1 .. Len(q)
  BY <1>1
<1> DEFINE r == Tail(q)
<1>4. ToSet(q) = {q[i] : i \in 1 .. Len(q)} /\ ToSet(r) = {r[i] : i \in 1 .. Len(q) - 1}
  BY <1>1 DEF ToSet
<1>5. Head(q) \in ToSet(q)
  BY <1>1, <1>4
<1> HIDE DEF r
<1>6. \A i \in 1 .. Len(q) - 1 : r[i] = q[i + 1]
  BY <1>1 DEF r
<1>7. ToSet(r) \subseteq ToSet(q)
  <2> SUFFICES ASSUME NEW i \in 1 .. Len(q) - 1  PROVE r[i] \in ToSet(q)
    BY <1>4
  <2>1. QED  BY <1>3, <1>4, <1>6
<1>8. ToSet(q) \subseteq {Head(q)} \cup ToSet(r)
  <2> SUFFICES ASSUME NEW i \in 1 .. Len(q)  PROVE q[i] = Head(q) \/ q[i] \in ToSet(r)
    BY <1>4
  <2>1. QED  BY <1>1, <1>2, <1>4 DEF r
<1>9. QED  BY <1>1, <1>5, <1>7, <1>8 DEF r

\* An error takes all calls of the transaction.
LEMMA FailWhole ==
  ASSUME Inv, Whole, NEW t \in Transactions, Fail(t)  PROVE Whole'
<1> DEFINE s == [[tx[t] EXCEPT !.todo = << >>] EXCEPT !.writes = << >>]
<1>1. tx' = [tx EXCEPT ![t] = s] /\ UNCHANGED db /\ tx'[t] = s
  BY DEF Fail, Inv, TxOK
<1>2. tx[t] \in Tx
  BY DEF Inv, TxOK
<1>3. s.open = tx[t].open /\ s.todo = << >> /\ s.writes = << >>
  BY <1>2 DEF Tx
<1> HIDE DEF s
<1>4. /\ DOMAIN tx'[t].writes = {} /\ tx'[t].todo = << >>
      /\ << >> \in Seq(Events) /\ << >> \in Seq(Closings)
  BY <1>1, <1>3, IdleFacts
<1>5. ToSet(<< >>) = {}
  BY IdleFacts DEF ToSet
<1>6. Working(t)' /\ Callless(t)'
  BY <1>4, <1>5 DEF Working, Callless
<1>7. PICK y : y = tx'[t]
  OBVIOUS
<1>8. QED  BY <1>1, <1>6, <1>7, OneWhole

\* A handler goes on with its batch.
LEMMA DispatchWhole ==
  ASSUME Inv, Whole, NEW t \in Transactions, Dispatch(t)  PROVE Whole'
<1>1. PICK e \in Events :
        /\ e = Head(tx[t].todo) /\ tx[t].todo # << >> /\ tx[t].todo \in Seq(Events)
        /\ \/ Fail(t)
           \/ \E w \in Partial :
                /\ Write(t, w)
                /\ \A x \in DOMAIN w \cap CallRows : IsCall(e) /\ x \in RowsOf(e)
                /\ IsCall(e) => \E x \in RowsOf(e) : x \in DOMAIN w \/ Seen(t, x) # "absent"
  BY DispatchFacts
<1>2. t \in Workers /\ tx[t].open /\ Working(t)
  <2>1. tx[t].todo \notin Seq(Closings)
    <3> SUFFICES ASSUME tx[t].todo \in Seq(Closings)  PROVE FALSE
      OBVIOUS
    <3>1. e \in Closings
      BY <1>1
    <3>2. QED  BY <3>1, EventsAssumption DEF Closings
  <2>2. QED  BY <2>1 DEF Whole, Callless
<1>3. CASE Fail(t)
  BY <1>3, FailWhole
<1>4. CASE ~Fail(t)
  <2>1. PICK w \in Partial :
          /\ Write(t, w)
          /\ \A x \in DOMAIN w \cap CallRows : IsCall(e) /\ x \in RowsOf(e)
          /\ IsCall(e) => \E x \in RowsOf(e) : x \in DOMAIN w \/ Seen(t, x) # "absent"
    BY <1>1, <1>4
  <2>2. /\ tx' = [tx EXCEPT ![t] = tx'[t]] /\ UNCHANGED db
        /\ tx'[t].open = tx[t].open /\ tx'[t].batch = tx[t].batch
        /\ tx'[t].todo = Tail(tx[t].todo)
        /\ DOMAIN tx'[t].writes = DOMAIN w \cup DOMAIN tx[t].writes
        /\ \A x \in DOMAIN w : tx'[t].writes[x] \in Stati
        /\ \A x \in DOMAIN tx[t].writes \ DOMAIN w : tx'[t].writes[x] = tx[t].writes[x]
    BY <2>1, WriteFacts
  <2>3. PICK q \in Seq(Events), p \in Seq(Events), b \in {tx[t].batch} :
               q = tx[t].todo /\ p = Tail(q) /\ p = tx'[t].todo
    BY <1>1, <2>2, TailFacts
  <2>4. q # << >> /\ e = Head(q) /\ ToSet(q) = {e} \cup ToSet(p) /\ e \in ToSet(q)
    BY <1>1, <2>3, TailFacts
  <2>5. /\ ToSet(q) \subseteq ToSet(EventsOf[b])
        /\ \A x \in DOMAIN tx[t].writes \cap CallRows : \E f \in Calls(b) : x \in RowsOf(f)
        /\ \A f \in Calls(b) : f \in ToSet(q) \/ \E x \in RowsOf(f) : Seen(t, x) # "absent"
    BY <1>2, <2>3, <2>4 DEF Working
  <2>6. \A x : x \in DOMAIN w \/ Seen(t, x) # "absent" => Seen(t, x)' # "absent"
    BY <2>2 DEF Seen, Stati
  <2>7. \A x \in DOMAIN tx'[t].writes \cap CallRows : \E f \in Calls(b) : x \in RowsOf(f)
    <3> SUFFICES ASSUME NEW x \in DOMAIN tx'[t].writes \cap CallRows
                 PROVE  \E f \in Calls(b) : x \in RowsOf(f)
      OBVIOUS
    <3>1. CASE x \in DOMAIN w
      BY <2>1, <2>4, <2>5, <3>1 DEF Calls
    <3>2. CASE x \notin DOMAIN w
      BY <2>2, <2>5, <3>2
    <3>3. QED  BY <3>1, <3>2
  <2>8. \A f \in Calls(b) : f \in ToSet(p) \/ \E x \in RowsOf(f) : Seen(t, x)' # "absent"
    <3> SUFFICES ASSUME NEW f \in Calls(b)
                 PROVE  f \in ToSet(p) \/ \E x \in RowsOf(f) : Seen(t, x)' # "absent"
      OBVIOUS
    <3>1. CASE f = e
      BY <2>1, <2>6, <3>1 DEF Calls
    <3>2. CASE f # e
      BY <2>4, <2>5, <2>6, <3>2
    <3>3. QED  BY <3>1, <3>2
  <2>9. ToSet(p) \subseteq ToSet(EventsOf[b])
    BY <2>4, <2>5
  <2>10. Working(t)'
    BY <2>2, <2>3, <2>7, <2>8, <2>9 DEF Working, Calls
  <2>11. PICK y : y = tx'[t]
    OBVIOUS
  <2>12. QED  BY <1>2, <2>2, <2>10, <2>11, OneWhole
<1>5. QED  BY <1>3, <1>4

\* The other closers write no calls.
LEMMA CloseWhole ==
  ASSUME Inv, Whole, NEW t \in Transactions, Close(t)  PROVE Whole'
<1>1. PICK w \in Partial : Write(t, w) /\ DOMAIN w \cap CallRows = {}
  BY CloseFacts
<1>2. Callless(t) /\ tx[t].todo # << >> /\ ~(t \in Workers /\ tx[t].open)
  BY CloseFacts DEF Whole, Working
<1>3. /\ tx' = [tx EXCEPT ![t] = tx'[t]] /\ UNCHANGED db
      /\ tx'[t].open = tx[t].open /\ tx'[t].todo = Tail(tx[t].todo)
      /\ DOMAIN tx'[t].writes = DOMAIN w \cup DOMAIN tx[t].writes
  BY <1>1, WriteFacts
<1>4. Tail(tx[t].todo) \in Seq(Closings)
  BY <1>2 DEF Callless
<1>5. Callless(t)'
  BY <1>1, <1>2, <1>3, <1>4 DEF Callless
<1>6. PICK y : y = tx'[t]
  OBVIOUS
<1>7. QED  BY <1>2, <1>3, <1>5, <1>6, OneWhole

\* A delivery has all calls of its batch to do; the other closers have none.
LEMMA BeginWhole ==
  ASSUME Inv, Whole, NEW t \in Transactions, NEW b, NEW d, NEW todo,
         Begin(t, b, d, todo), UNCHANGED db,
         \/ t \in Workers /\ b \in Batches /\ todo = EventsOf[b]
         \/ t \notin Workers /\ todo \in Seq(Closings)
  PROVE  Whole'
<1> DEFINE s == [open |-> TRUE, batch |-> b, delivery |-> d, todo |-> todo, writes |-> << >>]
<1>1. tx' = [tx EXCEPT ![t] = s] /\ tx'[t] = s
  BY DEF Begin, Inv, TxOK
<1>2. s.todo = todo /\ s.batch = b /\ DOMAIN s.writes = {} /\ s.open
  BY IdleFacts
<1> HIDE DEF s
<1>3. CASE t \in Workers /\ b \in Batches /\ todo = EventsOf[b]
  <2>1. Working(t)'
    BY <1>1, <1>2, <1>3, EventsAssumption DEF Working, Calls
  <2>2. QED  BY <1>1, <1>2, <1>3, <2>1, OneWhole
<1>4. CASE t \notin Workers /\ todo \in Seq(Closings)
  <2>1. Callless(t)'
    BY <1>1, <1>2, <1>4 DEF Callless
  <2>2. QED  BY <1>1, <1>4, <2>1, OneWhole
<1>5. QED  BY <1>3, <1>4

\* A worker that is lost leaves nothing.
LEMMA IdleWhole ==
  ASSUME Inv, Whole, NEW t \in Transactions, tx' = [tx EXCEPT ![t] = Idle], UNCHANGED db
  PROVE  Whole'
<1>1. tx'[t] = Idle
  BY DEF Inv, TxOK
<1>2. Callless(t)'
  BY <1>1, IdleFacts DEF Callless
<1>3. QED  BY <1>2, IdleFacts, OneWhole

\* A commit stores all calls of a batch, or none.
LEMMA CommitWhole ==
  ASSUME OwnIds, Inv, Whole, NEW t \in Transactions, Commit(t)  PROVE Whole'
<1>1. /\ tx \in [Transactions -> Tx] /\ tx[t].open /\ tx[t].todo = << >>
      /\ db' = Over(tx[t].writes, db) /\ tx' = [tx EXCEPT ![t] = Idle]
      /\ DOMAIN db = Rows
  BY DEF Inv, TxOK, Commit, RowsOK
<1>2. tx'[t] = Idle /\ \A u \in Transactions \ {t} : tx'[u] = tx[u]
  BY <1>1
<1>3. PICK X \in SUBSET Rows : tx[t].writes \in [X -> Stati]
  <2>1. tx[t] \in Tx
    BY <1>1
  <2>2. tx[t].writes \in Partial
    BY <2>1 DEF Tx
  <2>3. QED  BY <2>2 DEF Partial
<1>4. /\ \A x \in Rows : db'[x] = Seen(t, x)
      /\ \A x \in X : db'[x] # "absent"
      /\ \A x \in Rows \ X : db'[x] = db[x]
  BY <1>1, <1>3 DEF Over, Seen, Stati
<1>5. \A x \in Rows : db[x] # "absent" => db'[x] # "absent"
  BY <1>4
<1>6. \A b : \A e \in Calls(b) : b \in Batches => RowsOf(e) \subseteq CallRows
  BY DEF Calls, CallRows, Events
<1>7. \A u \in Transactions : tx[u].open /\ u \in Workers => tx[u].batch \in Batches
  BY DEF Inv, TxOK
<1>8. ASSUME NEW u \in Transactions
      PROVE  IF u \in Workers /\ tx'[u].open THEN Working(u)' ELSE Callless(u)'
  <2>1. CASE u = t
    BY <1>2, <2>1, IdleFacts DEF Callless
  <2>2. CASE u # t /\ u \in Workers /\ tx[u].open
    <3>1. Working(u) /\ tx'[u] = tx[u] /\ tx[u].batch \in Batches
      BY <1>2, <1>7, <2>2 DEF Whole
    <3>2. \A x \in Rows : Seen(u, x) # "absent" => Seen(u, x)' # "absent"
      BY <1>5, <3>1 DEF Seen
    <3>3. \A e \in Calls(tx[u].batch) : RowsOf(e) \subseteq Rows
      BY <1>6, <3>1 DEF Rows
    <3>4. Working(u)'
      BY <3>1, <3>2, <3>3 DEF Working, Calls
    <3>5. QED  BY <2>2, <3>1, <3>4
  <2>3. CASE u # t /\ ~(u \in Workers /\ tx[u].open)
    BY <1>2, <2>3 DEF Whole, Callless
  <2>4. QED  BY <2>1, <2>2, <2>3
<1>9. ASSUME NEW b \in Batches, NEW e \in Calls(b), NEW f \in Calls(b), Recorded(e)' # {}
      PROVE  Recorded(f)' # {}
  <2>1. PICK x \in RowsOf(e) : db'[x] # "absent"
    BY <1>9 DEF Recorded
  <2>2. x \in CallRows /\ x \in Rows /\ RowsOf(f) \subseteq Rows
    BY <1>6 DEF Rows
  <2>3. CASE x \notin X
    <3>1. Recorded(e) # {}
      BY <1>4, <2>1, <2>2, <2>3 DEF Recorded
    <3>2. PICK y \in RowsOf(f) : db[y] # "absent"
      BY <3>1 DEF Whole, Recorded
    <3>3. QED  BY <1>5, <2>2, <3>2 DEF Recorded
  <2>4. CASE x \in X
    <3>1. t \in Workers /\ Working(t) /\ tx[t].batch \in Batches
      BY <1>1, <1>3, <1>7, <2>2, <2>4 DEF Whole, Callless
    <3>2. PICK g \in Calls(tx[t].batch) : x \in RowsOf(g)
      BY <1>3, <2>2, <2>4, <3>1 DEF Working
    <3>3. b = tx[t].batch
      BY <3>1, <3>2 DEF OwnIds
    <3>4. ToSet(<< >>) = {}
      BY IdleFacts DEF ToSet
    <3>5. PICK y \in RowsOf(f) : Seen(t, y) # "absent"
      BY <1>1, <1>3, <2>4, <3>1, <3>3, <3>4 DEF Working
    <3>6. QED  BY <1>4, <2>2, <3>5 DEF Recorded
  <2>5. QED  BY <2>3, <2>4
<1>10. QED  BY <1>8, <1>9 DEF Whole, Calls

\* Every step keeps batches whole.
LEMMA NextWhole ==
  ASSUME OwnIds, Inv, Whole, [Next]_vars  PROVE Whole'
<1>1. CASE UNCHANGED <<db, tx>>
  <2>1. \A t \in Transactions : Working(t)' = Working(t) /\ Callless(t)' = Callless(t)
    BY <1>1 DEF Working, Callless, Seen
  <2>2. \A t \in Transactions : tx'[t].open = tx[t].open
    BY <1>1
  <2>3. \A e : Recorded(e)' = Recorded(e)
    BY <1>1 DEF Recorded
  <2>4. QED  BY <2>1, <2>2, <2>3 DEF Whole, Calls
<1>2. ASSUME NEW w \in Workers, NEW b \in Batches, ProcessEvents(w, b)  PROVE Whole'
  <2>1. PICK d : d = deliveries'[b]
    OBVIOUS
  <2>2. Begin(w, b, d, EventsOf[b]) /\ UNCHANGED db /\ w \in Transactions
    BY <1>2, <2>1 DEF ProcessEvents, Begin, Transactions
  <2>3. QED  BY <2>2, BeginWhole
<1>3. ASSUME NEW t \in Finalizers \cup Guards \cup Admins, NEW todo \in Seq(Closings),
             Begin(t, NoBatch, 0, todo), UNCHANGED db
      PROVE  Whole'
  <2>1. t \in Transactions /\ t \notin Workers
    BY WorkersAssumption DEF Transactions
  <2>2. QED  BY <1>3, <2>1, BeginWhole
<1>4. ASSUME NEW w \in Workers, LoseWorker(w)  PROVE Whole'
  <2>1. w \in Transactions
    BY DEF Transactions
  <2>2. QED  BY <1>4, <2>1, IdleWhole DEF LoseWorker
<1>5. ASSUME NEW t \in Transactions, Commit(t)  PROVE Whole'
  BY <1>5, CommitWhole
<1>6. ASSUME NEW t \in Transactions, BreakDeadlock(t)  PROVE Whole'
  BY <1>6, FailWhole DEF BreakDeadlock
<1>7. ASSUME NEW f \in Finalizers, NEW R \in SUBSET OtlpRuns, SelectStale(f, R)  PROVE Whole'
  BY <1>3, <1>7, SelectStaleFacts
<1>8. ASSUME NEW g \in Guards, NEW R \in SUBSET Runs, SelectRunaway(g, R)  PROVE Whole'
  BY <1>3, <1>8, SelectRunawayFacts
<1>9. ASSUME NEW a \in Admins, NEW r \in Runs, CancelRun(a, r)  PROVE Whole'
  BY <1>3, <1>9, CancelRunFacts
<1>10. ASSUME NEW w \in Workers, LoseAck(w)  PROVE Whole'
  BY <1>5, <1>10 DEF LoseAck, Transactions
<1>11. QED
  BY <1>1, <1>2, <1>4, <1>5, <1>6, <1>7, <1>8, <1>9, <1>10, DispatchWhole, CloseWhole
     DEF Next, vars, Accept, VisibilityTimeout, CommitAndAck

\* As long as no call has the id of another, the one transaction of a batch
\* records all its calls or none: no failing event, deadlock, lost worker or
\* second delivery leaves a part of them.
THEOREM BatchesAreAtomic == ASSUME OwnIds  PROVE Spec => []BatchIsAtomic
<1>1. Init => Whole
  <2> SUFFICES ASSUME Init  PROVE Whole
    OBVIOUS
  <2>1. \A t \in Transactions : tx[t] = Idle
    BY DEF Init
  <2>2. \A b \in Batches : \A e \in Calls(b) : Recorded(e) = {}
    BY DEF Init, Recorded, Calls, Rows, CallRows, Events
  <2>3. QED  BY <2>1, <2>2, IdleFacts DEF Whole, Callless
<1>2. Inv /\ Whole /\ [Next]_vars => Whole'
  BY NextWhole
<1>3. Whole => BatchIsAtomic
  BY DEF Whole, BatchIsAtomic, Calls
<1>4. QED  BY <1>1, <1>2, <1>3, InvHolds, PTL DEF Spec
=============================================================================
