--------------------------- MODULE KafkaDelivery ----------------------------
(* The Kafka export's delivery log (services/kafka_export.py): publish_event *)
(* sends an event from inside its caller's transaction, the beat task        *)
(* kafka.retry_pending_deliveries sends the scheduled retries, and admins    *)
(* retry a delivery by hand.                                                 *)
(*                                                                           *)
(* Each of them loads kafka_export_deliveries rows into a SQLAlchemy         *)
(* session, changes the objects while it talks to the broker, and commits at *)
(* the end.  No row is locked in between and there is no version column.     *)
(* The UPDATE of a row sets the columns whose value differs from the value   *)
(* that this session loaded, and no others: sessions that overlap leave a    *)
(* row that mixes what each of them wrote.                                   *)
EXTENDS Integers, FiniteSets

CONSTANTS
  Deliveries,   \* identities of kafka_export_deliveries rows
  Publishers,   \* callers of publish_event
  Admins,       \* concurrent requests to the manual retry endpoint
  Workers,      \* concurrent runs of kafka.retry_pending_deliveries
  MaxRetries,   \* max_retries of the export configuration
  MaxOpen       \* bound on the sessions that hold rows at a time

ASSUME MaxRetriesAssumption == MaxRetries \in Nat /\ MaxOpen \in Nat

VARIABLES
  row,          \* kafka_export_deliveries, as committed
  session,      \* the objects each session holds
  received,     \* deliveries whose message has reached the topic
  deadLetters,  \* deliveries whose message has reached the dead-letter topic
  enabled       \* the export configuration is enabled

vars == <<row, session, received, deadLetters, enabled>>

Sessions    == Publishers \cup Admins \cup Workers
MaxAttempts == MaxRetries + 1

\* A publisher's "pending" is never committed: its attempt replaces it.
\* scheduled: next_retry_at is set (backoff is left out: a time that is set
\* comes).  delivered, deadLettered: delivered_at and dead_lettered_at are set.
Status == {"absent", "retry_scheduled", "success", "failed"}
Rows   == [status : Status, attempt : Nat, scheduled : BOOLEAN,
           delivered : BOOLEAN, deadLettered : BOOLEAN]

NoRow == [status |-> "absent", attempt |-> 0, scheduled |-> FALSE,
          delivered |-> FALSE, deadLettered |-> FALSE]

\* A session holds the objects ids as it loaded them and as it changed them;
\* todo are those it has yet to send.
Idle == [ids |-> {}, todo |-> {}, loaded |-> [d \in Deliveries |-> NoRow],
         object |-> [d \in Deliveries |-> NoRow]]

TypeOK ==
  /\ row \in [Deliveries -> Rows]
  /\ session \in [Sessions -> [ids : SUBSET Deliveries, todo : SUBSET Deliveries,
                               loaded : [Deliveries -> Rows],
                               object : [Deliveries -> Rows]]]
  /\ received \subseteq Deliveries
  /\ deadLetters \subseteq Deliveries
  /\ enabled \in BOOLEAN

Init ==
  /\ row = [d \in Deliveries |-> NoRow]
  /\ session = [s \in Sessions |-> Idle]
  /\ received = {}
  /\ deadLetters = {}
  /\ enabled = TRUE

-----------------------------------------------------------------------------
(* What a session does, whoever runs it. *)

Only(ids, rows) == [d \in Deliveries |-> IF d \in ids THEN rows[d] ELSE NoRow]

\* The session takes the rows of ids, and does not read them again.
Load(s, ids, objects) ==
  /\ session[s].ids = {}
  /\ Cardinality({t \in Sessions : session[t].ids # {}}) < MaxOpen
  /\ session' = [session EXCEPT ![s] =
       [ids |-> ids, todo |-> ids, loaded |-> Only(ids, row), object |-> Only(ids, objects)]]
  /\ UNCHANGED <<row, received, deadLetters, enabled>>

\* The object after an attempt.
Accepted(object)    == [object EXCEPT !.status = "success", !.scheduled = FALSE,
                                      !.delivered = TRUE]
Rescheduled(object) == [object EXCEPT !.status = "retry_scheduled", !.scheduled = TRUE,
                                      !.delivered = FALSE]
GivenUp(object)     == [object EXCEPT !.status = "failed", !.scheduled = FALSE,
                                      !.delivered = FALSE]

\* The result of sending d: the session goes on with object.
Attempted(s, d, object) ==
  session' = [session EXCEPT ![s].todo = @ \ {d}, ![s].object[d] = object]

Close(s) == session' = [session EXCEPT ![s] = Idle]

\* Mutant: send instead of send_and_wait, so that nobody waits for the broker.
Send_noWait(s, d) ==
  /\ d \in session[s].todo
  /\ received' \in {received, received \cup {d}}
  /\ Attempted(s, d, Accepted(session[s].object[d]))
  /\ UNCHANGED <<row, deadLetters, enabled>>

\* _deliver_once: the broker takes the message.
Send(s, d) ==
  /\ d \in session[s].todo
  /\ received' = received \cup {d}
  /\ Attempted(s, d, Accepted(session[s].object[d]))
  /\ UNCHANGED <<row, deadLetters, enabled>>

\* A send that raises may have reached the topic, its acknowledgement lost.
SendRaises(d) == received' \in {received, received \cup {d}}

LastAttempt(object) == object.attempt >= MaxAttempts

SendFails(s, d) ==
  /\ d \in session[s].todo
  /\ ~LastAttempt(session[s].object[d])
  /\ SendRaises(d)
  /\ Attempted(s, d, Rescheduled(session[s].object[d]))
  /\ UNCHANGED <<row, deadLetters, enabled>>

\* Mutant: the fields are set before the dead letter is sent.
SendDeadLetter_setFirst(d, recorded) ==
  deadLetters' \in IF recorded THEN {deadLetters, deadLetters \cup {d}} ELSE {deadLetters}

\* _send_dead_letter records the dead letter after the broker has taken it.
SendDeadLetter(d, recorded) ==
  deadLetters' \in IF recorded THEN {deadLetters \cup {d}}
                               ELSE {deadLetters, deadLetters \cup {d}}

\* The last attempt: the message goes to the dead-letter topic, if there is one
\* and it answers, and the exception goes on to the caller.  publish_event and
\* process_pending_deliveries catch it; retry_delivery does not, and its
\* session is closed without a commit.
SendGivesUp(s, d) ==
  /\ d \in session[s].todo
  /\ LastAttempt(session[s].object[d])
  /\ SendRaises(d)
  /\ \E recorded \in BOOLEAN :
       /\ SendDeadLetter(d, recorded)
       /\ IF s \in Admins
          THEN Close(s)
          ELSE Attempted(s, d, [GivenUp(session[s].object[d]) EXCEPT !.deadLettered = @ \/ recorded])
  /\ UNCHANGED <<row, enabled>>

\* The UPDATE at the flush: the columns whose value is not the loaded one.  A
\* next_retry_at or delivered_at that is set anew is never the loaded time.
Merged(current, loaded, object) ==
  [status       |-> IF object.status = loaded.status THEN current.status ELSE object.status,
   attempt      |-> IF object.attempt = loaded.attempt THEN current.attempt ELSE object.attempt,
   scheduled    |-> IF ~object.scheduled /\ ~loaded.scheduled THEN current.scheduled
                                                              ELSE object.scheduled,
   delivered    |-> IF ~object.delivered /\ ~loaded.delivered THEN current.delivered
                                                              ELSE object.delivered,
   deadLettered |-> IF object.deadLettered = loaded.deadLettered THEN current.deadLettered
                                                                 ELSE object.deadLettered]

Commit(s) ==
  /\ session[s].ids # {}
  /\ session[s].todo = {}
  /\ row' = [d \in Deliveries |->
       IF d \in session[s].ids
       THEN Merged(row[d], session[s].loaded[d], session[s].object[d])
       ELSE row[d]]
  /\ Close(s)
  /\ UNCHANGED <<received, deadLetters, enabled>>

\* The process dies, the broker call is cut off, or a publisher's transaction
\* is rolled back: what was sent stays sent.
Abort(s) ==
  /\ session[s].ids # {}
  /\ Close(s)
  /\ UNCHANGED <<row, received, deadLetters, enabled>>

-----------------------------------------------------------------------------
(* Who runs it. *)

\* publish_event: a new row, which nobody else sees before the commit.
PublishEvent(p, d) ==
  /\ enabled
  /\ row[d] = NoRow
  /\ \A s \in Sessions : d \notin session[s].ids
  /\ Load(p, {d}, [row EXCEPT ![d].attempt = 1])

\* retry_delivery, of a delivery in any status.
RetryDelivery(a, d) ==
  /\ row[d] # NoRow
  /\ Load(a, {d}, [row EXCEPT
       ![d].attempt   = IF row[d].status \in {"retry_scheduled", "failed"} THEN @ + 1 ELSE @,
       ![d].scheduled = FALSE])

ManualRetry == \E a \in Admins, d \in Deliveries : RetryDelivery(a, d)

Due(d) == row[d].status = "retry_scheduled" /\ row[d].scheduled

\* Mutant: the attempt is not counted.
ProcessPendingDeliveries_uncounted(w, ids) ==
  /\ enabled
  /\ ids # {}
  /\ \A d \in ids : Due(d)
  /\ Load(w, ids, row)

\* process_pending_deliveries takes the deliveries that are due by now.
ProcessPendingDeliveries(w, ids) ==
  /\ enabled
  /\ ids # {}
  /\ \A d \in ids : Due(d)
  /\ Load(w, ids, [d \in Deliveries |->
       IF d \in ids THEN [row[d] EXCEPT !.attempt = @ + 1] ELSE row[d]])

\* An admin disables or enables the configuration.
SetEnabled ==
  /\ enabled' = ~enabled
  /\ UNCHANGED <<row, session, received, deadLetters>>

Attempt(s) == \E d \in Deliveries : Send(s, d) \/ SendFails(s, d) \/ SendGivesUp(s, d)

Next ==
  \/ \E p \in Publishers, d \in Deliveries : PublishEvent(p, d)
  \/ ManualRetry
  \/ \E w \in Workers, ids \in SUBSET Deliveries : ProcessPendingDeliveries(w, ids)
  \/ \E s \in Sessions : Attempt(s) \/ Commit(s) \/ Abort(s)
  \/ SetEnabled

\* Beat enqueues the task every 30 seconds for ever and the backoff of a
\* delivery is finite, so each due delivery is taken again and again, and not
\* every run dies before its commit.  A request ends, with its commit or without.
Fairness ==
  /\ WF_vars(\E s \in Publishers \cup Admins : Commit(s) \/ Abort(s))
  /\ \A d \in Deliveries :
       SF_vars(\E w \in Workers, ids \in SUBSET Deliveries :
                 d \in ids /\ ProcessPendingDeliveries(w, ids))
  /\ \A ids \in SUBSET Deliveries \ {{}} :
       SF_vars(\E w \in Workers : session[w].todo = ids /\ Attempt(w))
  /\ SF_vars(\E w \in Workers : Commit(w))

Spec == Init /\ [][Next]_vars /\ Fairness

-----------------------------------------------------------------------------
(* Properties *)

\* The log never claims a delivery that did not happen: whatever sessions
\* overlap and in whatever order they commit, a row that says success, or has a
\* delivered_at, is of a message that reached the topic.
SuccessWasReceived ==
  \A d \in Deliveries :
    row[d].status = "success" \/ row[d].delivered => d \in received

\* Nor does it claim a dead letter that was not written.
DeadLetterWasWritten == \A d \in Deliveries : row[d].deadLettered => d \in deadLetters

\* With the configuration enabled and no more retries by hand, retries end: no
\* delivery is due again and again, though overlapping sessions write over each
\* other's attempt count and status, and runs die before they commit what they
\* sent.  (They may end without a result: a row that several sessions mixed can
\* say "retry_scheduled" without a time, and no run takes it then.)
RetriesEnd ==
  (<>[]enabled /\ <>[][~ManualRetry]_vars) => \A d \in Deliveries : <>[]~Due(d)
=============================================================================
