---------------------------- MODULE SdkTransport ----------------------------
(* The Python SDK's transport (packages/sdk/runledger_sdk/transport.py): the *)
(* application hands events to a background thread, whose event loop sends   *)
(* them in batches to POST /ingest/v1/batch.                                 *)
(*                                                                           *)
(* A step of the event loop runs to its next await: _lock is never held over *)
(* an await, so taking the queue, or appending to it and taking it at the    *)
(* threshold, is one step.  Sends run in tasks that interleave.              *)
EXTENDS Integers, FiniteSets, Sequences, SequencesExt

CONSTANTS
  Events,     \* what the application enqueues
  Flushers,   \* calls of flush() that may be made
  Threshold,  \* _FLUSH_THRESHOLD
  MaxQueue,   \* _MAX_QUEUE_SIZE
  MaxRetries, \* _MAX_RETRIES
  Stops       \* bound on calls of shutdown()

ASSUME LimitsAssumption ==
  /\ Threshold \in Nat \ {0} /\ MaxQueue \in Nat \ {0} /\ MaxRetries \in Nat \ {0}
  /\ Threshold <= MaxQueue \* 100 and 500
  /\ Stops \in Nat
ASSUME TasksAssumption == Events \cap (Flushers \cup {"loop", "drain"}) = {}

VARIABLES
  queue,    \* _queue
  thread,   \* where the background thread is in its life
  task,     \* the batch each task of the event loop is sending
  called,   \* the calls of flush() made so far
  stops,    \* the calls of shutdown() made so far
  enqueued, \* history: the events enqueued
  tries,    \* history: how often each event was sent
  received, \* history: how often the ingest API took each event
  dropped,  \* history: the events warned about, transport_batch_dropped and ..._oldest
  cut       \* history: the events whose sending was cancelled

vars == <<queue, thread, task, called, stops, enqueued, tries, received, dropped, cut>>

\* The flush loop, the drain of stop(), the enqueue() that found the queue at
\* the threshold, and the calls of flush().
Tasks == {"loop", "drain"} \cup Events \cup Flushers

\* live: run_forever with the flush loop.  stopping: shutdown waits for stop().
\* halted: its 30 s ran out, the loop still runs but the flush loop is gone.
\* ending: the second stop(), after run_forever.  exiting: that has returned,
\* is_alive() still holds.  dead: the thread is gone.
Lives == {"unborn", "live", "stopping", "halted", "ending", "exiting", "dead"}
Loops == {"live", "stopping", "halted", "ending"}

Idle  == [at |-> "idle", batch |-> <<>>, attempt |-> 0]
Sending(batch, n) == [at |-> "sending", batch |-> batch, attempt |-> n]

Held(t) == ToSet(task[t].batch)

TypeOK ==
  /\ queue \in Seq(Events) /\ Len(queue) <= MaxQueue
  /\ thread \in Lives
  /\ \A t \in Tasks :
       /\ task[t].at \in {"idle", "sending", "backoff"}
       /\ task[t].batch \in Seq(Events) /\ task[t].attempt \in 0 .. MaxRetries
       /\ task[t].at = "idle" <=> task[t].batch = <<>>
  /\ called \subseteq Flushers /\ stops \in 0 .. Stops
  /\ enqueued \subseteq Events /\ dropped \subseteq Events /\ cut \subseteq Events
  /\ tries \in [Events -> Nat] /\ received \in [Events -> Nat]

Init ==
  /\ queue = <<>>
  /\ thread = "unborn"
  /\ task = [t \in Tasks |-> Idle]
  /\ called = {} /\ stops = 0
  /\ enqueued = {} /\ dropped = {} /\ cut = {}
  /\ tries = [e \in Events |-> 0]
  /\ received = [e \in Events |-> 0]

-----------------------------------------------------------------------------
(* Transport *)

\* Mutant: the queue is copied and not cleared.
TakeQueue_copied(t, events) ==
  /\ task[t].at = "idle" /\ events # <<>>
  /\ task' = [task EXCEPT ![t] = Sending(events, 1)]
  /\ tries' = [e \in Events |-> tries[e] + IF e \in ToSet(events) THEN 1 ELSE 0]
  /\ queue' = events

\* _flush_all: task t takes the events as its batch and sends them.
TakeQueue(t, events) ==
  /\ task[t].at = "idle" /\ events # <<>>
  /\ task' = [task EXCEPT ![t] = Sending(events, 1)]
  /\ tries' = [e \in Events |-> tries[e] + IF e \in ToSet(events) THEN 1 ELSE 0]
  /\ queue' = <<>>

\* The end of enqueue: at the threshold its own task flushes.
AppendOrFlush(e, events) ==
  \/ Len(events) >= Threshold /\ TakeQueue(e, events)
  \/ Len(events) < Threshold /\ queue' = events /\ UNCHANGED <<task, tries>>

\* SyncTransport.enqueue: starts the thread, with a queue of its own, when
\* there is none; the oldest event gives way in a full queue.
Enqueue(e) ==
  /\ e \notin enqueued /\ thread # "exiting"
  /\ enqueued' = enqueued \cup {e}
  /\ thread' = IF thread \in {"unborn", "dead"} THEN "live" ELSE thread
  /\ LET full == Len(queue) >= MaxQueue
     IN /\ dropped' = IF full THEN dropped \cup {Head(queue)} ELSE dropped
        /\ AppendOrFlush(e, Append(IF full THEN Tail(queue) ELSE queue, e))
  /\ UNCHANGED <<called, stops, received, cut>>

\* The thread still counts as alive and its event loop runs no more.
EnqueueTooLate(e) ==
  /\ e \notin enqueued /\ thread = "exiting"
  /\ enqueued' = enqueued \cup {e}
  /\ cut' = cut \cup {e}
  /\ UNCHANGED <<queue, thread, task, called, stops, tries, received, dropped>>

\* Mutant: the flush loop waits for the threshold, too.
LoopFlush_full ==
  /\ thread = "live" /\ Len(queue) >= Threshold
  /\ TakeQueue("loop", queue)
  /\ UNCHANGED <<thread, called, stops, enqueued, received, dropped, cut>>

\* _flush_loop wakes up; while it sends, it does not wake up again.
LoopFlush ==
  /\ thread = "live"
  /\ TakeQueue("loop", queue)
  /\ UNCHANGED <<thread, called, stops, enqueued, received, dropped, cut>>

\* SyncTransport.flush, when there is something in the queue.
Flush(f) ==
  /\ f \notin called /\ thread \in Loops
  /\ called' = called \cup {f}
  /\ TakeQueue(f, queue)
  /\ UNCHANGED <<thread, stops, enqueued, received, dropped, cut>>

\* The API may take a batch and its answer still be lost: a timeout of 10 s, a
\* broken connection, a 5xx of a proxy.
Took(t, taken) ==
  received' = [e \in Events |-> received[e] + IF taken /\ e \in Held(t) THEN 1 ELSE 0]

SendSucceeds(t) ==
  /\ task[t].at = "sending"
  /\ Took(t, TRUE)
  /\ task' = [task EXCEPT ![t] = Idle]
  /\ UNCHANGED <<queue, thread, called, stops, enqueued, tries, dropped, cut>>

\* Mutant: the batch that failed goes back to the queue and is retried as well.
AfterFailure_requeued(t) ==
  /\ task' = [task EXCEPT ![t].at = "backoff"]
  /\ queue' = task[t].batch \o queue
  /\ UNCHANGED dropped

\* Mutant: one attempt fewer.
AfterFailure_early(t) ==
  IF task[t].attempt >= MaxRetries - 1
  THEN /\ dropped' = dropped \cup Held(t)
       /\ task' = [task EXCEPT ![t] = Idle]
       /\ UNCHANGED queue
  ELSE task' = [task EXCEPT ![t].at = "backoff"] /\ UNCHANGED <<queue, dropped>>

\* The handler of _send_with_retry.
AfterFailure(t) ==
  IF task[t].attempt = MaxRetries
  THEN /\ dropped' = dropped \cup Held(t)
       /\ task' = [task EXCEPT ![t] = Idle]
       /\ UNCHANGED queue
  ELSE task' = [task EXCEPT ![t].at = "backoff"] /\ UNCHANGED <<queue, dropped>>

SendFails(t) ==
  /\ task[t].at = "sending"
  /\ \E taken \in BOOLEAN : Took(t, taken)
  /\ AfterFailure(t)
  /\ UNCHANGED <<thread, called, stops, enqueued, tries, cut>>

Retry(t) ==
  /\ task[t].at = "backoff"
  /\ task' = [task EXCEPT ![t] = Sending(task[t].batch, task[t].attempt + 1)]
  /\ tries' = [e \in Events |-> tries[e] + IF e \in Held(t) THEN 1 ELSE 0]
  /\ UNCHANGED <<queue, thread, called, stops, enqueued, received, dropped, cut>>

-----------------------------------------------------------------------------
(* Stopping *)

\* Tasks are cancelled, or never resumed, and events are left in the queue; a
\* batch that was being sent may have reached the API.
Cut(tasks, events) ==
  /\ cut' = cut \cup events \cup UNION {Held(t) : t \in tasks}
  /\ \E taken \in SUBSET {t \in tasks : task[t].at = "sending"} :
       received' = [e \in Events |->
         received[e] + Cardinality({t \in taken : e \in Held(t)})]

\* stop(drain=True): the flush loop is cancelled where it is, the queue is sent.
Stop ==
  /\ Cut({"loop"}, {})
  /\ task' = [task EXCEPT !["loop"] = Idle,
                          !["drain"] = IF queue = <<>> THEN Idle ELSE Sending(queue, 1)]
  /\ tries' = [e \in Events |-> tries[e] + IF e \in ToSet(queue) THEN 1 ELSE 0]
  /\ queue' = <<>>

\* SyncTransport.shutdown; after one that timed out, when its drain has ended.
Shutdown ==
  /\ thread \in {"live", "halted"} /\ stops < Stops /\ task["drain"] = Idle
  /\ stops' = stops + 1
  /\ thread' = "stopping"
  /\ Stop
  /\ UNCHANGED <<called, enqueued, dropped>>

\* stop() has not returned in 30 s: shutdown raises and never stops the loop.
ShutdownTimesOut ==
  /\ thread = "stopping" /\ task["drain"] # Idle
  /\ thread' = "halted"
  /\ UNCHANGED <<queue, task, called, stops, enqueued, tries, received, dropped, cut>>

\* run_forever has ended: stop() once more, for what was enqueued meanwhile.
LoopStops ==
  /\ thread = "stopping" /\ task["drain"] = Idle
  /\ thread' = "ending"
  /\ Stop
  /\ UNCHANGED <<called, stops, enqueued, dropped>>

\* The second stop() has returned.
LoopEnds ==
  /\ thread = "ending" /\ task["drain"] = Idle
  /\ thread' = "exiting"
  /\ Cut({t \in Tasks : task[t] # Idle}, ToSet(queue))
  /\ task' = [t \in Tasks |-> Idle]
  /\ queue' = <<>>
  /\ UNCHANGED <<called, stops, enqueued, tries, dropped>>

ThreadEnds ==
  /\ thread = "exiting"
  /\ thread' = "dead"
  /\ UNCHANGED <<queue, task, called, stops, enqueued, tries, received, dropped, cut>>

-----------------------------------------------------------------------------
Next ==
  \/ \E e \in Events : Enqueue(e) \/ EnqueueTooLate(e)
  \/ LoopFlush
  \/ \E f \in Flushers : Flush(f)
  \/ \E t \in Tasks : SendSucceeds(t) \/ SendFails(t) \/ Retry(t)
  \/ Shutdown \/ ShutdownTimesOut \/ LoopStops \/ LoopEnds \/ ThreadEnds

\* The event loop runs every task: a request ends, if only by its timeout, and
\* so does a wait.  Nothing makes the application go on.
Fairness ==
  /\ WF_vars(LoopFlush)
  /\ \A t \in Tasks : WF_vars(SendSucceeds(t) \/ SendFails(t) \/ Retry(t))
  /\ WF_vars(LoopStops \/ LoopEnds \/ ThreadEnds)

Spec == Init /\ [][Next]_vars /\ Fairness

-----------------------------------------------------------------------------
(* Properties *)

\* An event is in one place: concurrent flushes of the loop, of enqueue() and
\* of the application never take the same event (_flush_all).
BatchesAreDisjoint ==
  /\ IsInjective(queue)
  /\ \A t \in Tasks :
       /\ Held(t) \cap ToSet(queue) = {}
       /\ \A u \in Tasks \ {t} : Held(t) \cap Held(u) = {}

\* The ingest API gets an event at most as often as it was sent, and that is at
\* most MaxRetries times, whatever is flushed, stopped and started again
\* (_send_with_retry).
CopiesAreRetries == \A e \in Events : received[e] <= tries[e] /\ tries[e] <= MaxRetries

\* While the thread is not stopped, an event is given up only after MaxRetries
\* attempts; in particular the queue is never so full that the oldest gives way
\* (enqueue, _send_with_retry).
DroppedAfterRetries == \A e \in dropped : tries[e] = MaxRetries

\* Every event is answered for: the API has it, or it was warned about, or the
\* thread was stopped while it was held; unless a shutdown that timed out has
\* left a thread without a flush loop.
EventsAreSettled ==
  \A e \in Events :
    e \in enqueued ~> \/ received[e] > 0 \/ e \in dropped \cup cut
                      \/ thread = "halted"
=============================================================================
