------------------------ MODULE SdkTransport_proofs ------------------------
(* Proofs about SdkTransport. *)
EXTENDS SdkTransport, TLAPS, FiniteSetTheorems

Types ==
  /\ queue \in Seq(Events) /\ Len(queue) < Threshold
  /\ task \in [Tasks -> [at : {"idle", "sending", "backoff"}, batch : Seq(Events),
                        attempt : 0 .. MaxRetries]]
  /\ enqueued \subseteq Events /\ dropped \subseteq Events
  /\ tries \in [Events -> Nat] /\ received \in [Events -> Nat]

\* An event in the queue was enqueued and not sent; so was none that is new.
Queued ==
  /\ \A e \in ToSet(queue) : e \in enqueued /\ tries[e] = 0
  /\ \A e \in Events \ enqueued : tries[e] = 0

\* A task has sent each event of its batch as often as it has tried; the API has
\* not taken the copy that is under way.
Holding ==
  \A t \in Tasks :
    /\ task[t].at = "idle" <=> task[t].batch = <<>>
    /\ task[t].at # "idle" => task[t].attempt >= 1
    /\ task[t].at = "backoff" => task[t].attempt < MaxRetries
    /\ \A e \in Held(t) :
         /\ e \in enqueued /\ tries[e] = task[t].attempt
         /\ task[t].at = "sending" => received[e] < tries[e]

Inv ==
  /\ Types /\ Queued /\ Holding
  /\ BatchesAreDisjoint /\ CopiesAreRetries /\ DroppedAfterRetries

-----------------------------------------------------------------------------
\* The elements of the queue, before and after an append.
LEMMA ToSetFacts ==
  /\ ToSet(<<>>) = {} /\ IsInjective(<<>>)
  /\ \A s \in Seq(Events) : ToSet(s) \subseteq Events
  /\ \A s \in Seq(Events), e \in Events :
       /\ Append(s, e) \in Seq(Events) /\ Len(Append(s, e)) = Len(s) + 1
       /\ Append(s, e) # <<>>
       /\ ToSet(Append(s, e)) = ToSet(s) \cup {e}
       /\ IsInjective(s) /\ e \notin ToSet(s) => IsInjective(Append(s, e))
<1>1. ToSet(<<>>) = {} /\ IsInjective(<<>>)
  BY DEF ToSet, IsInjective
<1>2. \A s \in Seq(Events) : ToSet(s) \subseteq Events
  BY DEF ToSet
<1>3. ASSUME NEW s \in Seq(Events), NEW e \in Events
      PROVE  /\ Append(s, e) \in Seq(Events) /\ Len(Append(s, e)) = Len(s) + 1
             /\ Append(s, e) # <<>>
             /\ ToSet(Append(s, e)) = ToSet(s) \cup {e}
             /\ IsInjective(s) /\ e \notin ToSet(s) => IsInjective(Append(s, e))
  <2> DEFINE r == Append(s, e)
  <2>1. /\ r \in Seq(Events) /\ Len(s) \in Nat /\ Len(r) = Len(s) + 1
        /\ \A i \in 1 .. Len(s) : r[i] = s[i]
        /\ r[Len(s) + 1] = e
        /\ DOMAIN s = 1 .. Len(s) /\ DOMAIN r = 1 .. Len(s) + 1
    OBVIOUS
  <2> HIDE DEF r
  <2>2. r # <<>>
    BY <2>1
  <2>3. ToSet(r) = ToSet(s) \cup {e}
    BY <2>1 DEF ToSet
  <2>4. ASSUME IsInjective(s), e \notin ToSet(s)  PROVE IsInjective(r)
    BY <2>1, <2>4 DEF IsInjective, ToSet
  <2>5. QED  BY <2>1, <2>2, <2>3, <2>4 DEF r
<1>4. QED
  BY <1>1, <1>2, <1>3

\* A task without a batch.
LEMMA IdleFacts ==
  /\ Idle.at = "idle" /\ Idle.batch = <<>> /\ ToSet(Idle.batch) = {}
  /\ Idle \in [at : {"idle", "sending", "backoff"}, batch : Seq(Events),
               attempt : 0 .. MaxRetries]
  BY ToSetFacts, LimitsAssumption DEF Idle

\* The inductive invariant holds at the start.
LEMMA InitInv == Init => Inv
<1> SUFFICES ASSUME Init PROVE Inv
  OBVIOUS
<1>1. Types
  BY LimitsAssumption, IdleFacts DEF Init, Types
<1>2. Queued
  BY ToSetFacts DEF Init, Queued
<1>3. Holding
  BY IdleFacts DEF Init, Holding, Held
<1>4. BatchesAreDisjoint
  BY ToSetFacts, IdleFacts DEF Init, BatchesAreDisjoint, Held
<1>5. CopiesAreRetries /\ DroppedAfterRetries
  BY LimitsAssumption DEF Init, CopiesAreRetries, DroppedAfterRetries
<1>6. QED
  BY <1>1, <1>2, <1>3, <1>4, <1>5 DEF Inv

-----------------------------------------------------------------------------
\* What every step but a retry does: the tasks in gone let go of their batches,
\* task t sends the events s, if any, and what the API takes was being sent.
Move(gone, t, s) ==
  /\ queue' \in Seq(Events) /\ Len(queue') < Threshold /\ IsInjective(queue')
  /\ enqueued \subseteq enqueued' /\ enqueued' \subseteq Events /\ dropped' \subseteq Events
  /\ \A e \in ToSet(queue') :
       /\ e \in enqueued' /\ tries[e] = 0 /\ e \notin ToSet(s)
       /\ \A u \in Tasks : e \notin Held(u)
  /\ \A e \in ToSet(s) :
       /\ e \in enqueued' /\ tries[e] = 0
       /\ \A u \in Tasks : e \notin Held(u)
  /\ s # <<>> => task[t].at = "idle" \/ t \in gone
  /\ task' = [u \in Tasks |-> IF u = t /\ s # <<>> THEN Sending(s, 1)
                              ELSE IF u \in gone THEN Idle ELSE task[u]]
  /\ tries' = [e \in Events |-> tries[e] + IF e \in ToSet(s) THEN 1 ELSE 0]
  /\ received' \in [Events -> Nat]
  /\ \A e \in Events :
       \/ received'[e] = received[e]
       \/ /\ received'[e] = received[e] + 1
          /\ \E u \in gone : task[u].at = "sending" /\ e \in Held(u)
  /\ \A e \in dropped' : e \in dropped \/ tries[e] = MaxRetries

\* Any step that gives one task a batch, and ends others, keeps the invariant.
LEMMA Moves ==
  ASSUME Inv, NEW gone \in SUBSET Tasks, NEW t \in Tasks, NEW s \in Seq(Events),
         Move(gone, t, s)
  PROVE  Inv'
<1> USE DEF Move
<1>1. ToSet(s) \subseteq Events /\ ToSet(queue') \subseteq Events
  BY ToSetFacts
<1>2. \A u \in Tasks : Held(u) \subseteq Events
  BY ToSetFacts DEF Inv, Types, Held
<1> DEFINE new == Sending(s, 1)
<1>3. /\ new.at = "sending" /\ new.batch = s /\ new.attempt = 1
      /\ new \in [at : {"idle", "sending", "backoff"}, batch : Seq(Events),
                  attempt : 0 .. MaxRetries]
  BY LimitsAssumption DEF Sending
<1> HIDE DEF new
<1>4. ASSUME NEW u \in Tasks
      PROVE  \/ task'[u] = new /\ Held(u)' = ToSet(s) /\ u = t /\ s # <<>>
             \/ task'[u] = Idle /\ Held(u)' = {}
             \/ task'[u] = task[u] /\ Held(u)' = Held(u) /\ u \notin gone
  BY <1>3, IdleFacts DEF Held, new
<1>5. \A e \in Events :
        tries'[e] = tries[e] + IF e \in ToSet(s) THEN 1 ELSE 0
  OBVIOUS
<1>6. Types'
  <2>1. task' \in [Tasks -> [at : {"idle", "sending", "backoff"}, batch : Seq(Events),
                           attempt : 0 .. MaxRetries]]
    BY <1>3, IdleFacts DEF Inv, Types, new
  <2>2. tries' \in [Events -> Nat]
    BY DEF Inv, Types
  <2>3. QED  BY <2>1, <2>2 DEF Types
<1>7. Queued'
  <2>1. ASSUME NEW e \in ToSet(queue')  PROVE e \in enqueued' /\ tries'[e] = 0
    BY <1>1, <1>5, <2>1
  <2>2. ASSUME NEW e \in Events \ enqueued'  PROVE tries'[e] = 0
    BY <1>5, <2>2 DEF Inv, Queued
  <2>3. QED  BY <2>1, <2>2 DEF Queued
<1>8. ASSUME NEW u \in Tasks, u \notin gone, NEW e \in Held(u)
      PROVE  received'[e] = received[e] /\ tries'[e] = tries[e] /\ e \in Events
  <2>1. e \in Events /\ e \notin ToSet(s)
    BY <1>2, <1>8
  <2>2. ~ \E v \in gone : task[v].at = "sending" /\ e \in Held(v)
    BY <1>8 DEF Inv, BatchesAreDisjoint
  <2>3. tries[e] \in Nat
    BY <2>1 DEF Inv, Types
  <2>4. QED  BY <1>5, <2>1, <2>2, <2>3
<1>9. \A e \in ToSet(s) : e \in Events /\ received'[e] = 0 /\ tries'[e] = 1
  <2>1. ASSUME NEW e \in ToSet(s)  PROVE e \in Events /\ received'[e] = 0 /\ tries'[e] = 1
    <3>1. e \in Events /\ tries[e] = 0
      BY <1>1, <2>1
    <3>2. received[e] = 0
      BY <3>1 DEF Inv, Types, CopiesAreRetries
    <3>3. received'[e] = received[e]
      BY <2>1, <3>1
    <3>4. QED  BY <1>5, <2>1, <3>1, <3>2, <3>3
  <2>2. QED  BY <2>1
<1>10. Holding'
  <2>1. ASSUME NEW u \in Tasks
        PROVE  /\ task'[u].at = "idle" <=> task'[u].batch = <<>>
               /\ task'[u].at # "idle" => task'[u].attempt >= 1
               /\ task'[u].at = "backoff" => task'[u].attempt < MaxRetries
               /\ \A e \in Held(u)' :
                    /\ e \in enqueued' /\ tries'[e] = task'[u].attempt
                    /\ task'[u].at = "sending" => received'[e] < tries'[e]
    <3>1. CASE task'[u] = new /\ Held(u)' = ToSet(s) /\ u = t /\ s # <<>>
      <4>1. /\ task'[u].at = "sending" /\ task'[u].batch # <<>> /\ task'[u].attempt = 1
        BY <1>3, <3>1
      <4>2. \A e \in Held(u)' : e \in enqueued' /\ received'[e] = 0 /\ tries'[e] = 1
        BY <1>9, <3>1
      <4>3. \A e \in Held(u)' : /\ e \in enqueued' /\ tries'[e] = task'[u].attempt
                                /\ received'[e] < tries'[e]
        <5> SUFFICES ASSUME NEW e \in Held(u)'
                     PROVE  /\ e \in enqueued' /\ tries'[e] = task'[u].attempt
                            /\ received'[e] < tries'[e]
          OBVIOUS
        <5>1. e \in enqueued' /\ received'[e] = 0 /\ tries'[e] = 1
          BY <4>2
        <5>2. tries'[e] = task'[u].attempt
          BY <4>1, <5>1
        <5>3. received'[e] < tries'[e]
          BY <5>1
        <5>4. QED  BY <5>1, <5>2, <5>3
      <4>4. /\ ~(task'[u].at = "idle") /\ ~(task'[u].at = "backoff") /\ task'[u].at = "sending"
            /\ task'[u].batch # <<>> /\ task'[u].attempt >= 1
        BY <4>1
      <4>5. QED  BY <4>3, <4>4
    <3>2. CASE task'[u] = Idle /\ Held(u)' = {}
      BY <3>2, IdleFacts
    <3>3. CASE task'[u] = task[u] /\ Held(u)' = Held(u) /\ u \notin gone
      <4>1. /\ task[u].at = "idle" <=> task[u].batch = <<>>
            /\ task[u].at # "idle" => task[u].attempt >= 1
            /\ task[u].at = "backoff" => task[u].attempt < MaxRetries
            /\ \A e \in Held(u) :
                 /\ e \in enqueued /\ tries[e] = task[u].attempt
                 /\ task[u].at = "sending" => received[e] < tries[e]
        BY DEF Inv, Holding
      <4>2. \A e \in Held(u) : received'[e] = received[e] /\ tries'[e] = tries[e]
        BY <1>8, <3>3
      <4>3. QED  BY <3>3, <4>1, <4>2
    <3>4. QED  BY <1>4, <3>1, <3>2, <3>3
  <2>2. QED  BY <2>1 DEF Holding
<1>11. BatchesAreDisjoint'
  <2>1. ASSUME NEW u \in Tasks  PROVE Held(u)' \cap ToSet(queue') = {}
    BY <1>4
  <2>2. ASSUME NEW u \in Tasks, NEW v \in Tasks \ {u}  PROVE Held(u)' \cap Held(v)' = {}
    BY <1>4 DEF Inv, BatchesAreDisjoint
  <2>3. QED  BY <2>1, <2>2 DEF BatchesAreDisjoint
<1>12. CopiesAreRetries'
  <2>1. ASSUME NEW e \in Events  PROVE received'[e] <= tries'[e] /\ tries'[e] <= MaxRetries
    <3>1. tries[e] \in Nat /\ received[e] \in Nat /\ received[e] <= tries[e] /\ tries[e] <= MaxRetries
      BY DEF Inv, Types, CopiesAreRetries
    <3>2. CASE e \in ToSet(s)
      <4>1. received'[e] = 0 /\ tries'[e] = 1 /\ MaxRetries \in Nat \ {0}
        BY <1>9, <3>2, LimitsAssumption
      <4>2. QED  BY <4>1
    <3>3. CASE e \notin ToSet(s)
      <4>1. tries'[e] = tries[e]
        BY <1>5, <3>1, <3>3
      <4>2. CASE received'[e] = received[e]
        BY <3>1, <4>1, <4>2
      <4>3. CASE received'[e] = received[e] + 1
                 /\ \E u \in gone : task[u].at = "sending" /\ e \in Held(u)
        <5>1. received[e] < tries[e]
          BY <4>3 DEF Inv, Holding
        <5>2. QED  BY <3>1, <4>1, <4>3, <5>1
      <4>4. QED  BY <4>2, <4>3
    <3>4. QED  BY <3>2, <3>3
  <2>2. QED  BY <2>1 DEF CopiesAreRetries
<1>13. DroppedAfterRetries'
  <2>1. ASSUME NEW e \in dropped'  PROVE tries'[e] = MaxRetries
    <3>1. tries[e] = MaxRetries
      BY DEF Inv, DroppedAfterRetries
    <3>2. e \in Events /\ e \notin ToSet(s)
      BY <3>1, LimitsAssumption
    <3>3. QED  BY <1>5, <3>1, <3>2, LimitsAssumption
  <2>2. QED  BY <2>1 DEF DroppedAfterRetries
<1>14. QED
  BY <1>6, <1>7, <1>10, <1>11, <1>12, <1>13 DEF Inv

\* What is queued has not been sent and is held by no task.
LEMMA QueueFacts ==
  ASSUME Inv
  PROVE  /\ queue \in Seq(Events) /\ IsInjective(queue) /\ Len(queue) < Threshold
         /\ \A e \in ToSet(queue) : /\ e \in enqueued /\ tries[e] = 0
                                    /\ \A u \in Tasks : e \notin Held(u)
  BY DEF Inv, Types, Queued, BatchesAreDisjoint

\* A step by which nothing more is sent.
LEMMA LettingGo ==
  ASSUME Inv, NEW gone \in SUBSET Tasks,
         queue' = queue \/ queue' = <<>>,
         enqueued \subseteq enqueued', enqueued' \subseteq Events, dropped' \subseteq Events,
         task' = [u \in Tasks |-> IF u \in gone THEN Idle ELSE task[u]],
         tries' = tries,
         received' \in [Events -> Nat],
         \A e \in Events :
           \/ received'[e] = received[e]
           \/ /\ received'[e] = received[e] + 1
              /\ \E u \in gone : task[u].at = "sending" /\ e \in Held(u),
         \A e \in dropped' : e \in dropped \/ tries[e] = MaxRetries
  PROVE  Inv'
<1> DEFINE s == <<>>
           t == "loop"
<1>1. s \in Seq(Events) /\ ToSet(s) = {} /\ t \in Tasks /\ ~(s # <<>>)
  BY ToSetFacts DEF Tasks
<1>2. /\ queue' \in Seq(Events) /\ Len(queue') < Threshold /\ IsInjective(queue')
      /\ ToSet(queue') \subseteq ToSet(queue)
  <2>1. Len(<<>>) = 0 /\ 0 < Threshold /\ <<>> \in Seq(Events)
    BY LimitsAssumption
  <2>2. QED  BY <2>1, QueueFacts, ToSetFacts
<1>3. tries' = [e \in Events |-> tries[e] + IF e \in ToSet(s) THEN 1 ELSE 0]
  BY <1>1 DEF Inv, Types
<1> HIDE DEF s, t
<1>4. \A e \in ToSet(queue') :
        /\ e \in enqueued' /\ tries[e] = 0 /\ e \notin ToSet(s)
        /\ \A u \in Tasks : e \notin Held(u)
  BY <1>1, <1>2, QueueFacts
<1>5. task' = [u \in Tasks |-> IF u = t /\ s # <<>> THEN Sending(s, 1)
                               ELSE IF u \in gone THEN Idle ELSE task[u]]
  BY <1>1
<1>6. \A e \in ToSet(s) : /\ e \in enqueued' /\ tries[e] = 0
                          /\ \A u \in Tasks : e \notin Held(u)
  BY <1>1
<1>7. s # <<>> => task[t].at = "idle" \/ t \in gone
  BY <1>1
<1>8. s \in Seq(Events) /\ t \in Tasks
  BY <1>1
<1>9. Move(gone, t, s)
  BY <1>2, <1>3, <1>4, <1>5, <1>6, <1>7 DEF Move
<1>10. QED
  BY <1>8, <1>9, Moves

\* Tasks that are cut short: the API may have taken what they were sending.
LEMMA CutFacts ==
  ASSUME Inv, NEW tasks \in SUBSET Tasks, NEW events, Cut(tasks, events)
  PROVE  /\ received' \in [Events -> Nat]
         /\ \A e \in Events :
              \/ received'[e] = received[e]
              \/ /\ received'[e] = received[e] + 1
                 /\ \E u \in tasks : task[u].at = "sending" /\ e \in Held(u)
<1>1. PICK taken \in SUBSET {t \in tasks : task[t].at = "sending"} :
        received' = [e \in Events |-> received[e] + Cardinality({t \in taken : e \in Held(t)})]
  BY DEF Cut
<1>2. ASSUME NEW e \in Events
      PROVE  \/ Cardinality({t \in taken : e \in Held(t)}) = 0
             \/ /\ Cardinality({t \in taken : e \in Held(t)}) = 1
                /\ \E u \in tasks : task[u].at = "sending" /\ e \in Held(u)
  <2>1. CASE \A t \in taken : e \notin Held(t)
    <3>1. {t \in taken : e \in Held(t)} = {}
      BY <2>1
    <3>2. QED  BY <3>1, FS_EmptySet
  <2>2. ASSUME NEW u \in taken, e \in Held(u)
        PROVE  /\ Cardinality({t \in taken : e \in Held(t)}) = 1
               /\ task[u].at = "sending" /\ u \in tasks
    <3>1. \A t \in taken : e \in Held(t) => t = u
      BY <2>2 DEF Inv, BatchesAreDisjoint
    <3>2. {t \in taken : e \in Held(t)} = {u}
      BY <2>2, <3>1
    <3>3. QED  BY <3>2, FS_Singleton
  <2>3. QED  BY <2>1, <2>2
<1>3. \A e \in Events : received[e] \in Nat
  BY DEF Inv, Types
<1>4. \A e \in Events : Cardinality({t \in taken : e \in Held(t)}) \in {0, 1}
  BY <1>2
<1>5. received' \in [Events -> Nat]
  BY <1>1, <1>3, <1>4
<1>6. QED
  BY <1>1, <1>2, <1>3, <1>5

-----------------------------------------------------------------------------
(* The actions *)

\* The queue, or the queue and a new event, become the batch of an idle task.
LEMMA TakeQueueInv ==
  ASSUME Inv, NEW t \in Tasks, NEW s \in Seq(Events), TakeQueue(t, s),
         enqueued \subseteq enqueued', enqueued' \subseteq Events,
         UNCHANGED <<received, dropped>>,
         \A e \in ToSet(s) :
           /\ e \in enqueued' /\ tries[e] = 0
           /\ \A u \in Tasks : e \notin Held(u)
  PROVE  Inv'
<1> DEFINE gone == {}
<1>1. gone \in SUBSET Tasks
  OBVIOUS
<1>2. /\ task[t].at = "idle" /\ s # <<>> /\ queue' = <<>>
      /\ tries' = [e \in Events |-> tries[e] + IF e \in ToSet(s) THEN 1 ELSE 0]
  BY DEF TakeQueue
<1>3. task' = [u \in Tasks |-> IF u = t /\ s # <<>> THEN Sending(s, 1)
                               ELSE IF u \in gone THEN Idle ELSE task[u]]
  BY <1>2 DEF TakeQueue, Inv, Types
<1>4. /\ queue' \in Seq(Events) /\ Len(queue') < Threshold /\ IsInjective(queue')
      /\ ToSet(queue') = {}
  <2>1. Len(<<>>) = 0 /\ 0 < Threshold /\ <<>> \in Seq(Events)
    BY LimitsAssumption
  <2>2. QED  BY <1>2, <2>1, ToSetFacts
<1>5. /\ dropped' \subseteq Events /\ received' \in [Events -> Nat]
      /\ \A e \in dropped' : e \in dropped
      /\ \A e \in Events : received'[e] = received[e]
  BY DEF Inv, Types
<1> HIDE DEF gone
<1>6. Move(gone, t, s)
  BY <1>2, <1>3, <1>4, <1>5 DEF Move
<1>7. QED
  BY <1>1, <1>6, Moves

\* An event is queued, and may fill the batch.
LEMMA EnqueueInv == ASSUME Inv, NEW e \in Events, Enqueue(e)  PROVE Inv'
<1> DEFINE s == Append(queue, e)
<1>1. Len(queue) \in Nat /\ ~(Len(queue) >= MaxQueue)
  BY QueueFacts, LimitsAssumption
<1>2. /\ e \notin enqueued /\ enqueued' = enqueued \cup {e}
      /\ dropped' = dropped /\ received' = received
      /\ AppendOrFlush(e, s)
  BY <1>1 DEF Enqueue
<1>3. /\ s \in Seq(Events) /\ Len(s) = Len(queue) + 1
      /\ ToSet(s) = ToSet(queue) \cup {e} /\ IsInjective(s)
  BY <1>2, QueueFacts, ToSetFacts
<1> HIDE DEF s
<1>4. enqueued' \subseteq Events /\ e \in Tasks
  BY <1>2 DEF Inv, Types, Tasks
<1>5. tries[e] = 0 /\ \A u \in Tasks : e \notin Held(u)
  BY <1>2 DEF Inv, Queued, Holding
<1>6. \A f \in ToSet(s) : /\ f \in enqueued' /\ tries[f] = 0
                          /\ \A u \in Tasks : f \notin Held(u)
  BY <1>2, <1>3, <1>5, QueueFacts
<1>7. CASE TakeQueue(e, s)
  BY <1>2, <1>3, <1>4, <1>6, <1>7, TakeQueueInv
<1>8. CASE Len(s) < Threshold /\ queue' = s /\ UNCHANGED <<task, tries>>
  <2>1. Types'
    BY <1>2, <1>3, <1>4, <1>8 DEF Inv, Types
  <2>2. Queued'
    BY <1>2, <1>6, <1>8 DEF Inv, Queued
  <2>3. Holding'
    BY <1>2, <1>8 DEF Inv, Holding, Held
  <2>4. BatchesAreDisjoint'
    <3>1. \A u \in Tasks : Held(u) \cap ToSet(s) = {}
      BY <1>6
    <3>2. QED  BY <1>3, <1>8, <3>1 DEF Inv, BatchesAreDisjoint, Held
  <2>5. CopiesAreRetries' /\ DroppedAfterRetries'
    BY <1>2, <1>8 DEF Inv, CopiesAreRetries, DroppedAfterRetries
  <2>6. QED  BY <2>1, <2>2, <2>3, <2>4, <2>5 DEF Inv
<1>9. QED
  BY <1>2, <1>7, <1>8 DEF AppendOrFlush

\* The flush loop, or flush(), takes what is queued.
LEMMA FlushInv ==
  ASSUME Inv, LoopFlush \/ \E f \in Flushers : Flush(f)  PROVE Inv'
<1>1. PICK t \in Tasks : TakeQueue(t, queue)
  BY DEF LoopFlush, Flush, Tasks
<1>2. UNCHANGED <<enqueued, received, dropped>>
  BY DEF LoopFlush, Flush
<1>3. enqueued' \subseteq Events
  BY <1>2 DEF Inv, Types
<1>4. QED
  BY <1>1, <1>2, <1>3, QueueFacts, TakeQueueInv

\* A send: the API may have taken the batch.
LEMMA TookFacts ==
  ASSUME Inv, NEW t \in Tasks, NEW taken \in BOOLEAN, Took(t, taken), task[t].at = "sending"
  PROVE  /\ received' \in [Events -> Nat]
         /\ \A e \in Events :
              \/ received'[e] = received[e]
              \/ /\ received'[e] = received[e] + 1
                 /\ \E u \in {t} : task[u].at = "sending" /\ e \in Held(u)
<1>1. \A e \in Events : received[e] \in Nat
  BY DEF Inv, Types
<1>2. QED
  BY <1>1 DEF Took

\* A batch is answered for, or waits for its next attempt, or is given up.
LEMMA SendInv ==
  ASSUME Inv, NEW t \in Tasks, SendSucceeds(t) \/ SendFails(t)  PROVE Inv'
<1> DEFINE gone == {t}
<1>1. gone \in SUBSET Tasks
  OBVIOUS
<1>2. /\ received' \in [Events -> Nat]
      /\ \A e \in Events :
           \/ received'[e] = received[e]
           \/ /\ received'[e] = received[e] + 1
              /\ \E u \in gone : task[u].at = "sending" /\ e \in Held(u)
  BY TookFacts DEF SendSucceeds, SendFails
<1>3. UNCHANGED <<queue, enqueued, tries>> /\ task[t].at = "sending"
  BY DEF SendSucceeds, SendFails, AfterFailure
<1>4. CASE task' = [task EXCEPT ![t] = Idle]
           /\ (dropped' = dropped \/ (dropped' = dropped \cup Held(t) /\ task[t].attempt = MaxRetries))
  <2>1. task' = [u \in Tasks |-> IF u \in gone THEN Idle ELSE task[u]]
    BY <1>4 DEF Inv, Types
  <2>2. enqueued' \subseteq Events /\ dropped' \subseteq Events
    BY <1>3, <1>4, ToSetFacts DEF Inv, Types, Held
  <2>3. \A e \in dropped' : e \in dropped \/ tries[e] = MaxRetries
    BY <1>4 DEF Inv, Holding
  <2> HIDE DEF gone
  <2>4. QED  BY <1>1, <1>2, <1>3, <2>1, <2>2, <2>3, LettingGo
<1>5. CASE /\ task' = [task EXCEPT ![t].at = "backoff"] /\ dropped' = dropped
           /\ task[t].attempt # MaxRetries
  <2> DEFINE r == [task[t] EXCEPT !.at = "backoff"]
  <2>1. task' = [task EXCEPT ![t] = r]
    BY <1>5
  <2>2. /\ r \in [at : {"idle", "sending", "backoff"}, batch : Seq(Events),
                  attempt : 0 .. MaxRetries]
        /\ r.at = "backoff" /\ r.batch = task[t].batch /\ r.attempt = task[t].attempt
    BY DEF Inv, Types
  <2> HIDE DEF r
  <2>3. /\ task'[t] = r /\ \A u \in Tasks \ {t} : task'[u] = task[u]
        /\ \A u \in Tasks : Held(u)' = Held(u)
    BY <2>1, <2>2 DEF Inv, Types, Held
  <2>4. Types'
    BY <1>2, <1>3, <1>5, <2>1, <2>2 DEF Inv, Types
  <2>5. task[t].attempt \in 0 .. MaxRetries /\ task[t].attempt < MaxRetries
        /\ task[t].attempt >= 1 /\ task[t].batch # <<>>
    BY <1>3, <1>5, LimitsAssumption DEF Inv, Types, Holding
  <2>6. \A u \in Tasks \ {t} : \A e \in Held(u) : received'[e] = received[e]
    <3>1. \A u \in Tasks : Held(u) \subseteq Events
      BY ToSetFacts DEF Inv, Types, Held
    <3>2. \A e \in Events : e \in Held(t) \/ received'[e] = received[e]
      BY <1>2
    <3>3. QED  BY <3>1, <3>2 DEF Inv, BatchesAreDisjoint
  <2>7. Holding'
    <3>1. ASSUME NEW u \in Tasks \ {t}
          PROVE  /\ task[u].at = "idle" <=> task[u].batch = <<>>
                 /\ task[u].at # "idle" => task[u].attempt >= 1
                 /\ task[u].at = "backoff" => task[u].attempt < MaxRetries
                 /\ \A e \in Held(u) :
                      /\ e \in enqueued /\ tries[e] = task[u].attempt
                      /\ task[u].at = "sending" => received'[e] < tries[e]
      BY <2>6 DEF Inv, Holding
    <3>2. \A e \in Held(t) : e \in enqueued /\ tries[e] = task[t].attempt
      BY DEF Inv, Holding
    <3>3. /\ ~(r.at = "idle") /\ ~(r.batch = <<>>) /\ r.attempt >= 1
          /\ r.attempt < MaxRetries /\ ~(r.at = "sending")
      BY <2>2, <2>5
    <3>4. QED  BY <1>3, <2>2, <2>3, <3>1, <3>2, <3>3 DEF Holding
  <2>8. Queued' /\ BatchesAreDisjoint'
    BY <1>3, <2>3 DEF Inv, Queued, BatchesAreDisjoint
  <2>9. CopiesAreRetries'
    <3>1. ASSUME NEW e \in Events  PROVE received'[e] <= tries[e]
      <4>1. received[e] <= tries[e] /\ received[e] \in Nat /\ tries[e] \in Nat
        BY DEF Inv, Types, CopiesAreRetries
      <4>2. e \in Held(t) => received[e] < tries[e]
        BY <1>3 DEF Inv, Holding
      <4>3. QED  BY <1>2, <4>1, <4>2
    <3>2. QED  BY <1>3, <3>1 DEF Inv, CopiesAreRetries
  <2>10. DroppedAfterRetries'
    BY <1>3, <1>5 DEF Inv, DroppedAfterRetries
  <2>11. QED  BY <2>4, <2>7, <2>8, <2>9, <2>10 DEF Inv
<1>6. QED
  BY <1>4, <1>5 DEF SendSucceeds, SendFails, AfterFailure

\* A batch is sent once more.
LEMMA RetryInv == ASSUME Inv, NEW t \in Tasks, Retry(t)  PROVE Inv'
<1> DEFINE n == task[t].attempt + 1
           r == Sending(task[t].batch, n)
<1>1. /\ task[t] \in [at : {"idle", "sending", "backoff"}, batch : Seq(Events),
                      attempt : 0 .. MaxRetries]
      /\ task[t].at = "backoff" /\ task[t].attempt < MaxRetries /\ task[t].batch # <<>>
      /\ task[t].attempt >= 1
  BY DEF Inv, Types, Holding, Retry
<1>2. n \in 0 .. MaxRetries /\ n >= 1
  BY <1>1, LimitsAssumption
<1>3. /\ r \in [at : {"idle", "sending", "backoff"}, batch : Seq(Events),
                attempt : 0 .. MaxRetries]
      /\ r.at = "sending" /\ r.batch = task[t].batch /\ r.attempt = n
  BY <1>1, <1>2 DEF Sending
<1>4. /\ task' = [task EXCEPT ![t] = r]
      /\ tries' = [e \in Events |-> tries[e] + IF e \in Held(t) THEN 1 ELSE 0]
      /\ UNCHANGED <<queue, enqueued, received, dropped>>
  BY DEF Retry
<1> HIDE DEF r
<1>5. /\ task'[t] = r /\ \A u \in Tasks \ {t} : task'[u] = task[u]
      /\ \A u \in Tasks : Held(u)' = Held(u)
  BY <1>3, <1>4 DEF Inv, Types, Held
<1>6. \A u \in Tasks : Held(u) \subseteq Events
  BY ToSetFacts DEF Inv, Types, Held
<1>7. /\ \A e \in Held(t) : e \in Events /\ tries[e] = task[t].attempt /\ tries'[e] = n
      /\ \A e \in Events \ Held(t) : tries'[e] = tries[e]
  BY <1>4, <1>6 DEF Inv, Holding, Types
<1>8. Types'
  <2>1. tries' \in [Events -> Nat]
    BY <1>4 DEF Inv, Types
  <2>2. QED  BY <1>3, <1>4, <2>1 DEF Inv, Types
<1>9. Queued'
  <2>1. ToSet(queue) \cap Held(t) = {}
    BY DEF Inv, BatchesAreDisjoint
  <2>2. ToSet(queue) \subseteq Events
    BY QueueFacts, ToSetFacts
  <2>3. \A e \in Events \ enqueued : e \notin Held(t)
    BY DEF Inv, Holding
  <2>4. QED  BY <1>4, <1>7, <2>1, <2>2, <2>3 DEF Inv, Queued
<1>10. Holding'
  <2>1. ASSUME NEW u \in Tasks \ {t}
        PROVE  /\ task[u].at = "idle" <=> task[u].batch = <<>>
               /\ task[u].at # "idle" => task[u].attempt >= 1
               /\ task[u].at = "backoff" => task[u].attempt < MaxRetries
               /\ \A e \in Held(u) :
                    /\ e \in enqueued /\ tries'[e] = task[u].attempt
                    /\ task[u].at = "sending" => received[e] < tries'[e]
    <3>1. \A e \in Held(u) : tries'[e] = tries[e]
      BY <1>6, <1>7 DEF Inv, BatchesAreDisjoint
    <3>2. QED  BY <3>1 DEF Inv, Holding
  <2>2. ASSUME NEW e \in Held(t)  PROVE e \in enqueued /\ tries'[e] = r.attempt /\ received[e] < tries'[e]
    <3>1. e \in enqueued /\ tries'[e] = n
      BY <1>7 DEF Inv, Holding
    <3>2. received[e] \in Nat /\ received[e] <= task[t].attempt
      BY <1>7 DEF Inv, Types, CopiesAreRetries
    <3>3. received[e] < n
      BY <1>1, <3>2
    <3>4. QED  BY <1>3, <3>1, <3>3
  <2>3. ~(r.at = "idle") /\ ~(r.batch = <<>>) /\ r.attempt >= 1 /\ ~(r.at = "backoff")
    BY <1>1, <1>2, <1>3
  <2>4. QED  BY <1>4, <1>5, <2>1, <2>2, <2>3 DEF Holding
<1>11. BatchesAreDisjoint'
  BY <1>4, <1>5 DEF Inv, BatchesAreDisjoint
<1>12. CopiesAreRetries'
  <2>1. ASSUME NEW e \in Events  PROVE received[e] <= tries'[e] /\ tries'[e] <= MaxRetries
    <3>1. /\ received[e] <= tries[e] /\ tries[e] <= MaxRetries
          /\ received[e] \in Nat /\ tries[e] \in Nat
      BY DEF Inv, Types, CopiesAreRetries
    <3>2. CASE e \in Held(t)
      <4>1. tries[e] = task[t].attempt /\ tries'[e] = n
        BY <1>7, <3>2
      <4>2. QED  BY <1>1, <1>2, <3>1, <4>1
    <3>3. CASE e \notin Held(t)
      BY <1>7, <3>1, <3>3
    <3>4. QED  BY <3>2, <3>3
  <2>2. QED  BY <1>4, <2>1 DEF CopiesAreRetries
<1>13. DroppedAfterRetries'
  <2>1. ASSUME NEW e \in dropped  PROVE tries'[e] = MaxRetries
    <3>1. tries[e] = MaxRetries /\ e \in Events
      BY DEF Inv, Types, DroppedAfterRetries
    <3>2. e \notin Held(t)
      BY <1>1, <1>7, <3>1
    <3>3. QED  BY <1>7, <3>1, <3>2
  <2>2. QED  BY <1>4, <2>1 DEF DroppedAfterRetries
<1>14. QED
  BY <1>8, <1>9, <1>10, <1>11, <1>12, <1>13 DEF Inv

\* The flush loop lets go of its batch, and the drain sends the queue.
LEMMA StopInv == ASSUME Inv, Shutdown \/ LoopStops  PROVE Inv'
<1> DEFINE gone == {"loop"}
           t == "drain"
           s == queue
<1>1. /\ Stop /\ task["drain"] = Idle
      /\ UNCHANGED <<enqueued, dropped>>
  BY DEF Shutdown, LoopStops
<1>2. gone \in SUBSET Tasks /\ t \in Tasks /\ s \in Seq(Events) /\ t \notin gone
  BY QueueFacts DEF Tasks
<1>3. /\ queue' \in Seq(Events) /\ Len(queue') < Threshold /\ IsInjective(queue')
      /\ ToSet(queue') = {}
  <2>1. Len(<<>>) = 0 /\ 0 < Threshold /\ <<>> \in Seq(Events)
    BY LimitsAssumption
  <2>2. queue' = <<>>
    BY <1>1 DEF Stop
  <2>3. QED  BY <2>1, <2>2, ToSetFacts
<1>4. \A e \in ToSet(s) : /\ e \in enqueued' /\ tries[e] = 0
                          /\ \A u \in Tasks : e \notin Held(u)
  BY <1>1, QueueFacts
<1>5. task[t].at = "idle"
  BY <1>1, IdleFacts
<1>6. task' = [u \in Tasks |-> IF u = t /\ s # <<>> THEN Sending(s, 1)
                               ELSE IF u \in gone THEN Idle ELSE task[u]]
  <2>1. DOMAIN task = Tasks /\ task = [u \in Tasks |-> task[u]]
    BY DEF Inv, Types
  <2>2. task' = [task EXCEPT !["loop"] = Idle,
                             !["drain"] = IF queue = <<>> THEN Idle ELSE Sending(queue, 1)]
    BY <1>1 DEF Stop
  <2>3. CASE queue = <<>>
    <3>1. task' = [task EXCEPT !["loop"] = Idle, !["drain"] = Idle]
      BY <2>2, <2>3
    <3>2. QED  BY <1>1, <2>1, <2>3, <3>1
  <2>4. CASE queue # <<>>
    <3>1. task' = [task EXCEPT !["loop"] = Idle, !["drain"] = Sending(queue, 1)]
      BY <2>2, <2>4
    <3>2. QED  BY <1>1, <2>1, <2>4, <3>1
  <2>5. QED  BY <2>3, <2>4
<1>7. tries' = [e \in Events |-> tries[e] + IF e \in ToSet(s) THEN 1 ELSE 0]
  BY <1>1 DEF Stop
<1>8. /\ received' \in [Events -> Nat]
      /\ \A e \in Events :
           \/ received'[e] = received[e]
           \/ /\ received'[e] = received[e] + 1
              /\ \E u \in gone : task[u].at = "sending" /\ e \in Held(u)
  <2>1. Cut(gone, {})
    BY <1>1 DEF Stop
  <2> HIDE DEF gone
  <2>2. QED  BY <1>2, <2>1, CutFacts
<1>9. /\ enqueued \subseteq enqueued' /\ enqueued' \subseteq Events
      /\ dropped' \subseteq Events /\ \A e \in dropped' : e \in dropped
  BY <1>1 DEF Inv, Types
<1> HIDE DEF gone, t, s
<1>10. Move(gone, t, s)
  BY <1>3, <1>4, <1>5, <1>6, <1>7, <1>8, <1>9 DEF Move
<1>11. QED
  BY <1>2, <1>10, Moves

\* run_forever ends and stop() is called once more.
LEMMA LoopEndsInv == ASSUME Inv, LoopEnds  PROVE Inv'
<1> DEFINE gone == {t \in Tasks : task[t] # Idle}
<1>1. /\ Cut(gone, ToSet(queue)) /\ queue' = <<>>
      /\ task' = [t \in Tasks |-> Idle]
      /\ UNCHANGED <<enqueued, tries, dropped>>
  BY DEF LoopEnds
<1>2. gone \in SUBSET Tasks
  OBVIOUS
<1>3. task' = [u \in Tasks |-> IF u \in gone THEN Idle ELSE task[u]]
  BY <1>1
<1> HIDE DEF gone
<1>4. /\ received' \in [Events -> Nat]
      /\ \A e \in Events :
           \/ received'[e] = received[e]
           \/ /\ received'[e] = received[e] + 1
              /\ \E u \in gone : task[u].at = "sending" /\ e \in Held(u)
  BY <1>1, <1>2, CutFacts
<1>5. enqueued' \subseteq Events /\ dropped' \subseteq Events
  BY <1>1 DEF Inv, Types
<1>6. QED
  BY <1>1, <1>2, <1>3, <1>4, <1>5, LettingGo

\* A step that moves no event between the queue and the batches.
LEMMA QuietInv ==
  ASSUME Inv,
         UNCHANGED <<queue, task, tries, received, dropped>>,
         enqueued \subseteq enqueued', enqueued' \subseteq Events
  PROVE  Inv'
<1>1. Types'
  BY DEF Inv, Types
<1>2. Queued'
  BY DEF Inv, Queued
<1>3. Holding'
  BY DEF Inv, Holding, Held
<1>4. BatchesAreDisjoint' /\ CopiesAreRetries' /\ DroppedAfterRetries'
  BY DEF Inv, BatchesAreDisjoint, Held, CopiesAreRetries, DroppedAfterRetries
<1>5. QED
  BY <1>1, <1>2, <1>3, <1>4 DEF Inv

\* Every step keeps the inductive invariant.
LEMMA NextInv == Inv /\ [Next]_vars => Inv'
<1> SUFFICES ASSUME Inv, [Next]_vars PROVE Inv'
  OBVIOUS
<1>1. ASSUME NEW e \in Events, Enqueue(e) PROVE Inv'
  BY <1>1, EnqueueInv
<1>2. ASSUME NEW e \in Events, EnqueueTooLate(e) PROVE Inv'
  BY <1>2, QuietInv DEF EnqueueTooLate, Inv, Types
<1>3. CASE LoopFlush \/ \E f \in Flushers : Flush(f)
  BY <1>3, FlushInv
<1>4. ASSUME NEW t \in Tasks, SendSucceeds(t) \/ SendFails(t) PROVE Inv'
  BY <1>4, SendInv
<1>5. ASSUME NEW t \in Tasks, Retry(t) PROVE Inv'
  BY <1>5, RetryInv
<1>6. CASE Shutdown \/ LoopStops
  BY <1>6, StopInv
<1>7. CASE LoopEnds
  BY <1>7, LoopEndsInv
<1>8. CASE ShutdownTimesOut \/ ThreadEnds \/ UNCHANGED vars
  BY <1>8, QuietInv DEF ShutdownTimesOut, ThreadEnds, vars, Inv, Types
<1>9. QED
  BY <1>1, <1>2, <1>3, <1>4, <1>5, <1>6, <1>7, <1>8 DEF Next

\* The inductive invariant holds: every step keeps it (Init, Next).
THEOREM Invariance == Spec => []Inv
<1>1. Init => Inv
  BY InitInv
<1>2. Inv /\ [Next]_vars => Inv'
  BY NextInv
<1>3. QED
  BY <1>1, <1>2, PTL DEF Spec

-----------------------------------------------------------------------------
\* What TypeOK says of the variables that Inv leaves out.
Around ==
  /\ thread \in Lives /\ called \subseteq Flushers /\ stops \in 0 .. Stops
  /\ cut \subseteq Events

\* Every step keeps the shape of the thread, the calls and the counters.
LEMMA AroundStep == Inv /\ Around /\ [Next]_vars => Around'
<1> SUFFICES ASSUME Inv, Around, [Next]_vars PROVE Around'
  OBVIOUS
<1>1. ToSet(queue) \subseteq Events /\ \A t \in Tasks : Held(t) \subseteq Events
  BY ToSetFacts DEF Inv, Types, Held
<1>2. \A tasks \in SUBSET Tasks, events \in SUBSET Events :
        Cut(tasks, events) => cut' \subseteq Events
  BY <1>1 DEF Cut, Around
<1>3. ASSUME NEW e \in Events, Enqueue(e) \/ EnqueueTooLate(e) PROVE Around'
  BY <1>3 DEF Enqueue, EnqueueTooLate, Around, Lives
<1>4. CASE LoopFlush \/ \E f \in Flushers : Flush(f)
  BY <1>4 DEF LoopFlush, Flush, Around
<1>5. ASSUME NEW t \in Tasks, SendSucceeds(t) \/ SendFails(t) \/ Retry(t) PROVE Around'
  BY <1>5 DEF SendSucceeds, SendFails, Retry, Around
<1>6. CASE Shutdown
  <2>1. {"loop"} \in SUBSET Tasks /\ {} \in SUBSET Events
    BY DEF Tasks
  <2>2. cut' \subseteq Events
    BY <1>2, <1>6, <2>1 DEF Shutdown, Stop
  <2>3. stops' \in 0 .. Stops /\ thread' \in Lives /\ called' = called
    BY <1>6, LimitsAssumption DEF Shutdown, Around, Lives
  <2>4. QED  BY <2>2, <2>3 DEF Around
<1>7. CASE LoopStops
  <2>1. {"loop"} \in SUBSET Tasks /\ {} \in SUBSET Events
    BY DEF Tasks
  <2>2. cut' \subseteq Events
    BY <1>2, <1>7, <2>1 DEF LoopStops, Stop
  <2>3. QED  BY <1>7, <2>2 DEF LoopStops, Around, Lives
<1>8. CASE LoopEnds
  <2>1. cut' \subseteq Events
    BY <1>1, <1>2, <1>8 DEF LoopEnds
  <2>2. QED  BY <1>8, <2>1 DEF LoopEnds, Around, Lives
<1>9. CASE ShutdownTimesOut \/ ThreadEnds \/ UNCHANGED vars
  BY <1>9 DEF ShutdownTimesOut, ThreadEnds, vars, Around, Lives
<1>10. QED
  BY <1>3, <1>4, <1>5, <1>6, <1>7, <1>8, <1>9 DEF Next

\* Every variable keeps its type and the queue its bound, for every threshold,
\* number of events and number of stops (Transport, SyncTransport).
THEOREM TypeCorrect == Spec => []TypeOK
<1>1. Init => Around
  BY LimitsAssumption DEF Init, Around, Lives
<1>2. Inv /\ Around => TypeOK
  BY LimitsAssumption DEF Inv, Types, Holding, Around, TypeOK
<1>3. Inv /\ Around /\ [Next]_vars => Around'
  BY AroundStep
<1>4. QED
  BY <1>1, <1>2, <1>3, Invariance, PTL DEF Spec

\* No two tasks, and no task and the queue, ever hold the same event, for any
\* number of concurrent flushes, restarts and shutdowns (_flush_all).
THEOREM NoEventIsHeldTwice == Spec => []BatchesAreDisjoint
<1>1. Inv => BatchesAreDisjoint
  BY DEF Inv
<1>2. QED
  BY <1>1, Invariance, PTL

\* An event is sent at most MaxRetries times and received at most as often as
\* it was sent, whatever answers are lost (_send_with_retry).
THEOREM CopiesComeFromRetries == Spec => []CopiesAreRetries
<1>1. Inv => CopiesAreRetries
  BY DEF Inv
<1>2. QED
  BY <1>1, Invariance, PTL

\* The transport warns that it drops an event only after MaxRetries attempts;
\* because the threshold is below the limit, no event is dropped from the queue
\* (enqueue, _send_with_retry).
THEOREM NothingIsDroppedEarly == Spec => []DroppedAfterRetries
<1>1. Inv => DroppedAfterRetries
  BY DEF Inv
<1>2. QED
  BY <1>1, Invariance, PTL
=============================================================================
