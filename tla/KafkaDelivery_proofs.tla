------------------------ MODULE KafkaDelivery_proofs ------------------------
(* The delivery log of KafkaDelivery claims nothing that did not happen, for *)
(* every set of deliveries and of sessions and every number of retries.      *)
EXTENDS KafkaDelivery, TLAPS

\* What the columns of a row, or of a session's object, claim did happen.
Truthful(r, d) ==
  /\ r.status = "success" \/ r.delivered => d \in received
  /\ r.deadLettered => d \in deadLetters

\* A session writes a row from an object it has changed over several steps: the
\* object must claim nothing false at any of them.  What the session loaded
\* decides which columns are written, and needs no claim of its own.
IInv ==
  /\ TypeOK
  /\ \A d \in Deliveries : Truthful(row[d], d)
  /\ \A s \in Sessions, d \in Deliveries : Truthful(session[s].object[d], d)

-----------------------------------------------------------------------------
(* Rows. *)

\* A claim stays true: the topics keep their messages.
LEMMA TruthLasts ==
  ASSUME NEW r \in Rows, NEW d \in Deliveries, Truthful(r, d),
         received \subseteq received', deadLetters \subseteq deadLetters'
  PROVE  /\ r.status = "success" \/ r.delivered => d \in received'
         /\ r.deadLettered => d \in deadLetters'
BY DEF Truthful

\* However the columns of two truthful rows are mixed, the result is a row that
\* claims nothing new.
LEMMA MergedIsTruthful ==
  ASSUME NEW current \in Rows, NEW loaded \in Rows, NEW object \in Rows,
         NEW d \in Deliveries, Truthful(current, d), Truthful(object, d)
  PROVE  Merged(current, loaded, object) \in Rows /\ Truthful(Merged(current, loaded, object), d)
BY DEF Rows, Status, Merged, Truthful

\* The object of a session that has not read a row claims nothing.
LEMMA NoRowIsTruthful == NoRow \in Rows /\ \A d \in Deliveries : Truthful(NoRow, d)
BY DEF NoRow, Rows, Status, Truthful

-----------------------------------------------------------------------------
(* Steps that several actions share. *)

\* Loading objects that are rows and truthful keeps the invariant.
LEMMA LoadPreserves ==
  ASSUME IInv, NEW s \in Sessions, NEW ids \in SUBSET Deliveries,
         NEW objects, Load(s, ids, objects),
         \A d \in ids : objects[d] \in Rows /\ Truthful(objects[d], d)
  PROVE  IInv'
<1>1. Only(ids, row) \in [Deliveries -> Rows] /\ Only(ids, objects) \in [Deliveries -> Rows]
  BY NoRowIsTruthful DEF Only, IInv, TypeOK
<1>2. \A d \in Deliveries : Truthful(Only(ids, objects)[d], d)
  BY NoRowIsTruthful DEF Only
<1>3. TypeOK'
  BY <1>1 DEF IInv, TypeOK, Load
<1>4. QED
  BY <1>2, <1>3 DEF IInv, TypeOK, Load, Truthful

\* So does an attempt whose object is truthful after what it has sent.
LEMMA AttemptPreserves ==
  ASSUME IInv, NEW s \in Sessions, NEW d \in Deliveries, NEW object \in Rows,
         Attempted(s, d, object), UNCHANGED <<row, enabled>>,
         received' \in {received, received \cup {d}},
         deadLetters' \in {deadLetters, deadLetters \cup {d}},
         object.status = "success" \/ object.delivered => d \in received',
         object.deadLettered => d \in deadLetters'
  PROVE  IInv'
<1> DEFINE Held == [ids : SUBSET Deliveries, todo : SUBSET Deliveries,
                    loaded : [Deliveries -> Rows], object : [Deliveries -> Rows]]
           After == [session[s] EXCEPT !.todo = @ \ {d}, !.object[d] = object]
<1>a. session \in [Sessions -> Held] /\ session[s] \in Held
  BY DEF IInv, TypeOK
<1>b. [session[s].object EXCEPT ![d] = object] \in [Deliveries -> Rows]
  BY <1>a
<1>c. After \in Held
  BY <1>a, <1>b
<1>d. session' = [session EXCEPT ![s] = After]
  BY <1>a DEF Attempted
<1>e. session' \in [Sessions -> Held]
  <2> HIDE DEF Held, After
  <2> QED BY <1>a, <1>c, <1>d
<1>1. TypeOK'
  BY <1>e DEF IInv, TypeOK
<1>2. \A e \in Deliveries : Truthful(row[e], e)'
  BY TruthLasts DEF IInv, TypeOK, Truthful
<1>3. ASSUME NEW u \in Sessions, NEW e \in Deliveries
      PROVE Truthful(session[u].object[e], e)'
  <2>1. CASE u = s /\ e = d
    BY <2>1 DEF IInv, TypeOK, Attempted, Truthful
  <2>2. CASE ~(u = s /\ e = d)
    <3>1. session'[u].object[e] = session[u].object[e]
      BY <2>2 DEF IInv, TypeOK, Attempted
    <3>2. session[u].object[e] \in Rows /\ Truthful(session[u].object[e], e)
      BY DEF IInv, TypeOK
    <3>3. QED
      BY <3>1, <3>2 DEF Truthful
  <2>3. QED
    BY <2>1, <2>2
<1>4. QED
  BY <1>1, <1>2, <1>3 DEF IInv

\* And so does closing a session, whatever it has sent.
LEMMA ClosePreserves ==
  ASSUME IInv, NEW s \in Sessions, Close(s), NEW d \in Deliveries, UNCHANGED enabled,
         received' \in {received, received \cup {d}},
         deadLetters' \in {deadLetters, deadLetters \cup {d}},
         row' \in [Deliveries -> Rows], \A e \in Deliveries : Truthful(row'[e], e)
  PROVE  IInv'
<1>1. Idle \in [ids : SUBSET Deliveries, todo : SUBSET Deliveries,
                loaded : [Deliveries -> Rows], object : [Deliveries -> Rows]]
  BY NoRowIsTruthful DEF Idle
<1>2. TypeOK'
  BY <1>1 DEF IInv, TypeOK, Close
<1>3. \A e \in Deliveries : Truthful(row[e], e)'
  BY DEF Truthful
<1>4. ASSUME NEW u \in Sessions, NEW e \in Deliveries
      PROVE Truthful(session[u].object[e], e)'
  <2>1. CASE u = s
    BY <2>1, NoRowIsTruthful DEF IInv, TypeOK, Close, Idle, NoRow, Truthful
  <2>2. CASE u # s
    BY <2>2 DEF IInv, TypeOK, Close, Truthful
  <2>3. QED
    BY <2>1, <2>2
<1>5. QED
  BY <1>2, <1>3, <1>4 DEF IInv

-----------------------------------------------------------------------------
(* The actions. *)

\* The inductive invariant holds at the start.
LEMMA InitEstablishes == Init => IInv
<1> SUFFICES ASSUME Init PROVE IInv
  OBVIOUS
<1>1. Idle \in [ids : SUBSET Deliveries, todo : SUBSET Deliveries,
                loaded : [Deliveries -> Rows], object : [Deliveries -> Rows]]
  BY NoRowIsTruthful DEF Idle
<1>2. TypeOK
  BY <1>1, NoRowIsTruthful DEF Init, TypeOK
<1>3. \A s \in Sessions, d \in Deliveries : session[s].object[d] = NoRow
  BY DEF Init, Idle
<1>4. QED
  BY <1>2, <1>3, NoRowIsTruthful DEF Init, IInv

\* Every step keeps the inductive invariant.
LEMMA StepPreserves == IInv /\ [Next]_vars => IInv'
<1> SUFFICES ASSUME IInv, [Next]_vars PROVE IInv'
  OBVIOUS
<1> USE DEF Sessions
<1>0. /\ \A d \in Deliveries : row[d] \in Rows /\ Truthful(row[d], d)
      /\ \A s \in Sessions, d \in Deliveries :
           /\ session[s].object[d] \in Rows /\ session[s].loaded[d] \in Rows
           /\ Truthful(session[s].object[d], d)
  BY DEF IInv, TypeOK
<1>1. ASSUME NEW p \in Publishers, NEW d \in Deliveries, PublishEvent(p, d) PROVE IInv'
  <2> DEFINE objects == [row EXCEPT ![d].attempt = 1]
  <2>1. objects[d] = [row[d] EXCEPT !.attempt = 1]
    BY DEF IInv, TypeOK
  <2>2. [row[d] EXCEPT !.attempt = 1] \in Rows /\ Truthful([row[d] EXCEPT !.attempt = 1], d)
    BY <1>0 DEF Rows, Truthful
  <2>3. Load(p, {d}, objects)
    BY <1>1 DEF PublishEvent
  <2>4. \A e \in {d} : objects[e] \in Rows /\ Truthful(objects[e], e)
    BY <2>1, <2>2
  <2>5. QED
    <3> HIDE DEF objects
    <3> QED BY <2>3, <2>4, LoadPreserves
<1>2. ASSUME NEW a \in Admins, NEW d \in Deliveries, RetryDelivery(a, d) PROVE IInv'
  <2> DEFINE n == IF row[d].status \in {"retry_scheduled", "failed"}
                  THEN row[d].attempt + 1 ELSE row[d].attempt
             object == [row[d] EXCEPT !.attempt = n, !.scheduled = FALSE]
             objects == [row EXCEPT
               ![d].attempt   = IF row[d].status \in {"retry_scheduled", "failed"} THEN @ + 1 ELSE @,
               ![d].scheduled = FALSE]
  <2>1. objects[d] = object
    BY DEF IInv, TypeOK
  <2>2. object \in Rows /\ Truthful(object, d)
    <3>1. n \in Nat
      BY <1>0 DEF Rows
    <3>2. QED
      <4> HIDE DEF n
      <4> QED BY <1>0, <3>1 DEF Rows, Truthful
  <2>3. Load(a, {d}, objects)
    BY <1>2 DEF RetryDelivery
  <2>4. \A e \in {d} : objects[e] \in Rows /\ Truthful(objects[e], e)
    BY <2>1, <2>2
  <2>5. QED
    <3> HIDE DEF objects
    <3> QED BY <2>3, <2>4, LoadPreserves
<1>3. ASSUME NEW w \in Workers, NEW ids \in SUBSET Deliveries, ProcessPendingDeliveries(w, ids)
      PROVE IInv'
  <2> DEFINE objects == [d \in Deliveries |->
               IF d \in ids THEN [row[d] EXCEPT !.attempt = @ + 1] ELSE row[d]]
  <2>1. \A d \in ids : objects[d] \in Rows /\ Truthful(objects[d], d)
    BY <1>0 DEF Rows, Truthful
  <2>2. Load(w, ids, objects)
    BY <1>3 DEF ProcessPendingDeliveries
  <2>3. QED
    <3> HIDE DEF objects
    <3> QED BY <2>1, <2>2, LoadPreserves
<1>4. ASSUME NEW s \in Sessions, NEW d \in Deliveries, Send(s, d) PROVE IInv'
  <2> DEFINE object == Accepted(session[s].object[d])
  <2>1. object \in Rows /\ object.deadLettered = session[s].object[d].deadLettered
    BY <1>0 DEF Accepted, Rows, Status
  <2>2. d \in received' /\ (object.deadLettered => d \in deadLetters')
    BY <1>0, <1>4, <2>1 DEF Send, Truthful
  <2>3. Attempted(s, d, object) /\ UNCHANGED <<row, enabled, deadLetters>>
        /\ received' = received \cup {d}
    BY <1>4 DEF Send
  <2>4. QED
    <3> HIDE DEF object
    <3> QED BY <2>1, <2>2, <2>3, AttemptPreserves
<1>5. ASSUME NEW s \in Sessions, NEW d \in Deliveries, SendFails(s, d) PROVE IInv'
  <2> DEFINE object == Rescheduled(session[s].object[d])
  <2>1. /\ object \in Rows /\ object.status # "success" /\ object.delivered = FALSE
        /\ object.deadLettered = session[s].object[d].deadLettered
    BY <1>0 DEF Rescheduled, Rows, Status
  <2>2. /\ Attempted(s, d, object) /\ UNCHANGED <<row, enabled, deadLetters>>
        /\ received' \in {received, received \cup {d}}
    BY <1>5 DEF SendFails, SendRaises
  <2>3. object.deadLettered => d \in deadLetters'
    BY <1>0, <2>1, <2>2 DEF Truthful
  <2>4. QED
    <3> HIDE DEF object
    <3> QED BY <2>1, <2>2, <2>3, AttemptPreserves
<1>6. ASSUME NEW s \in Sessions, NEW d \in Deliveries, SendGivesUp(s, d) PROVE IInv'
  <2>1. PICK recorded \in BOOLEAN :
          /\ SendDeadLetter(d, recorded)
          /\ IF s \in Admins
             THEN Close(s)
             ELSE Attempted(s, d, [GivenUp(session[s].object[d])
                                     EXCEPT !.deadLettered = @ \/ recorded])
    BY <1>6 DEF SendGivesUp
  <2>2. /\ received' \in {received, received \cup {d}} /\ UNCHANGED <<row, enabled>>
        /\ deadLetters' \in {deadLetters, deadLetters \cup {d}}
        /\ recorded => d \in deadLetters'
    BY <1>6, <2>1 DEF SendGivesUp, SendRaises, SendDeadLetter
  <2>3. CASE s \in Admins
    <3>1. Close(s)
      BY <2>1, <2>3
    <3>2. row' \in [Deliveries -> Rows] /\ \A e \in Deliveries : Truthful(row'[e], e)
      BY <1>0, <2>2 DEF IInv, TypeOK
    <3>3. QED
      BY <2>2, <3>1, <3>2, ClosePreserves
  <2>4. CASE s \notin Admins
    <3> DEFINE before == GivenUp(session[s].object[d])
               object == [before EXCEPT !.deadLettered = @ \/ recorded]
    <3>1. /\ before \in Rows /\ before.status # "success" /\ before.delivered = FALSE
          /\ before.deadLettered = session[s].object[d].deadLettered
      BY <1>0 DEF GivenUp, Rows, Status
    <3>2. (before.deadLettered \/ recorded) \in BOOLEAN
      OBVIOUS
    <3>3. /\ object \in Rows /\ object.status # "success" /\ object.delivered = FALSE
          /\ object.deadLettered = (before.deadLettered \/ recorded)
      <4> HIDE DEF before
      <4> QED BY <3>1, <3>2 DEF Rows
    <3>4. object.deadLettered => d \in deadLetters'
      BY <1>0, <2>2, <3>1, <3>3 DEF Truthful
    <3>5. Attempted(s, d, object)
      BY <2>1, <2>4
    <3>6. QED
      <4> HIDE DEF object
      <4> QED BY <2>2, <3>3, <3>4, <3>5, AttemptPreserves
  <2>5. QED
    BY <2>3, <2>4
<1>7. ASSUME NEW s \in Sessions, Commit(s) PROVE IInv'
  <2>1. PICK d \in Deliveries : d \in session[s].ids
    BY <1>7 DEF Commit, IInv, TypeOK
  <2>2. \A e \in Deliveries : row'[e] \in Rows /\ Truthful(row'[e], e)
    BY <1>0, <1>7, MergedIsTruthful DEF Commit
  <2>3. row' \in [Deliveries -> Rows]
    BY <1>7, <2>2 DEF Commit
  <2>4. QED
    BY <1>7, <2>1, <2>2, <2>3, ClosePreserves DEF Commit
<1>8. ASSUME NEW s \in Sessions, Abort(s) PROVE IInv'
  <2>1. PICK d \in Deliveries : d \in session[s].ids
    BY <1>8 DEF Abort, IInv, TypeOK
  <2>2. row' \in [Deliveries -> Rows] /\ \A e \in Deliveries : Truthful(row'[e], e)
    BY <1>0, <1>8 DEF Abort, IInv, TypeOK
  <2>3. QED
    BY <1>8, <2>1, <2>2, ClosePreserves DEF Abort
<1>9. ASSUME SetEnabled PROVE IInv'
  BY <1>9 DEF SetEnabled, IInv, TypeOK, Truthful
<1>10. CASE UNCHANGED vars
  BY <1>10 DEF vars, IInv, TypeOK, Truthful
<1>11. QED
  BY <1>1, <1>2, <1>3, <1>4, <1>5, <1>6, <1>7, <1>8, <1>9, <1>10 DEF Next, ManualRetry, Attempt

\* The inductive invariant holds in every behaviour.
LEMMA Invariant == Spec => []IInv
BY InitEstablishes, StepPreserves, PTL DEF Spec

-----------------------------------------------------------------------------
(* What holds of every execution. *)

\* The committed rows and the sessions' objects are rows of the table, the
\* mixtures that overlapping commits leave included.
THEOREM TypeCorrect == Spec => []TypeOK
<1>1. IInv => TypeOK
  BY DEF IInv
<1>2. QED
  BY Invariant, <1>1, PTL

\* However many publishers, admins and workers overlap, a delivery that the log
\* calls a success, or gives a delivered_at, has reached the topic.
THEOREM SuccessIsTrue == Spec => []SuccessWasReceived
<1>1. IInv => SuccessWasReceived
  BY DEF IInv, Truthful, SuccessWasReceived
<1>2. QED
  BY Invariant, <1>1, PTL

\* A delivery that the log calls dead-lettered has its dead letter.
THEOREM DeadLetterIsTrue == Spec => []DeadLetterWasWritten
<1>1. IInv => DeadLetterWasWritten
  BY DEF IInv, Truthful, DeadLetterWasWritten
<1>2. QED
  BY Invariant, <1>1, PTL
=============================================================================
