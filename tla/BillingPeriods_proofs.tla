------------------------ MODULE BillingPeriods_proofs -----------------------
(* Proofs about BillingPeriods.  What the sums of adjustments come to, the   *)
(* last theorem depends on only.                                             *)
EXTENDS BillingPeriods, SumTheorems, TLAPS

InLock == {"locked", "totalled", "summed"}

CloseShape(r) ==
  /\ DOMAIN r = {"at", "period", "total", "sums", "before", "counted"}
  /\ r.at \in {"idle", "read"} \cup InLock
  /\ r.total \in Nat
  /\ r.before \subseteq Adjustments /\ r.counted \subseteq Adjustments

PeriodShape(r) ==
  /\ DOMAIN r = {"workspace", "status", "total", "net", "snapshot"}
  /\ r.status \in {"none", "open", "closed"}
  /\ r.status # "none" => r.workspace \in Workspaces

ScanShape(r) == DOMAIN r = {"at", "looked", "missing"} /\ r.missing \subseteq Workspaces

Shapes ==
  /\ DOMAIN period = Ids /\ \A p \in Ids : PeriodShape(period[p])
  /\ spent \in [Workspaces -> Nat]
  /\ adjustment \in [Adjustments ->
       [is : {"none", "there", "deleted"}, period : Ids \cup {Null},
        kind : Kinds, amount : Amounts \cup {0}]]
  /\ \E S : snapshots \in Seq(S)
  /\ DOMAIN close = Closers /\ \A c \in Closers : CloseShape(close[c])
  /\ edit \in [Editors -> [at : {"idle", "add", "update"},
                           row : Adjustments \cup {Null}, period : Ids \cup {Null}]]
  /\ DOMAIN scan = Workers /\ \A k \in Workers : ScanShape(scan[k])

\* A closer's period exists; it is in one critical section at a time.
Closing ==
  /\ \A c \in Closers : close[c].at # "idle" => close[c].period \in Ids /\ Exists(close[c].period)
  /\ \A c, d \in Closers :
       close[c].at \in InLock /\ close[d].at \in InLock /\ close[c].period = close[d].period
         => c = d

WorkspaceOf(p) == period[p].workspace

\* Everything signed, or about to be, was spent; what is about to be signed is
\* not less than what is.
SignedWasSpent ==
  /\ \A n \in 1 .. Len(snapshots) :
       /\ snapshots[n].period \in Ids /\ Exists(snapshots[n].period)
       /\ snapshots[n].total \in Nat
       /\ snapshots[n].total <= spent[WorkspaceOf(snapshots[n].period)]
  /\ \A c \in Closers : close[c].at \in {"totalled", "summed"} =>
       /\ close[c].total <= spent[WorkspaceOf(close[c].period)]
       /\ \A n \in 1 .. Len(snapshots) :
            snapshots[n].period = close[c].period => snapshots[n].total <= close[c].total

\* ClosedAsSigned, and the snapshot it speaks of is one.
Signed ==
  /\ ClosedAsSigned
  /\ \A p \in Ids : period[p].status = "closed" => period[p].snapshot \in 1 .. Len(snapshots)

\* An adjustment that a close has to count is still there, or deleted.
StillThere ==
  /\ \A e \in Editors : edit[e].at # "idle" =>
       /\ edit[e].row \in Adjustments /\ edit[e].period \in Ids
       /\ edit[e].at = "update" =>
            \/ adjustment[edit[e].row].is = "deleted"
            \/ adjustment[edit[e].row].is = "there"
               /\ adjustment[edit[e].row].period = edit[e].period
  /\ \A c \in Closers : close[c].at # "idle" => \A a \in close[c].before :
       \/ adjustment[a].is = "deleted"
       \/ a \in On(close[c].period) /\ (close[c].at = "summed" => a \in close[c].counted)

Inv ==
  /\ Shapes /\ Closing /\ Signed /\ SignedWasSpent /\ StillThere
  /\ SignedTotalsGrow /\ AcceptedIsCounted

-----------------------------------------------------------------------------
\* What Append does to a sequence, element by element.
LEMMA AppendFacts ==
  ASSUME NEW S, NEW s \in Seq(S), NEW x
  PROVE  /\ \E T : Append(s, x) \in Seq(T)
         /\ Len(s) \in Nat
         /\ Len(Append(s, x)) = Len(s) + 1
         /\ \A n \in 1 .. Len(s) : Append(s, x)[n] = s[n]
         /\ Append(s, x)[Len(s) + 1] = x
<1>1. s \in Seq(S \cup {x}) /\ x \in S \cup {x}
  OBVIOUS
<1>2. Append(s, x) \in Seq(S \cup {x})
  BY <1>1
<1>3. QED  BY <1>1, <1>2

\* A row of billing_periods that exists is changed by nothing but a close, and
\* a new one has a workspace.
LEMMA NewPeriods ==
  ASSUME Shapes,
         \/ \E p \in Ids, w \in Workspaces : CreatePeriod(p, w)
         \/ \E k \in Workers : FinishScan(k)
  PROVE  /\ DOMAIN period' = Ids
         /\ \A p \in Ids : Exists(p) => period'[p] = period[p]
         /\ \A p \in Ids : ~Exists(p) =>
              period'[p] = period[p] \/ \E w \in Workspaces : period'[p] = Open(w)
<1>1. CASE \E p \in Ids, w \in Workspaces : CreatePeriod(p, w)
  BY <1>1 DEF Shapes, CreatePeriod, Exists
<1>2. ASSUME NEW k \in Workers, FinishScan(k)
      PROVE  /\ DOMAIN period' = Ids
             /\ \A p \in Ids : Exists(p) => period'[p] = period[p]
             /\ \A p \in Ids : ~Exists(p) =>
                  period'[p] = period[p] \/ \E w \in Workspaces : period'[p] = Open(w)
  <2>1. PICK new \in [scan[k].missing -> {p \in Ids : ~Exists(p)}] :
          period' = [p \in Ids |->
            IF \E w \in DOMAIN new : new[w] = p
            THEN Open(CHOOSE w \in DOMAIN new : new[w] = p) ELSE period[p]]
    BY <1>2 DEF FinishScan
  <2>2. DOMAIN new \subseteq Workspaces
    BY DEF Shapes, ScanShape
  <2>3. ASSUME NEW p \in Ids, Exists(p)  PROVE period'[p] = period[p]
    BY <2>1, <2>3
  <2>4. ASSUME NEW p \in Ids
        PROVE  period'[p] = period[p] \/ \E w \in Workspaces : period'[p] = Open(w)
    <3>1. CASE \E w \in DOMAIN new : new[w] = p
      <4>1. (CHOOSE w \in DOMAIN new : new[w] = p) \in Workspaces
        BY <2>2, <3>1
      <4>2. period'[p] = Open(CHOOSE w \in DOMAIN new : new[w] = p)
        BY <2>1, <3>1
      <4>3. QED  BY <4>1, <4>2
    <3>2. CASE ~ \E w \in DOMAIN new : new[w] = p
      BY <2>1, <3>2
    <3>3. QED  BY <3>1, <3>2
  <2>5. QED  BY <2>1, <2>3, <2>4
<1>3. QED  BY <1>1, <1>2

\* The period that the daily task and create_period insert.
LEMMA OpenShape == ASSUME NEW w \in Workspaces
                   PROVE  PeriodShape(Open(w)) /\ Open(w).status = "open"
  BY DEF PeriodShape, Open, None

-----------------------------------------------------------------------------
\* The variables have their shapes at the start.
LEMMA InitShapes == Init => Shapes
<1> SUFFICES ASSUME Init PROVE Shapes
  OBVIOUS
<1>1. snapshots \in Seq({})
  BY DEF Init
<1>2. \A p \in Ids : PeriodShape(period[p])
  BY DEF Init, PeriodShape, None
<1>3. \A c \in Closers : CloseShape(close[c])
  BY DEF Init, CloseShape, NoClose
<1>4. QED
  BY <1>1, <1>2, <1>3 DEF Init, Shapes, NoAdjustment, Kinds, NoEdit, NoScan, ScanShape

\* The inductive invariant holds at the start.
LEMMA InitInv == Init => Inv
<1> SUFFICES ASSUME Init PROVE Inv
  OBVIOUS
<1>1. Shapes
  BY InitShapes
<1>2. Closing
  BY DEF Init, Closing, NoClose, InLock
<1>3. Len(snapshots) = 0
  BY DEF Init
<1>4. Signed
  BY <1>3 DEF Init, Signed, ClosedAsSigned, None
<1>5. SignedWasSpent
  BY <1>3 DEF Init, SignedWasSpent, NoClose
<1>6. StillThere
  BY DEF Init, StillThere, NoClose, NoEdit
<1>7. SignedTotalsGrow /\ AcceptedIsCounted
  BY <1>3 DEF SignedTotalsGrow, AcceptedIsCounted
<1>8. QED
  BY <1>1, <1>2, <1>4, <1>5, <1>6, <1>7 DEF Inv

-----------------------------------------------------------------------------
(* One lemma for the steps that write the same variables. *)

\* Metering adds to a total that no snapshot is bound to.
LEMMA SpendInv == ASSUME Inv, NEW w \in Workspaces, Spend(w) PROVE Inv'
<1>1. /\ spent' \in [Workspaces -> Nat]
      /\ \A v \in Workspaces : spent[v] <= spent'[v]
  BY DEF Inv, Shapes, Spend
<1>2. Shapes'
  BY <1>1 DEF Inv, Shapes, Spend
<1>3. /\ Closing' /\ Signed' /\ StillThere' /\ SignedTotalsGrow' /\ AcceptedIsCounted'
  BY DEF Inv, Spend, Closing, Exists, Signed, ClosedAsSigned, StillThere, On,
         SignedTotalsGrow, AcceptedIsCounted
<1>4. SignedWasSpent'
  <2>1. ASSUME NEW p \in Ids, Exists(p)
        PROVE  spent[WorkspaceOf(p)] <= spent'[WorkspaceOf(p)] /\ spent[WorkspaceOf(p)] \in Nat
               /\ spent'[WorkspaceOf(p)] \in Nat
    BY <1>1, <2>1 DEF Inv, Shapes, PeriodShape, Exists, WorkspaceOf
  <2>2. UNCHANGED <<period, snapshots, close>>
    BY DEF Spend
  <2>3. ASSUME NEW n \in 1 .. Len(snapshots)
        PROVE  /\ snapshots[n].period \in Ids /\ Exists(snapshots[n].period)
               /\ snapshots[n].total \in Nat
               /\ snapshots[n].total <= spent'[WorkspaceOf(snapshots[n].period)]
    BY <2>1 DEF Inv, SignedWasSpent
  <2>4. ASSUME NEW c \in Closers, close[c].at \in {"totalled", "summed"}
        PROVE  close[c].total <= spent'[WorkspaceOf(close[c].period)]
    <3>1. close[c].period \in Ids /\ Exists(close[c].period) /\ close[c].total \in Nat
      BY <2>4 DEF Inv, Closing, Shapes, CloseShape
    <3>2. close[c].total <= spent[WorkspaceOf(close[c].period)]
      BY <2>4 DEF Inv, SignedWasSpent
    <3>3. QED  BY <3>1, <3>2, <2>1
  <2>5. QED
    BY <2>2, <2>3, <2>4 DEF Inv, SignedWasSpent, WorkspaceOf, Exists
<1>5. QED
  BY <1>2, <1>3, <1>4 DEF Inv

\* A new period disturbs no close, no adjustment and no snapshot.
LEMMA PeriodInv ==
  ASSUME Inv,
         \/ \E p \in Ids, w \in Workspaces : CreatePeriod(p, w)
         \/ \E k \in Workers : FinishScan(k)
  PROVE  Inv'
<1>1. /\ DOMAIN period' = Ids
      /\ \A p \in Ids : Exists(p) => period'[p] = period[p]
      /\ \A p \in Ids : ~Exists(p) =>
           period'[p] = period[p] \/ \E w \in Workspaces : period'[p] = Open(w)
  BY NewPeriods DEF Inv
<1>2. UNCHANGED <<spent, adjustment, snapshots, close, edit>>
  BY DEF CreatePeriod, FinishScan
<1>3. \A p \in Ids : PeriodShape(period'[p])
  BY <1>1, OpenShape DEF Inv, Shapes
<1>4. Shapes'
  <2>1. DOMAIN scan' = Workers /\ \A k \in Workers : ScanShape(scan'[k])
    <3>1. DOMAIN scan = Workers /\ \A k \in Workers : ScanShape(scan[k])
      BY DEF Inv, Shapes
    <3>2. ScanShape(NoScan)
      BY DEF ScanShape, NoScan
    <3>3. scan' = scan \/ \E k \in Workers : scan' = [scan EXCEPT ![k] = NoScan]
      BY DEF CreatePeriod, FinishScan
    <3>4. QED  BY <3>1, <3>2, <3>3
  <2>2. QED  BY <1>1, <1>2, <1>3, <2>1 DEF Inv, Shapes
<1>5. \A p \in Ids : Exists(p) => Exists(p)' /\ WorkspaceOf(p)' = WorkspaceOf(p)
  BY <1>1 DEF Exists, WorkspaceOf
<1>6. Closing'
  BY <1>2, <1>5 DEF Inv, Closing
<1>7. \A p \in Ids : period'[p].status = "closed" =>
        period[p].status = "closed" /\ period'[p] = period[p]
  BY <1>1, OpenShape DEF Exists
<1>8. Signed'
  BY <1>2, <1>7 DEF Inv, Signed, ClosedAsSigned
<1>9. SignedWasSpent'
  <2>1. ASSUME NEW c \in Closers, close[c].at \in {"totalled", "summed"}
        PROVE  close[c].total <= spent[WorkspaceOf(close[c].period)']
    BY <1>2, <1>5, <2>1 DEF Inv, Closing, SignedWasSpent
  <2>2. ASSUME NEW n \in 1 .. Len(snapshots)
        PROVE  /\ snapshots[n].period \in Ids /\ Exists(snapshots[n].period)'
               /\ snapshots[n].total \in Nat
               /\ snapshots[n].total <= spent[WorkspaceOf(snapshots[n].period)']
    BY <1>2, <1>5 DEF Inv, SignedWasSpent
  <2>3. QED  BY <1>2, <2>1, <2>2 DEF Inv, SignedWasSpent
<1>10. StillThere' /\ SignedTotalsGrow' /\ AcceptedIsCounted'
  BY <1>2 DEF Inv, StillThere, On, SignedTotalsGrow, AcceptedIsCounted
<1>11. QED
  BY <1>4, <1>6, <1>8, <1>9, <1>10 DEF Inv

\* The daily task looks at the workspaces and changes nothing else.
LEMMA ScanInv ==
  ASSUME Inv, NEW k \in Workers,
         StartScan(k) \/ AbortScan(k) \/ \E w \in Workspaces : LookAt(k, w)
  PROVE  Inv'
<1>1. DOMAIN scan' = Workers /\ \A j \in Workers : ScanShape(scan'[j])
  <2>1. DOMAIN scan = Workers /\ \A j \in Workers : ScanShape(scan[j])
    BY DEF Inv, Shapes
  <2>2. CASE StartScan(k)
    BY <2>1, <2>2 DEF StartScan, ScanShape
  <2>3. ASSUME NEW w \in Workspaces, LookAt(k, w)
        PROVE  DOMAIN scan' = Workers /\ \A j \in Workers : ScanShape(scan'[j])
    <3>1. ScanShape(NoScan)
      BY DEF ScanShape, NoScan
    <3>2. CASE Cardinality(PeriodsOf(w)) > 1
      BY <2>1, <2>3, <3>1, <3>2 DEF LookAt
    <3>3. CASE ~(Cardinality(PeriodsOf(w)) > 1)
      <4> DEFINE M == IF PeriodsOf(w) = {} THEN scan[k].missing \cup {w} ELSE scan[k].missing
                 r == [[scan[k] EXCEPT !.looked = @ \cup {w}] EXCEPT !.missing = M]
      <4>1. scan' = [scan EXCEPT ![k] = r]
        BY <2>1, <2>3, <3>3 DEF LookAt, ScanShape
      <4>2. M \subseteq Workspaces
        BY <2>1 DEF ScanShape
      <4>3. ScanShape(r)
        BY <2>1, <4>2 DEF ScanShape
      <4> HIDE DEF r
      <4>4. QED  BY <2>1, <4>1, <4>3
    <3>4. QED  BY <3>2, <3>3
  <2>4. CASE AbortScan(k)
    <3>1. ScanShape(NoScan)
      BY DEF ScanShape, NoScan
    <3>2. QED  BY <2>1, <2>4, <3>1 DEF AbortScan
  <2>5. QED  BY <2>2, <2>3, <2>4
<1>2. UNCHANGED <<period, spent, adjustment, snapshots, close, edit>>
  BY DEF StartScan, AbortScan, LookAt
<1>3. Shapes'
  BY <1>1, <1>2 DEF Inv, Shapes
<1>4. QED
  BY <1>2, <1>3 DEF Inv, Closing, Exists, Signed, ClosedAsSigned, SignedWasSpent, WorkspaceOf,
    StillThere, On, SignedTotalsGrow, AcceptedIsCounted

\* An editor has looked at the status of the period: nothing is written yet.
LEMMA BeginEditInv ==
  ASSUME Inv, NEW e \in Editors, NEW a \in Adjustments, NEW p \in Handled, BeginEdit(e, a, p)
  PROVE  Inv'
<1>1. p \in Ids
  BY IdsAssumption
<1>2. UNCHANGED <<period, spent, adjustment, snapshots, close, scan>>
  BY DEF BeginEdit
<1>3. PICK at \in {"add", "update"} :
        /\ edit' = [edit EXCEPT ![e] = [at |-> at, row |-> a, period |-> p]]
        /\ at = "update" => a \in On(p)
  BY DEF BeginEdit
<1>4. edit' \in [Editors -> [at : {"idle", "add", "update"},
                            row : Adjustments \cup {Null}, period : Ids \cup {Null}]]
  BY <1>1, <1>3 DEF Inv, Shapes
<1>5. Shapes'
  BY <1>2, <1>4 DEF Inv, Shapes
<1>6. StillThere'
  <2>1. ASSUME NEW f \in Editors, edit'[f].at # "idle"
        PROVE  /\ edit'[f].row \in Adjustments /\ edit'[f].period \in Ids
               /\ edit'[f].at = "update" =>
                    \/ adjustment[edit'[f].row].is = "deleted"
                    \/ adjustment[edit'[f].row].is = "there"
                       /\ adjustment[edit'[f].row].period = edit'[f].period
    <3>1. CASE f = e
      <4>1. edit'[e] = [at |-> at, row |-> a, period |-> p]
        BY <1>3 DEF Inv, Shapes
      <4>2. QED  BY <1>1, <1>3, <3>1, <4>1 DEF On
    <3>2. CASE f # e
      <4>1. edit'[f] = edit[f]
        BY <1>3, <3>2 DEF Inv, Shapes
      <4>2. QED  BY <2>1, <4>1 DEF Inv, StillThere
    <3>3. QED  BY <3>1, <3>2
  <2>2. QED  BY <1>2, <2>1 DEF Inv, StillThere, On
<1>7. QED
  BY <1>2, <1>5, <1>6 DEF Inv, Closing, Exists, Signed, ClosedAsSigned, SignedWasSpent,
    WorkspaceOf, SignedTotalsGrow, AcceptedIsCounted

\* An adjustment that is there stays on its period, or is deleted.
LEMMA AdjustmentInv ==
  ASSUME Inv,
         UNCHANGED <<period, spent, snapshots, close, scan>>,
         adjustment' \in [Adjustments ->
           [is : {"none", "there", "deleted"}, period : Ids \cup {Null},
            kind : Kinds, amount : Amounts \cup {0}]],
         edit' = edit \/ \E e \in Editors : edit' = [edit EXCEPT ![e] = NoEdit],
         \A a \in Adjustments :
           /\ adjustment[a].is = "deleted" => adjustment'[a].is = "deleted"
           /\ adjustment[a].is = "there" =>
                \/ adjustment'[a].is = "deleted"
                \/ adjustment'[a].is = "there" /\ adjustment'[a].period = adjustment[a].period
  PROVE  Inv'
<1>1. \A e \in Editors : edit'[e] = edit[e] \/ edit'[e] = NoEdit
  BY DEF Inv, Shapes
<1>2. Shapes'
  <2>1. NoEdit \in [at : {"idle", "add", "update"},
                   row : Adjustments \cup {Null}, period : Ids \cup {Null}]
    BY DEF NoEdit
  <2>2. edit' \in [Editors -> [at : {"idle", "add", "update"},
                              row : Adjustments \cup {Null}, period : Ids \cup {Null}]]
    BY <2>1 DEF Inv, Shapes
  <2>3. QED  BY <2>2 DEF Inv, Shapes
<1>3. StillThere'
  <2>1. ASSUME NEW e \in Editors, edit'[e].at # "idle"
        PROVE  /\ edit'[e].row \in Adjustments /\ edit'[e].period \in Ids
               /\ edit'[e].at = "update" =>
                    \/ adjustment'[edit'[e].row].is = "deleted"
                    \/ adjustment'[edit'[e].row].is = "there"
                       /\ adjustment'[edit'[e].row].period = edit'[e].period
    <3>1. edit'[e] = edit[e]
      BY <1>1, <2>1 DEF NoEdit
    <3>2. QED  BY <2>1, <3>1 DEF Inv, StillThere
  <2>2. ASSUME NEW c \in Closers, close[c].at # "idle", NEW a \in close[c].before
        PROVE  \/ adjustment'[a].is = "deleted"
               \/ a \in On(close[c].period)' /\ (close[c].at = "summed" => a \in close[c].counted)
    <3>1. a \in Adjustments
      BY <2>2 DEF Inv, Shapes, CloseShape
    <3>2. \/ adjustment[a].is = "deleted"
          \/ a \in On(close[c].period) /\ (close[c].at = "summed" => a \in close[c].counted)
      BY <2>2 DEF Inv, StillThere
    <3>3. QED  BY <3>1, <3>2 DEF On
  <2>3. QED  BY <2>1, <2>2 DEF StillThere
<1>4. QED
  BY <1>2, <1>3 DEF Inv, Closing, Exists, Signed, ClosedAsSigned, SignedWasSpent,
    WorkspaceOf, SignedTotalsGrow, AcceptedIsCounted

\* An adjustment is inserted or updated, maybe during a close of its period.
LEMMA FinishEditInv ==
  ASSUME Inv, NEW e \in Editors, NEW kind \in Kinds, NEW amount \in Amounts,
         FinishEdit(e, kind, amount)
  PROVE  Inv'
<1> DEFINE a == edit[e].row
           new == [is |-> "there", period |-> edit[e].period, kind |-> kind, amount |-> amount]
<1>1. /\ a \in Adjustments /\ edit[e].period \in Ids
      /\ edit[e].at = "update" =>
           \/ adjustment[a].is = "deleted"
           \/ adjustment[a].is = "there" /\ adjustment[a].period = edit[e].period
  BY DEF Inv, StillThere, FinishEdit
<1>2. \/ adjustment' = adjustment
      \/ /\ adjustment[a].is = IF edit[e].at = "add" THEN "none" ELSE "there"
         /\ adjustment' = [adjustment EXCEPT ![a] = new]
  BY DEF FinishEdit
<1>3. edit[e].at \in {"add", "update"}
  BY DEF Inv, Shapes, FinishEdit
<1>4. new \in [is : {"none", "there", "deleted"}, period : Ids \cup {Null},
              kind : Kinds, amount : Amounts \cup {0}]
  BY <1>1
<1>5. adjustment \in [Adjustments ->
         [is : {"none", "there", "deleted"}, period : Ids \cup {Null},
          kind : Kinds, amount : Amounts \cup {0}]]
  BY DEF Inv, Shapes
<1>6. adjustment' \in [Adjustments ->
         [is : {"none", "there", "deleted"}, period : Ids \cup {Null},
          kind : Kinds, amount : Amounts \cup {0}]]
  BY <1>2, <1>4, <1>5
<1>7. \A b \in Adjustments :
        /\ adjustment[b].is = "deleted" => adjustment'[b].is = "deleted"
        /\ adjustment[b].is = "there" =>
             \/ adjustment'[b].is = "deleted"
             \/ adjustment'[b].is = "there" /\ adjustment'[b].period = adjustment[b].period
  BY <1>1, <1>2, <1>3, <1>5
<1>8. /\ UNCHANGED <<period, spent, snapshots, close, scan>>
      /\ edit' = [edit EXCEPT ![e] = NoEdit]
  BY DEF FinishEdit
<1>9. QED
  BY <1>6, <1>7, <1>8, AdjustmentInv

\* An adjustment is deleted, maybe during a close of its period.
LEMMA DeleteAdjustmentInv ==
  ASSUME Inv, NEW a \in Adjustments, DeleteAdjustment(a)  PROVE Inv'
<1> DEFINE gone == [is |-> "deleted", period |-> Null, kind |-> "credit", amount |-> 0]
<1>1. adjustment \in [Adjustments ->
         [is : {"none", "there", "deleted"}, period : Ids \cup {Null},
          kind : Kinds, amount : Amounts \cup {0}]]
  BY DEF Inv, Shapes
<1>2. adjustment' = [adjustment EXCEPT ![a] = gone]
  BY DEF DeleteAdjustment
<1>3. gone \in [is : {"none", "there", "deleted"}, period : Ids \cup {Null},
               kind : Kinds, amount : Amounts \cup {0}]
  BY DEF Kinds
<1>4. adjustment' \in [Adjustments ->
         [is : {"none", "there", "deleted"}, period : Ids \cup {Null},
          kind : Kinds, amount : Amounts \cup {0}]]
  BY <1>1, <1>2, <1>3
<1>5. \A b \in Adjustments :
        /\ adjustment[b].is = "deleted" => adjustment'[b].is = "deleted"
        /\ adjustment[b].is = "there" =>
             \/ adjustment'[b].is = "deleted"
             \/ adjustment'[b].is = "there" /\ adjustment'[b].period = adjustment[b].period
  BY <1>1, <1>2
<1>6. UNCHANGED <<period, spent, snapshots, close, edit, scan>>
  BY DEF DeleteAdjustment
<1>7. QED
  BY <1>4, <1>5, <1>6, AdjustmentInv

-----------------------------------------------------------------------------
(* The steps of a close *)

\* What the record of a closer has to satisfy for the invariant to hold after
\* a step that writes nothing else.
LEMMA CloseInv ==
  ASSUME Inv, NEW c \in Closers, NEW r,
         UNCHANGED <<period, spent, adjustment, snapshots, edit, scan>>,
         close' = [close EXCEPT ![c] = r],
         CloseShape(r),
         r.at # "idle" => r.period \in Ids /\ Exists(r.period),
         r.at \in InLock => \A d \in Closers \ {c} :
           ~(close[d].at \in InLock /\ close[d].period = r.period),
         r.at \in {"totalled", "summed"} =>
           /\ r.total <= spent[WorkspaceOf(r.period)]
           /\ \A n \in 1 .. Len(snapshots) :
                snapshots[n].period = r.period => snapshots[n].total <= r.total,
         r.at # "idle" => \A a \in r.before :
           \/ adjustment[a].is = "deleted"
           \/ a \in On(r.period) /\ (r.at = "summed" => a \in r.counted)
  PROVE  Inv'
<1>1. DOMAIN close' = Closers /\ close'[c] = r /\ \A d \in Closers \ {c} : close'[d] = close[d]
  BY DEF Inv, Shapes
<1>2. Shapes'
  <2>1. \A d \in Closers : CloseShape(close'[d])
    BY <1>1 DEF Inv, Shapes
  <2>2. QED  BY <1>1, <2>1 DEF Inv, Shapes
<1>3. Closing'
  <2>1. \A d \in Closers : close'[d].at # "idle" =>
          close'[d].period \in Ids /\ Exists(close'[d].period)
    BY <1>1 DEF Inv, Closing
  <2>2. \A d, e \in Closers :
          close'[d].at \in InLock /\ close'[e].at \in InLock /\ close'[d].period = close'[e].period
            => d = e
    BY <1>1 DEF Inv, Closing
  <2>3. QED  BY <2>1, <2>2 DEF Closing, Exists
<1>4. SignedWasSpent'
  <2>1. \A d \in Closers : close'[d].at \in {"totalled", "summed"} =>
          /\ close'[d].total <= spent[WorkspaceOf(close'[d].period)]
          /\ \A n \in 1 .. Len(snapshots) :
               snapshots[n].period = close'[d].period => snapshots[n].total <= close'[d].total
    BY <1>1 DEF Inv, SignedWasSpent
  <2>2. QED  BY <2>1 DEF Inv, SignedWasSpent, WorkspaceOf, Exists
<1>5. StillThere'
  <2>1. \A d \in Closers : close'[d].at # "idle" => \A a \in close'[d].before :
          \/ adjustment[a].is = "deleted"
          \/ a \in On(close'[d].period) /\ (close'[d].at = "summed" => a \in close'[d].counted)
    BY <1>1 DEF Inv, StillThere
  <2>2. QED  BY <2>1 DEF Inv, StillThere, On
<1>6. Signed' /\ SignedTotalsGrow' /\ AcceptedIsCounted'
  BY DEF Inv, Signed, ClosedAsSigned, SignedTotalsGrow, AcceptedIsCounted
<1>7. QED
  BY <1>2, <1>3, <1>4, <1>5, <1>6 DEF Inv

\* A close that is not going on.
LEMMA NoCloseShape == CloseShape(NoClose) /\ NoClose.at = "idle"
  BY DEF CloseShape, NoClose

\* A close begins: what it has to count is what is there now.
LEMMA BeginCloseInv ==
  ASSUME Inv, NEW c \in Closers, NEW p \in Handled, BeginClose(c, p)  PROVE Inv'
<1> DEFINE r == [at |-> "read", period |-> p, total |-> 0, sums |-> NoClose.sums,
                 before |-> On(p), counted |-> {}]
<1>1. p \in Ids /\ Exists(p)
  BY IdsAssumption DEF BeginClose
<1>2. /\ UNCHANGED <<period, spent, adjustment, snapshots, edit, scan>>
      /\ close' = [close EXCEPT ![c] = r]
  BY DEF BeginClose
<1>3. CloseShape(r)
  BY DEF CloseShape, On
<1>4. /\ r.at = "read" /\ r.period = p /\ r.before = On(p)
      /\ r.at \notin InLock
  BY DEF InLock
<1> HIDE DEF r
<1>5. QED
  BY <1>1, <1>2, <1>3, <1>4, CloseInv

\* A close that fails is rolled back.
LEMMA AbortCloseInv ==
  ASSUME Inv, NEW c \in Closers, AbortClose(c)  PROVE Inv'
<1>1. NoClose.at \notin InLock
  BY NoCloseShape DEF InLock
<1>2. /\ UNCHANGED <<period, spent, adjustment, snapshots, edit, scan>>
      /\ close' = [close EXCEPT ![c] = NoClose]
  BY DEF AbortClose
<1>3. QED
  BY <1>1, <1>2, NoCloseShape, CloseInv

\* A close gets the lock of the period row, which no other has.
LEMMA MarkClosingInv ==
  ASSUME Inv, NEW c \in Closers, MarkClosing(c)  PROVE Inv'
<1> DEFINE r == [close[c] EXCEPT !.at = "locked"]
<1>1. CloseShape(close[c]) /\ close[c].at = "read"
  BY DEF Inv, Shapes, MarkClosing
<1>2. /\ UNCHANGED <<period, spent, adjustment, snapshots, edit, scan>>
      /\ close' = [close EXCEPT ![c] = r]
  BY DEF MarkClosing
<1>3. /\ r.at = "locked" /\ r.period = close[c].period /\ r.before = close[c].before
      /\ CloseShape(r)
  BY <1>1 DEF CloseShape, InLock
<1> HIDE DEF r
<1>4. r.period \in Ids /\ Exists(r.period)
  BY <1>1, <1>3 DEF Inv, Closing
<1>5. \A d \in Closers : ~(close[d].at \in InLock /\ close[d].period = r.period)
  BY <1>3 DEF MarkClosing, Locked, InLock
<1>6. \A a \in r.before : adjustment[a].is = "deleted" \/ a \in On(r.period)
  BY <1>1, <1>3 DEF Inv, StillThere
<1>7. QED
  BY <1>2, <1>3, <1>4, <1>5, <1>6, CloseInv

\* The sum is of now, so nothing signed is more than it.
LEMMA SumCallsInv ==
  ASSUME Inv, NEW c \in Closers, SumCalls(c)  PROVE Inv'
<1> DEFINE t == spent[WorkspaceOf(close[c].period)]
           r == [[close[c] EXCEPT !.at = "totalled"] EXCEPT !.total = t]
<1>1. CloseShape(close[c]) /\ close[c].at = "locked"
  BY DEF Inv, Shapes, SumCalls
<1>2. UNCHANGED <<period, spent, adjustment, snapshots, edit, scan>>
  BY DEF SumCalls
<1>3. close' = [close EXCEPT ![c] = r]
  BY <1>1 DEF Inv, Shapes, SumCalls, WorkspaceOf, CloseShape
<1>4. close[c].period \in Ids /\ Exists(close[c].period)
  BY <1>1 DEF Inv, Closing
<1>5. t \in Nat
  BY <1>4 DEF Inv, Shapes, PeriodShape, Exists, WorkspaceOf
<1>6. /\ r.at = "totalled" /\ r.period = close[c].period /\ r.before = close[c].before
      /\ r.total = t /\ CloseShape(r)
  BY <1>1, <1>5 DEF CloseShape, InLock
<1> HIDE DEF r
<1>7. \A d \in Closers \ {c} : ~(close[d].at \in InLock /\ close[d].period = r.period)
  BY <1>1, <1>6 DEF Inv, Closing, InLock
<1>8. /\ r.total <= spent[WorkspaceOf(r.period)]
      /\ \A n \in 1 .. Len(snapshots) :
           snapshots[n].period = r.period => snapshots[n].total <= r.total
  BY <1>5, <1>6 DEF Inv, SignedWasSpent
<1>9. \A a \in r.before : adjustment[a].is = "deleted" \/ a \in On(r.period)
  BY <1>1, <1>6 DEF Inv, StillThere
<1>10. QED
  BY <1>2, <1>3, <1>4, <1>6, <1>7, <1>8, <1>9, CloseInv

\* A close reads the adjustments once it has the lock.
LEMMA SumAdjustmentsInv ==
  ASSUME Inv, NEW c \in Closers, SumAdjustments(c)  PROVE Inv'
<1> DEFINE s == Sums(close[c].period)
           on == On(close[c].period)
           r == [[[close[c] EXCEPT !.at = "summed"] EXCEPT !.sums = s] EXCEPT !.counted = on]
<1>1. CloseShape(close[c]) /\ close[c].at = "totalled"
  BY DEF Inv, Shapes, SumAdjustments
<1>2. UNCHANGED <<period, spent, adjustment, snapshots, edit, scan>>
  BY DEF SumAdjustments
<1>3. close' = [close EXCEPT ![c] = r]
  <2>1. DOMAIN close = Closers
    BY DEF Inv, Shapes
  <2> HIDE DEF s, on
  <2>2. close' = [close EXCEPT ![c].at = "summed", ![c].sums = s, ![c].counted = on]
    BY DEF SumAdjustments, s, on
  <2>3. QED  BY <1>1, <2>1, <2>2 DEF CloseShape
<1>4. close[c].period \in Ids /\ Exists(close[c].period)
  BY <1>1 DEF Inv, Closing
<1>5. on \subseteq Adjustments
  BY DEF On
<1>6. /\ r.at = "summed" /\ r.period = close[c].period /\ r.before = close[c].before
      /\ r.total = close[c].total /\ r.counted = on /\ CloseShape(r)
  <2> HIDE DEF s, on
  <2>1. QED  BY <1>1, <1>5 DEF CloseShape, InLock
<1> HIDE DEF r
<1>7. \A d \in Closers \ {c} : ~(close[d].at \in InLock /\ close[d].period = r.period)
  BY <1>1, <1>6 DEF Inv, Closing, InLock
<1>8. /\ r.total <= spent[WorkspaceOf(r.period)]
      /\ \A n \in 1 .. Len(snapshots) :
           snapshots[n].period = r.period => snapshots[n].total <= r.total
  BY <1>1, <1>6 DEF Inv, SignedWasSpent
<1>9. \A a \in r.before :
        \/ adjustment[a].is = "deleted"
        \/ a \in On(r.period) /\ a \in r.counted
  BY <1>1, <1>6 DEF Inv, StillThere
<1>10. QED
  BY <1>2, <1>3, <1>4, <1>6, <1>7, <1>8, <1>9, CloseInv

\* The commit of a close: the row lock leaves no other close of the period with
\* a sum, so the snapshot it appends is the newest and the largest.
LEMMA CommitCloseInv ==
  ASSUME Inv, NEW c \in Closers, CommitClose(c)  PROVE Inv'
<1> DEFINE p == close[c].period
           x == Snapshot(c)
           n == Len(snapshots) + 1
<1>1. PICK S : snapshots \in Seq(S)
  BY DEF Inv, Shapes
<1>2. /\ snapshots' = Append(snapshots, x)
      /\ close' = [close EXCEPT ![c] = NoClose]
      /\ UNCHANGED <<spent, adjustment, edit, scan>>
      /\ close[c].at = "summed"
  BY DEF CommitClose
<1>3. /\ Len(snapshots) \in Nat /\ Len(snapshots') = n
      /\ \A m \in 1 .. Len(snapshots) : snapshots'[m] = snapshots[m]
      /\ snapshots'[n] = x
      /\ \E T : snapshots' \in Seq(T)
  <2> HIDE DEF x
  <2>1. /\ \E T : Append(snapshots, x) \in Seq(T)
        /\ Len(snapshots) \in Nat
        /\ Len(Append(snapshots, x)) = n
        /\ \A m \in 1 .. Len(snapshots) : Append(snapshots, x)[m] = snapshots[m]
        /\ Append(snapshots, x)[n] = x
    BY <1>1, AppendFacts
  <2>2. QED  BY <1>2, <2>1
<1>4. x.period = p /\ x.total = close[c].total /\ x.net = Net(c) /\ x.missed = {}
  <2>1. (close[c].before \cap On(p)) \ close[c].counted = {}
    BY <1>2 DEF Inv, StillThere, On
  <2>2. QED  BY <2>1 DEF Snapshot
<1> HIDE DEF x
<1>5. p \in Ids /\ Exists(p)
  BY <1>2 DEF Inv, Closing
<1>6. /\ DOMAIN period' = Ids
      /\ \A q \in Ids \ {p} : period'[q] = period[q]
      /\ DOMAIN period'[p] = DOMAIN period[p]
      /\ period'[p].workspace = period[p].workspace /\ period'[p].status = "closed"
      /\ period'[p].total = close[c].total /\ period'[p].net = Net(c)
      /\ period'[p].snapshot = n
  <2> DEFINE t == close[c].total
             w == Net(c)
             r == [[[[period[p] EXCEPT !.status = "closed"] EXCEPT !.total = t]
                    EXCEPT !.net = w] EXCEPT !.snapshot = n]
  <2>1. DOMAIN period = Ids /\ PeriodShape(period[p])
    BY <1>5 DEF Inv, Shapes
  <2> HIDE DEF t, w, n
  <2>2. period' = [period EXCEPT ![p].status = "closed", ![p].total = t,
                                 ![p].net = w, ![p].snapshot = n]
    BY DEF CommitClose, t, w, n
  <2> HIDE DEF p
  <2>3. period' = [period EXCEPT ![p] = r]
    BY <1>5, <2>1, <2>2 DEF PeriodShape
  <2>4. /\ DOMAIN r = DOMAIN period[p] /\ r.workspace = period[p].workspace
        /\ r.status = "closed" /\ r.total = t /\ r.net = w /\ r.snapshot = n
    BY <2>1 DEF PeriodShape
  <2> HIDE DEF r
  <2>5. QED  BY <1>5, <2>1, <2>3, <2>4 DEF t, w, p
<1>7. /\ DOMAIN close' = Closers /\ close'[c] = NoClose
      /\ \A d \in Closers \ {c} : close'[d] = close[d]
  BY <1>2 DEF Inv, Shapes
<1>8. Shapes'
  <2>1. \A q \in Ids : PeriodShape(period'[q])
    BY <1>5, <1>6 DEF Inv, Shapes, PeriodShape, Exists
  <2>2. \A d \in Closers : CloseShape(close'[d])
    BY <1>7, NoCloseShape DEF Inv, Shapes
  <2>3. QED  BY <1>2, <1>3, <1>6, <1>7, <2>1, <2>2 DEF Inv, Shapes
<1>9. \A q \in Ids : Exists(q) =>
        /\ period'[q].status # "none"
        /\ period'[q].workspace = WorkspaceOf(q)
  BY <1>5, <1>6 DEF Exists, WorkspaceOf
<1>10. \A d \in Closers : close'[d].at # "idle" => d # c /\ close'[d] = close[d]
  BY <1>7, NoCloseShape
<1>11. Closing'
  BY <1>7, <1>9, <1>10, NoCloseShape DEF Inv, Closing, InLock, Exists
<1>12. Signed'
  <2>1. ASSUME NEW q \in Ids, period'[q].status = "closed"
        PROVE  LET k == period'[q].snapshot
               IN /\ k \in 1 .. n /\ snapshots'[k].period = q
                  /\ snapshots'[k].total = period'[q].total /\ snapshots'[k].net = period'[q].net
                  /\ \A m \in k + 1 .. n : snapshots'[m].period # q
    <3>1. CASE q = p
      BY <1>3, <1>4, <1>6, <3>1
    <3>2. CASE q # p
      <4>1. period'[q] = period[q]
        BY <1>6, <3>2
      <4> DEFINE k == period[q].snapshot
      <4>2. /\ k \in 1 .. Len(snapshots) /\ snapshots[k].period = q
            /\ snapshots[k].total = period[q].total /\ snapshots[k].net = period[q].net
            /\ \A m \in k + 1 .. Len(snapshots) : snapshots[m].period # q
        BY <2>1, <4>1 DEF Inv, Signed, ClosedAsSigned
      <4> HIDE DEF k
      <4>3. \A m \in k + 1 .. n : snapshots'[m].period # q
        BY <1>3, <1>4, <3>2, <4>2
      <4>4. QED  BY <1>3, <4>1, <4>2, <4>3 DEF k
    <3>3. QED  BY <3>1, <3>2
  <2>2. QED  BY <1>3, <2>1 DEF Signed, ClosedAsSigned
<1>13. close[c].total \in Nat /\ close[c].total <= spent[WorkspaceOf(p)]
  BY <1>2 DEF Inv, Shapes, CloseShape, SignedWasSpent
<1>14. \A m \in 1 .. n :
         \/ m = n /\ snapshots'[m] = x
         \/ m \in 1 .. Len(snapshots) /\ snapshots'[m] = snapshots[m]
  BY <1>3
<1>15. SignedWasSpent'
  <2>1. ASSUME NEW m \in 1 .. n
        PROVE  /\ snapshots'[m].period \in Ids /\ period'[snapshots'[m].period].status # "none"
               /\ snapshots'[m].total \in Nat
               /\ snapshots'[m].total <= spent[period'[snapshots'[m].period].workspace]
    <3>1. CASE m = n /\ snapshots'[m] = x
      BY <1>4, <1>5, <1>9, <1>13, <3>1
    <3>2. CASE m \in 1 .. Len(snapshots) /\ snapshots'[m] = snapshots[m]
      BY <1>9, <3>2 DEF Inv, SignedWasSpent
    <3>3. QED  BY <1>14, <3>1, <3>2
  <2>2. ASSUME NEW d \in Closers, close'[d].at \in {"totalled", "summed"}
        PROVE  /\ close'[d].total <= spent[period'[close'[d].period].workspace]
               /\ \A m \in 1 .. n :
                    snapshots'[m].period = close'[d].period => snapshots'[m].total <= close'[d].total
    <3>1. d # c /\ close'[d] = close[d]
      BY <1>10, <2>2
    <3>2. close[d].period # p /\ close[d].period \in Ids /\ Exists(close[d].period)
      BY <1>2, <2>2, <3>1 DEF Inv, Closing, InLock
    <3>3. close[d].total <= spent[period'[close[d].period].workspace]
      BY <1>9, <2>2, <3>1, <3>2 DEF Inv, SignedWasSpent
    <3>4. \A m \in 1 .. n :
            snapshots'[m].period = close[d].period => snapshots'[m].total <= close[d].total
      BY <1>4, <1>14, <2>2, <3>1, <3>2 DEF Inv, SignedWasSpent
    <3>5. QED  BY <3>1, <3>3, <3>4
  <2>3. QED  BY <1>2, <1>3, <2>1, <2>2 DEF SignedWasSpent, Exists, WorkspaceOf
<1>16. StillThere'
  <2>1. \A d \in Closers : close'[d].at # "idle" => \A a \in close'[d].before :
          \/ adjustment[a].is = "deleted"
          \/ a \in On(close'[d].period) /\ (close'[d].at = "summed" => a \in close'[d].counted)
    BY <1>10 DEF Inv, StillThere
  <2>2. QED  BY <1>2, <2>1 DEF Inv, StillThere, On
<1>17. SignedTotalsGrow'
  <2>1. ASSUME NEW i \in 1 .. n, NEW m \in 1 .. i, snapshots'[m].period = snapshots'[i].period
        PROVE  snapshots'[m].total <= snapshots'[i].total
    <3>1. CASE i = n /\ snapshots'[i] = x
      <4>1. m \in 1 .. n
        BY <1>3
      <4>2. CASE m = n /\ snapshots'[m] = x
        BY <1>4, <1>13, <3>1, <4>2
      <4>3. CASE m \in 1 .. Len(snapshots) /\ snapshots'[m] = snapshots[m]
        BY <1>2, <1>4, <2>1, <3>1, <4>3 DEF Inv, SignedWasSpent
      <4>4. QED  BY <1>14, <4>1, <4>2, <4>3
    <3>2. CASE i \in 1 .. Len(snapshots) /\ snapshots'[i] = snapshots[i]
      <4>1. m \in 1 .. Len(snapshots) /\ snapshots'[m] = snapshots[m]
        BY <1>3, <3>2
      <4>2. QED  BY <2>1, <3>2, <4>1 DEF Inv, SignedTotalsGrow
    <3>3. QED  BY <1>14, <3>1, <3>2
  <2>2. QED  BY <1>3, <2>1 DEF SignedTotalsGrow
<1>18. AcceptedIsCounted'
  BY <1>3, <1>4, <1>14 DEF Inv, AcceptedIsCounted
<1>19. QED
  BY <1>8, <1>11, <1>12, <1>15, <1>16, <1>17, <1>18 DEF Inv

-----------------------------------------------------------------------------
\* Every step keeps the inductive invariant.
LEMMA NextInv == Inv /\ [Next]_vars => Inv'
<1> SUFFICES ASSUME Inv, [Next]_vars PROVE Inv'
  OBVIOUS
<1>1. ASSUME NEW w \in Workspaces, Spend(w) PROVE Inv'
  BY <1>1, SpendInv
<1>2. CASE \/ \E p \in Ids, w \in Workspaces : CreatePeriod(p, w)
           \/ \E k \in Workers : FinishScan(k)
  BY <1>2, PeriodInv
<1>3. CASE \E k \in Workers :
            StartScan(k) \/ AbortScan(k) \/ \E w \in Workspaces : LookAt(k, w)
  BY <1>3, ScanInv
<1>4. ASSUME NEW e \in Editors, NEW a \in Adjustments, NEW p \in Handled, BeginEdit(e, a, p)
      PROVE  Inv'
  BY <1>4, BeginEditInv
<1>5. ASSUME NEW e \in Editors, NEW kind \in Kinds, NEW amount \in Amounts,
             FinishEdit(e, kind, amount)
      PROVE  Inv'
  BY <1>5, FinishEditInv
<1>6. ASSUME NEW a \in Adjustments, DeleteAdjustment(a) PROVE Inv'
  BY <1>6, DeleteAdjustmentInv
<1>7. ASSUME NEW c \in Closers, NEW p \in Handled, BeginClose(c, p) PROVE Inv'
  BY <1>7, BeginCloseInv
<1>8. ASSUME NEW c \in Closers,
             MarkClosing(c) \/ SumCalls(c) \/ SumAdjustments(c) \/ CommitClose(c) \/ AbortClose(c)
      PROVE  Inv'
  BY <1>8, MarkClosingInv, SumCallsInv, SumAdjustmentsInv, CommitCloseInv, AbortCloseInv
<1>9. CASE UNCHANGED vars
  <2>1. Shapes' /\ Closing'
    BY <1>9 DEF vars, Inv, Shapes, Closing, Exists
  <2>2. Signed' /\ SignedWasSpent' /\ StillThere'
    BY <1>9 DEF vars, Inv, Signed, ClosedAsSigned, SignedWasSpent, WorkspaceOf, Exists,
      StillThere, On
  <2>3. SignedTotalsGrow' /\ AcceptedIsCounted'
    BY <1>9 DEF vars, Inv, SignedTotalsGrow, AcceptedIsCounted
  <2>4. QED  BY <2>1, <2>2, <2>3 DEF Inv
<1>10. QED
  BY <1>1, <1>2, <1>3, <1>4, <1>5, <1>6, <1>7, <1>8, <1>9 DEF Next

\* The inductive invariant holds: every step keeps it (Init, Next).
THEOREM Invariance == Spec => []Inv
<1>1. Init => Inv
  BY InitInv
<1>2. Inv /\ [Next]_vars => Inv'
  BY NextInv
<1>3. QED
  BY <1>1, <1>2, PTL DEF Spec

\* A closed period shows the figures of its last signed snapshot, for any number
\* of closers, editors and runs of the daily task (close_billing_period).
THEOREM ClosedPeriodsShowWhatWasSigned == Spec => []ClosedAsSigned
<1>1. Inv => ClosedAsSigned
  BY DEF Inv, Signed
<1>2. QED
  BY <1>1, Invariance, PTL

\* No later snapshot of a period is of less spend: the row lock that the first
\* UPDATE of a close takes orders the sums as it orders the commits.
THEOREM LaterSnapshotsAreNotLess == Spec => []SignedTotalsGrow
<1>1. Inv => SignedTotalsGrow
  BY DEF Inv
<1>2. QED
  BY <1>1, Invariance, PTL

\* Every adjustment that a close found accepted when it began is in its snapshot,
\* unless it was deleted before the commit.
THEOREM ClosesCountWhatWasAccepted == Spec => []AcceptedIsCounted
<1>1. Inv => AcceptedIsCounted
  BY DEF Inv
<1>2. QED
  BY <1>1, Invariance, PTL
-----------------------------------------------------------------------------
(* Types: on top of the invariant, the numbers. *)

\* What is missing has been looked at.
Scanned(r) == r.at \in {"idle", "scanning"} /\ r.missing \subseteq r.looked

\* What a period shows, what a close has summed, and what a run has found.
Figures ==
  /\ \A p \in Ids :
       /\ period[p].workspace \in Workspaces \cup {Null}
       /\ period[p].total \in Nat /\ period[p].net \in Nat
       /\ period[p].snapshot \in 0 .. Len(snapshots)
  /\ spent \in [Workspaces -> 0 .. MaxSpend]
  /\ Len(snapshots) <= MaxCloses
  /\ \A c \in Closers : close[c].sums \in [Kinds -> Nat]
  /\ \A k \in Workers : Scanned(scan[k])

\* The adjustments of a period add up to a number of each kind.
LEMMA SumsAreNat ==
  ASSUME Shapes, NEW p
  PROVE  Sums(p) \in [Kinds -> Nat]
<1> DEFINE f == [a \in Adjustments |-> adjustment[a].amount]
           S(k) == {a \in On(p) : adjustment[a].kind = k}
<1>1. \A k \in Kinds : IsFiniteSet(S(k)) /\ S(k) \subseteq Adjustments
  BY AmountsAssumption, FS_Subset DEF On
<1>2. \A a \in Adjustments : f[a] \in Nat
  <2>1. \A a \in Adjustments : adjustment[a].amount \in Amounts \cup {0}
    BY DEF Shapes
  <2>2. Amounts \cup {0} \subseteq Nat
    BY AmountsAssumption
  <2>3. SUFFICES ASSUME NEW a \in Adjustments  PROVE f[a] \in Nat
    OBVIOUS
  <2>4. f[a] = adjustment[a].amount
    OBVIOUS
  <2> HIDE DEF f
  <2>5. QED  BY <2>1, <2>2, <2>4
<1>3. Sums(p) = [k \in Kinds |-> SumFunctionOnSet(f, S(k))]
  BY DEF Sums
<1> HIDE DEF f, S
<1>4. \A k \in Kinds : SumFunctionOnSet(f, S(k)) \in Nat
  BY <1>1, <1>2, SumIsNat
<1>5. QED  BY <1>3, <1>4

\* The net of a period is not negative, however large its credits are.
LEMMA NetIsNat ==
  ASSUME NEW c \in Closers, close[c].total \in Nat, close[c].sums \in [Kinds -> Nat]
  PROVE  Net(c) \in Nat
<1> DEFINE x == close[c].total - close[c].sums["credit"] + close[c].sums["surcharge"]
<1>1. close[c].sums["credit"] \in Nat /\ close[c].sums["surcharge"] \in Nat
  BY DEF Kinds
<1>2. x \in Int
  BY <1>1
<1>3. Net(c) = Max({x, 0})
  BY DEF Net
<1> HIDE DEF x
<1>4. Max({x, 0}) \in {x, 0} /\ \A y \in {x, 0} : Max({x, 0}) >= y
  <2>1. \E m \in {x, 0} : \A y \in {x, 0} : m >= y
    <3>1. CASE x >= 0
      BY <1>2, <3>1
    <3>2. CASE ~(x >= 0)
      BY <1>2, <3>2
    <3>3. QED  BY <3>1, <3>2
  <2>2. QED  BY <2>1 DEF Max
<1>5. QED  BY <1>2, <1>3, <1>4

\* They hold at the start.
LEMMA InitFigures == Init => Figures
<1> SUFFICES ASSUME Init  PROVE Figures
  OBVIOUS
<1>1. Len(snapshots) = 0
  BY DEF Init
<1>2. \A p \in Ids : period[p] = None
  BY DEF Init
<1>3. spent \in [Workspaces -> 0 .. MaxSpend]
  BY AmountsAssumption DEF Init
<1>4. \A c \in Closers : close[c].sums \in [Kinds -> Nat]
  BY DEF Init, NoClose
<1>5. \A k \in Workers : Scanned(scan[k])
  BY DEF Init, NoScan, Scanned
<1>6. QED  BY <1>1, <1>2, <1>3, <1>4, <1>5, AmountsAssumption DEF Figures, None

\* New periods have no figures yet, and a scan finds what it has looked at.
LEMMA PeriodFigures ==
  ASSUME Inv, Figures,
         \/ \E p \in Ids, w \in Workspaces : CreatePeriod(p, w)
         \/ \E k \in Workers : FinishScan(k)
  PROVE  Figures'
<1>1. /\ \A p \in Ids : Exists(p) => period'[p] = period[p]
      /\ \A p \in Ids : ~Exists(p) =>
           period'[p] = period[p] \/ \E w \in Workspaces : period'[p] = Open(w)
  BY NewPeriods DEF Inv
<1>2. UNCHANGED <<spent, snapshots, close>>
  BY DEF CreatePeriod, FinishScan
<1>3. \A k \in Workers : scan'[k] = scan[k] \/ scan'[k] = NoScan
  BY DEF CreatePeriod, FinishScan, Inv, Shapes
<1>4. Len(snapshots) \in Nat
  <2>1. PICK S : snapshots \in Seq(S)
    BY DEF Inv, Shapes
  <2>2. QED  BY <2>1
<1>5. ASSUME NEW p \in Ids
      PROVE  /\ period'[p].workspace \in Workspaces \cup {Null}
             /\ period'[p].total \in Nat /\ period'[p].net \in Nat
             /\ period'[p].snapshot \in 0 .. Len(snapshots)
  <2>1. CASE period'[p] = period[p]
    BY <2>1 DEF Figures
  <2>2. ASSUME NEW w \in Workspaces, period'[p] = Open(w)
        PROVE  /\ period'[p].workspace \in Workspaces \cup {Null}
               /\ period'[p].total \in Nat /\ period'[p].net \in Nat
               /\ period'[p].snapshot \in 0 .. Len(snapshots)
    BY <1>4, <2>2 DEF Open
  <2>3. QED  BY <1>1, <2>1, <2>2
<1>6. \A k \in Workers : Scanned(scan'[k])
  BY <1>3 DEF Figures, NoScan, Scanned
<1>7. QED  BY <1>2, <1>5, <1>6 DEF Figures

\* A workspace that is missing has been looked at.
LEMMA ScanFigures ==
  ASSUME Inv, Figures, NEW k \in Workers,
         StartScan(k) \/ AbortScan(k) \/ \E w \in Workspaces : LookAt(k, w)
  PROVE  Figures'
<1>1. UNCHANGED <<period, spent, snapshots, close>>
  BY DEF StartScan, AbortScan, LookAt
<1>2. DOMAIN scan = Workers /\ ScanShape(scan[k]) /\ Scanned(scan[k])
  BY DEF Inv, Shapes, Figures
<1>3. \E r : scan' = [scan EXCEPT ![k] = r] /\ Scanned(r)
  <2>1. CASE StartScan(k)
    <3> DEFINE r == [scan[k] EXCEPT !.at = "scanning"]
    <3>1. scan' = [scan EXCEPT ![k] = r]
      BY <2>1 DEF StartScan
    <3>2. Scanned(r)
      BY <1>2 DEF ScanShape, Scanned
    <3>3. QED  BY <3>1, <3>2
  <2>2. ASSUME NEW w \in Workspaces, LookAt(k, w)
        PROVE  \E r : scan' = [scan EXCEPT ![k] = r] /\ Scanned(r)
    <3>1. CASE Cardinality(PeriodsOf(w)) > 1
      <4>1. scan' = [scan EXCEPT ![k] = NoScan]
        BY <2>2, <3>1 DEF LookAt
      <4>2. Scanned(NoScan)
        BY DEF NoScan, Scanned
      <4>3. QED  BY <4>1, <4>2
    <3>2. CASE ~(Cardinality(PeriodsOf(w)) > 1)
      <4> DEFINE M == IF PeriodsOf(w) = {} THEN scan[k].missing \cup {w} ELSE scan[k].missing
                 r == [[scan[k] EXCEPT !.looked = @ \cup {w}] EXCEPT !.missing = M]
      <4>1. scan' = [scan EXCEPT ![k] = r]
        BY <1>2, <2>2, <3>2 DEF LookAt, ScanShape
      <4>2. r.at = scan[k].at /\ r.missing = M /\ r.looked = scan[k].looked \cup {w}
        BY <1>2 DEF ScanShape
      <4>3. scan[k].at \in {"idle", "scanning"} /\ M \subseteq scan[k].looked \cup {w}
        BY <1>2 DEF Scanned
      <4> HIDE DEF r, M
      <4>4. QED  BY <4>1, <4>2, <4>3 DEF Scanned
    <3>3. QED  BY <3>1, <3>2
  <2>3. CASE AbortScan(k)
    <3>1. Scanned(NoScan)
      BY DEF NoScan, Scanned
    <3>2. QED  BY <2>3, <3>1 DEF AbortScan
  <2>4. QED  BY <2>1, <2>2, <2>3
<1>4. \A j \in Workers : Scanned(scan'[j])
  BY <1>2, <1>3 DEF Figures
<1>5. QED  BY <1>1, <1>4 DEF Figures

\* A close that commits nothing: its sums are numbers.
LEMMA CloseFigures ==
  ASSUME Inv, Figures, NEW c \in Closers,
         \/ \E p \in Handled : BeginClose(c, p)
         \/ MarkClosing(c) \/ SumCalls(c) \/ SumAdjustments(c) \/ AbortClose(c)
  PROVE  Figures'
<1>1. UNCHANGED <<period, spent, snapshots, scan>>
  BY DEF BeginClose, MarkClosing, SumCalls, SumAdjustments, AbortClose
<1>2. DOMAIN close = Closers /\ CloseShape(close[c]) /\ close[c].sums \in [Kinds -> Nat]
  BY DEF Inv, Shapes, Figures
<1>3. NoClose.sums \in [Kinds -> Nat]
  BY DEF NoClose
<1>4. Sums(close[c].period) \in [Kinds -> Nat]
  BY SumsAreNat DEF Inv
<1>5. close'[c].sums \in {NoClose.sums, close[c].sums, Sums(close[c].period)}
      /\ \A d \in Closers \ {c} : close'[d] = close[d]
  <2>1. CASE \E p \in Handled : BeginClose(c, p)
    BY <1>2, <2>1 DEF BeginClose
  <2>2. CASE MarkClosing(c) \/ SumCalls(c)
    BY <1>2, <2>2 DEF MarkClosing, SumCalls, CloseShape
  <2>3. CASE AbortClose(c)
    BY <1>2, <2>3 DEF AbortClose
  <2>4. CASE SumAdjustments(c)
    <3> DEFINE s == Sums(close[c].period)
               on == On(close[c].period)
    <3>1. close' = [close EXCEPT ![c].at = "summed", ![c].sums = s, ![c].counted = on]
      BY <2>4 DEF SumAdjustments
    <3>2. close'[c].sums = s /\ \A d \in Closers \ {c} : close'[d] = close[d]
      <4> HIDE DEF s, on
      <4>1. QED  BY <1>2, <3>1 DEF CloseShape
    <3>3. QED  BY <3>2
  <2>5. QED  BY <2>1, <2>2, <2>3, <2>4
<1>6. \A d \in Closers : close'[d].sums \in [Kinds -> Nat]
  BY <1>2, <1>3, <1>4, <1>5 DEF Figures
<1>7. QED  BY <1>1, <1>6 DEF Figures

\* A close that commits: the period's figures are numbers, and its snapshot is
\* the one that is appended.
LEMMA CommitFigures ==
  ASSUME Inv, Figures, NEW c \in Closers, CommitClose(c)
  PROVE  Figures'
<1> DEFINE p == close[c].period
           n == Len(snapshots) + 1
           t == close[c].total
           w == Net(c)
           x == Snapshot(c)
<1>1. PICK S : snapshots \in Seq(S)
  BY DEF Inv, Shapes
<1>2. DOMAIN close = Closers /\ CloseShape(close[c]) /\ close[c].sums \in [Kinds -> Nat]
  BY DEF Inv, Shapes, Figures
<1>3. p \in Ids /\ t \in Nat
  BY <1>2 DEF CommitClose, Inv, Closing, CloseShape
<1>4. w \in Nat
  BY <1>2, <1>3, NetIsNat
<1>5. DOMAIN period = Ids /\ \A q \in Ids : PeriodShape(period[q])
  BY DEF Inv, Shapes
<1> HIDE DEF x, w, t
<1>6. Len(snapshots) \in Nat /\ Len(Append(snapshots, x)) = n
  BY <1>1, AppendFacts
<1>7. /\ snapshots' = Append(snapshots, x) /\ Len(snapshots) < MaxCloses
      /\ close' = [close EXCEPT ![c] = NoClose]
      /\ UNCHANGED <<spent, scan>>
  BY DEF CommitClose, x
<1>8. period' = [period EXCEPT ![p].status = "closed", ![p].total = t,
                               ![p].net = w, ![p].snapshot = n]
  BY DEF CommitClose, t, w
<1> HIDE DEF p, n
<1>9. ASSUME NEW q \in Ids
      PROVE  /\ period'[q].workspace \in Workspaces \cup {Null}
             /\ period'[q].total \in Nat /\ period'[q].net \in Nat
             /\ period'[q].snapshot \in 0 .. n
  <2>1. CASE q = p
    <3>1. /\ period'[p].workspace = period[p].workspace
          /\ period'[p].total = t /\ period'[p].net = w /\ period'[p].snapshot = n
      BY <1>3, <1>5, <1>8 DEF PeriodShape
    <3>2. n \in 0 .. n
      BY <1>6 DEF n
    <3>3. QED  BY <1>3, <1>4, <2>1, <3>1, <3>2 DEF Figures
  <2>2. CASE q # p
    <3>1. period'[q] = period[q]
      BY <1>5, <1>8, <2>2
    <3>2. period[q].snapshot \in 0 .. n
      BY <1>6 DEF Figures, n
    <3>3. QED  BY <3>1, <3>2 DEF Figures
  <2>3. QED  BY <2>1, <2>2
<1>10. Len(snapshots') = n /\ n <= MaxCloses
  BY <1>6, <1>7, AmountsAssumption DEF n
<1>11. \A d \in Closers : close'[d].sums \in [Kinds -> Nat]
  BY <1>2, <1>7 DEF Figures, NoClose
<1>12. QED  BY <1>7, <1>9, <1>10, <1>11 DEF Figures

\* Every step keeps the figures.
LEMMA NextFigures == Inv /\ Figures /\ [Next]_vars => Figures'
<1> SUFFICES ASSUME Inv, Figures, [Next]_vars  PROVE Figures'
  OBVIOUS
<1>1. ASSUME NEW w \in Workspaces, Spend(w)  PROVE Figures'
  <2>1. spent' \in [Workspaces -> 0 .. MaxSpend]
    BY <1>1, AmountsAssumption DEF Spend, Figures
  <2>2. QED  BY <1>1, <2>1 DEF Spend, Figures
<1>2. CASE UNCHANGED <<period, spent, snapshots, close, scan>>
  BY <1>2 DEF Figures
<1>3. CASE \/ \E e \in Editors, a \in Adjustments, p \in Handled : BeginEdit(e, a, p)
           \/ \E e \in Editors, kind \in Kinds, amount \in Amounts : FinishEdit(e, kind, amount)
           \/ \E a \in Adjustments : DeleteAdjustment(a)
           \/ UNCHANGED vars
  BY <1>2, <1>3 DEF BeginEdit, FinishEdit, DeleteAdjustment, vars
<1>4. QED
  BY <1>1, <1>3, PeriodFigures, ScanFigures, CloseFigures, CommitFigures DEF Next

\* Periods, adjustments and closes keep their forms for any number of closers
\* and editors, and no period shows a negative net (net_cost_usd).
THEOREM TypeCorrect == Spec => []TypeOK
<1>1. ASSUME Inv, Figures  PROVE TypeOK
  <2>1. \A p \in Ids : period[p].status \in {"none", "open", "closed"}
    BY <1>1 DEF Inv, Shapes, PeriodShape
  <2>2. \A c \in Closers : close[c].at \in {"idle", "read", "locked", "totalled", "summed"}
    BY <1>1 DEF Inv, Shapes, CloseShape, InLock
  <2>3. \A e \in Editors : edit[e].at \in {"idle", "add", "update"}
    BY <1>1 DEF Inv, Shapes
  <2>4. \A k \in Workers : Scanned(scan[k])
    BY <1>1 DEF Figures
  <2>5. adjustment \in [Adjustments ->
          [is : {"none", "there", "deleted"}, period : Ids \cup {Null},
           kind : Kinds, amount : Amounts \cup {0}]]
    BY <1>1 DEF Inv, Shapes
  <2>6. QED  BY <1>1, <2>1, <2>2, <2>3, <2>4, <2>5 DEF Figures, TypeOK, Scanned
<1>2. QED  BY <1>1, InitInv, NextInv, InitFigures, NextFigures, PTL DEF Spec
=============================================================================
