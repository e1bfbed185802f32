--------------------------- MODULE BillingPeriods ---------------------------
(* Billing periods of one month (services/billing.py, routers/billing.py,    *)
(* workers/billing.py): they are created by hand or by the daily task, get   *)
(* adjustments, and are closed into a signed snapshot.                       *)
(*                                                                           *)
(* A close is one READ COMMITTED transaction.  Its first UPDATE locks the    *)
(* period's row until it ends, the rows of billing_adjustments are free, and *)
(* nothing of it is seen before its commit.                                  *)
EXTENDS Integers, FiniteSets, FiniteSetsExt, Sequences, SequencesExt

CONSTANTS
  Workspaces,
  Ids,         \* rows that billing_periods may get
  Handled,     \* bound: the periods that are adjusted and closed
  Adjustments, \* rows that billing_adjustments may get
  Closers,     \* concurrent requests to close
  Editors,     \* concurrent requests to add or change an adjustment
  Workers,     \* concurrent runs of auto_create_billing_periods
  Amounts,     \* amount_usd of an adjustment
  MaxSpend,    \* bound on what a workspace spends
  MaxCloses,   \* bound on closes
  Null

Kinds == {"credit", "surcharge"}

ASSUME AmountsAssumption == /\ IsFiniteSet(Adjustments) /\ Amounts \subseteq Nat
                            /\ MaxSpend \in Nat /\ MaxCloses \in Nat
ASSUME IdsAssumption     == Handled \subseteq Ids /\ Null \notin Ids

VARIABLES
  period,     \* billing_periods
  spent,      \* SUM(provider_calls.cost_usd) of the month
  adjustment, \* billing_adjustments
  snapshots,  \* usage_snapshots, in the order of their commits
  close,      \* the transaction of each closer
  edit,       \* what each editor has read
  scan        \* what each run of the daily task has found

vars == <<period, spent, adjustment, snapshots, close, edit, scan>>

None == [workspace |-> Null, status |-> "none", total |-> 0, net |-> 0, snapshot |-> 0]
Open(w) == [workspace |-> w, status |-> "open", total |-> 0, net |-> 0, snapshot |-> 0]
NoAdjustment == [is |-> "none", period |-> Null, kind |-> "credit", amount |-> 0]
NoClose == [at |-> "idle", period |-> Null, total |-> 0, sums |-> [k \in Kinds |-> 0],
            before |-> {}, counted |-> {}]
NoEdit  == [at |-> "idle", row |-> Null, period |-> Null]
NoScan  == [at |-> "idle", looked |-> {}, missing |-> {}]

Exists(p) == period[p].status # "none"
PeriodsOf(w) == {p \in Ids : period[p].workspace = w}

\* The adjustments of a period.
On(p) == {a \in Adjustments : adjustment[a].is = "there" /\ adjustment[a].period = p}

\* SUM(amount_usd) ... GROUP BY adjustment_type; refunds and prepaid deductions
\* count as credits.
Sums(p) == [k \in Kinds |->
  SumFunctionOnSet([a \in Adjustments |-> adjustment[a].amount],
                   {a \in On(p) : adjustment[a].kind = k})]

TypeOK ==
  /\ \A p \in Ids :
       /\ period[p].workspace \in Workspaces \cup {Null}
       /\ period[p].status \in {"none", "open", "closed"}
       /\ period[p].total \in Nat /\ period[p].net \in Nat
       /\ period[p].snapshot \in 0 .. Len(snapshots)
  /\ spent \in [Workspaces -> 0 .. MaxSpend]
  /\ adjustment \in [Adjustments ->
       [is : {"none", "there", "deleted"}, period : Ids \cup {Null},
        kind : Kinds, amount : Amounts \cup {0}]]
  /\ Len(snapshots) <= MaxCloses
  /\ \A c \in Closers :
       close[c].at \in {"idle", "read", "locked", "totalled", "summed"}
  /\ \A e \in Editors : edit[e].at \in {"idle", "add", "update"}
  /\ \A w \in Workers :
       scan[w].at \in {"idle", "scanning"} /\ scan[w].missing \subseteq scan[w].looked

Init ==
  /\ period = [p \in Ids |-> None]
  /\ spent = [w \in Workspaces |-> 0]
  /\ adjustment = [a \in Adjustments |-> NoAdjustment]
  /\ snapshots = <<>>
  /\ close = [c \in Closers |-> NoClose]
  /\ edit = [e \in Editors |-> NoEdit]
  /\ scan = [w \in Workers |-> NoScan]

\* Metering prices calls of the month, before and after it is closed.
Spend(w) ==
  /\ spent[w] < MaxSpend
  /\ spent' = [spent EXCEPT ![w] = @ + 1]
  /\ UNCHANGED <<period, adjustment, snapshots, close, edit, scan>>

-----------------------------------------------------------------------------
(* Creating periods *)

\* POST /billing/periods: no row is unique but by its id.
CreatePeriod(p, w) ==
  /\ ~Exists(p)
  /\ period' = [period EXCEPT ![p] = Open(w)]
  /\ UNCHANGED <<spent, adjustment, snapshots, close, edit, scan>>

StartScan(k) ==
  /\ scan[k].at = "idle"
  /\ scan' = [scan EXCEPT ![k].at = "scanning"]
  /\ UNCHANGED <<period, spent, adjustment, snapshots, close, edit>>

\* Mutant: the run ends at the first workspace that has a period.
LookAt_returns(k, w) ==
  /\ scan[k].at = "scanning" /\ w \notin scan[k].looked
  /\ scan' = IF PeriodsOf(w) # {} THEN [scan EXCEPT ![k] = NoScan]
             ELSE [scan EXCEPT ![k].looked = @ \cup {w}, ![k].missing = @ \cup {w}]
  /\ UNCHANGED <<period, spent, adjustment, snapshots, close, edit>>

\* scalar_one_or_none: two rows are an error, which ends the run.
LookAt(k, w) ==
  /\ scan[k].at = "scanning" /\ w \notin scan[k].looked
  /\ scan' = IF Cardinality(PeriodsOf(w)) > 1 THEN [scan EXCEPT ![k] = NoScan]
             ELSE [scan EXCEPT ![k].looked = @ \cup {w},
                               ![k].missing = IF PeriodsOf(w) = {} THEN @ \cup {w} ELSE @]
  /\ UNCHANGED <<period, spent, adjustment, snapshots, close, edit>>

\* All the periods that are missing are inserted in one commit.
FinishScan(k) ==
  /\ scan[k].at = "scanning" /\ scan[k].looked = Workspaces
  /\ \E new \in [scan[k].missing -> {p \in Ids : ~Exists(p)}] :
       /\ IsInjective(new)
       /\ period' = [p \in Ids |->
            IF \E w \in DOMAIN new : new[w] = p
            THEN Open(CHOOSE w \in DOMAIN new : new[w] = p) ELSE period[p]]
  /\ scan' = [scan EXCEPT ![k] = NoScan]
  /\ UNCHANGED <<spent, adjustment, snapshots, close, edit>>

\* A run that dies before its commit has inserted nothing.
AbortScan(k) ==
  /\ scan[k].at = "scanning"
  /\ scan' = [scan EXCEPT ![k] = NoScan]
  /\ UNCHANGED <<period, spent, adjustment, snapshots, close, edit>>

-----------------------------------------------------------------------------
(* Adjustments *)

\* add_adjustment and update_adjustment read the status of the period ...
BeginEdit(e, a, p) ==
  /\ edit[e].at = "idle" /\ Exists(p) /\ period[p].status # "closed"
  /\ \/ adjustment[a].is = "none" /\ edit' = [edit EXCEPT ![e] =
          [at |-> "add", row |-> a, period |-> p]]
     \/ a \in On(p) /\ edit' = [edit EXCEPT ![e] =
          [at |-> "update", row |-> a, period |-> p]]
  /\ UNCHANGED <<period, spent, adjustment, snapshots, close, scan>>

\* ... and write without another look at it.  A row that was deleted, or taken
\* by another request, ends the request with nothing written.
FinishEdit(e, kind, amount) ==
  LET a == edit[e].row
      writes == adjustment[a].is = IF edit[e].at = "add" THEN "none" ELSE "there"
  IN /\ edit[e].at # "idle"
     /\ adjustment' = IF writes
                      THEN [adjustment EXCEPT ![a] = [is |-> "there", period |-> edit[e].period,
                                                      kind |-> kind, amount |-> amount]]
                      ELSE adjustment
     /\ edit' = [edit EXCEPT ![e] = NoEdit]
     /\ UNCHANGED <<period, spent, snapshots, close, scan>>

\* delete_adjustment does not look at the period.
DeleteAdjustment(a) ==
  /\ adjustment[a].is = "there"
  /\ adjustment' = [adjustment EXCEPT ![a] =
       [is |-> "deleted", period |-> Null, kind |-> "credit", amount |-> 0]]
  /\ UNCHANGED <<period, spent, snapshots, close, edit, scan>>

-----------------------------------------------------------------------------
(* close_billing_period *)

\* The status is read; the adjustments there are now will have to be counted.
BeginClose(c, p) ==
  /\ close[c].at = "idle" /\ Exists(p) /\ period[p].status # "closed"
  /\ close' = [close EXCEPT ![c] =
       [at |-> "read", period |-> p, total |-> 0, sums |-> NoClose.sums,
        before |-> On(p), counted |-> {}]]
  /\ UNCHANGED <<period, spent, adjustment, snapshots, edit, scan>>

Locked(p) ==
  \E c \in Closers : close[c].period = p /\ close[c].at \in {"locked", "totalled", "summed"}

\* Mutant: the status is set at the end only, no row is locked before.
MarkClosing_late(c) ==
  /\ close[c].at = "read"
  /\ close' = [close EXCEPT ![c].at = "locked"]
  /\ UNCHANGED <<period, spent, adjustment, snapshots, edit, scan>>

\* UPDATE ... SET status = 'closing'.
MarkClosing(c) ==
  /\ close[c].at = "read" /\ ~Locked(close[c].period)
  /\ close' = [close EXCEPT ![c].at = "locked"]
  /\ UNCHANGED <<period, spent, adjustment, snapshots, edit, scan>>

\* get_period_total_cost.
SumCalls(c) ==
  /\ close[c].at = "locked"
  /\ close' = [close EXCEPT ![c].at = "totalled",
                            ![c].total = spent[period[close[c].period].workspace]]
  /\ UNCHANGED <<period, spent, adjustment, snapshots, edit, scan>>

\* Mutant: only the credits are read.
SumAdjustments_credits(c) ==
  /\ close[c].at = "totalled"
  /\ close' = [close EXCEPT ![c].at = "summed",
       ![c].sums["credit"] = Sums(close[c].period)["credit"],
       ![c].counted = {a \in On(close[c].period) : adjustment[a].kind = "credit"}]
  /\ UNCHANGED <<period, spent, adjustment, snapshots, edit, scan>>

SumAdjustments(c) ==
  /\ close[c].at = "totalled"
  /\ close' = [close EXCEPT ![c].at = "summed", ![c].sums = Sums(close[c].period),
                            ![c].counted = On(close[c].period)]
  /\ UNCHANGED <<period, spent, adjustment, snapshots, edit, scan>>

\* Mutant: the clamp is forgotten.
Net_negative(c) == close[c].total - close[c].sums["credit"] + close[c].sums["surcharge"]

\* net_cost_usd.
Net(c) ==
  Max({close[c].total - close[c].sums["credit"] + close[c].sums["surcharge"], 0})

\* The snapshot; history: the adjustments that stood all along and are not in it.
Snapshot(c) ==
  [period |-> close[c].period, total |-> close[c].total, net |-> Net(c),
   missed |-> (close[c].before \cap On(close[c].period)) \ close[c].counted]

\* Mutant: a period that is closed meanwhile keeps its figures.
CommitClose_once(c) ==
  LET p == close[c].period
  IN /\ close[c].at = "summed" /\ Len(snapshots) < MaxCloses
     /\ snapshots' = Append(snapshots, Snapshot(c))
     /\ period' = IF period[p].status = "closed" THEN period ELSE
          [period EXCEPT ![p].status = "closed", ![p].total = close[c].total,
                         ![p].net = Net(c), ![p].snapshot = Len(snapshots) + 1]
     /\ close' = [close EXCEPT ![c] = NoClose]
     /\ UNCHANGED <<spent, adjustment, edit, scan>>

\* The snapshot and the period's figures, in one commit.
CommitClose(c) ==
  LET p == close[c].period
  IN /\ close[c].at = "summed" /\ Len(snapshots) < MaxCloses
     /\ snapshots' = Append(snapshots, Snapshot(c))
     /\ period' = [period EXCEPT ![p].status = "closed", ![p].total = close[c].total,
                                 ![p].net = Net(c), ![p].snapshot = Len(snapshots) + 1]
     /\ close' = [close EXCEPT ![c] = NoClose]
     /\ UNCHANGED <<spent, adjustment, edit, scan>>

\* The request ends, its transaction is rolled back.
AbortClose(c) ==
  /\ close[c].at # "idle"
  /\ close' = [close EXCEPT ![c] = NoClose]
  /\ UNCHANGED <<period, spent, adjustment, snapshots, edit, scan>>

-----------------------------------------------------------------------------
Next ==
  \/ \E w \in Workspaces : Spend(w)
  \/ \E p \in Ids, w \in Workspaces : CreatePeriod(p, w)
  \/ \E k \in Workers : StartScan(k) \/ FinishScan(k) \/ AbortScan(k)
  \/ \E k \in Workers, w \in Workspaces : LookAt(k, w)
  \/ \E e \in Editors, a \in Adjustments, p \in Handled : BeginEdit(e, a, p)
  \/ \E e \in Editors, kind \in Kinds, amount \in Amounts : FinishEdit(e, kind, amount)
  \/ \E a \in Adjustments : DeleteAdjustment(a)
  \/ \E c \in Closers, p \in Handled : BeginClose(c, p)
  \/ \E c \in Closers :
       MarkClosing(c) \/ SumCalls(c) \/ SumAdjustments(c) \/ CommitClose(c) \/ AbortClose(c)

\* Beat starts the daily task again and again, and not every run dies at the
\* same point.
Fairness ==
  \A k \in Workers :
    /\ WF_vars(StartScan(k))
    /\ \A looked \in SUBSET Workspaces :
         SF_vars(scan[k].looked = looked /\ \E w \in Workspaces : LookAt(k, w))
    /\ SF_vars(FinishScan(k))

Spec == Init /\ [][Next]_vars /\ Fairness

-----------------------------------------------------------------------------
(* Properties *)

\* A closed period shows the figures of its last signed snapshot: closes that
\* overlap, abort or follow each other never leave it with those of another
\* (close_billing_period).
ClosedAsSigned ==
  \A p \in Ids : period[p].status = "closed" =>
    LET n == period[p].snapshot
    IN /\ snapshots[n].period = p
       /\ snapshots[n].total = period[p].total /\ snapshots[n].net = period[p].net
       /\ \A m \in n + 1 .. Len(snapshots) : snapshots[m].period # p

\* Where a period is closed twice, the later snapshot is not of an earlier sum:
\* the UPDATE to closing makes the second close wait before it reads.  (While
\* metering adds and no backfill clears.)
SignedTotalsGrow ==
  \A n \in 1 .. Len(snapshots) : \A m \in 1 .. n :
    snapshots[m].period = snapshots[n].period => snapshots[m].total <= snapshots[n].total

\* A close counts every adjustment that was accepted before it began and was
\* not deleted until it commits.
AcceptedIsCounted == \A n \in 1 .. Len(snapshots) : snapshots[n].missed = {}

\* The daily task gets every workspace a period, by whatever runs and requests
\* it is overtaken and whatever runs die; as long as no workspace has two.
PeriodsAreCreated ==
  <>(\/ \E w \in Workspaces : Cardinality(PeriodsOf(w)) > 1
     \/ \A w \in Workspaces : PeriodsOf(w) # {})

-----------------------------------------------------------------------------
(* What the docs say and the code does not do. *)

\* "For each workspace, checks if a billing period exists for the previous
\* calendar month. If not, creates one."
EveryWorkspaceGetsAPeriod == <>(\A w \in Workspaces : PeriodsOf(w) # {})
=============================================================================
