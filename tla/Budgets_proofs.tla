--------------------------- MODULE Budgets_proofs ---------------------------
(* Proofs about budgets: BudgetOverrides, and after it BudgetSpend.          *)
EXTENDS BudgetOverrides, BudgetSpend, SumTheorems, TLAPS

-----------------------------------------------------------------------------
(* BudgetOverrides keeps its invariants, and implements TimeBoxedGrant, for  *)
(* every set of overrides, handlers and workers, every clock bound and every *)
(* set of windows.                                                           *)

(* What a session remembers of the row it read stays true of the row however *)
(* many sessions commit before it writes: that is why writing without        *)
(* looking again is harmless where it is.                                    *)

\* A request concerns one override.  A decision is about to be written for one
\* that has an approval, a revocation or an expiry for one that has left
\* "pending" for good.
MemoryHolds ==
  \A s \in Sessions, o \in Overrides :
    o \in session[s].ids /\ session[s].phase # "idle" =>
      /\ session[s].op # "expire" => session[s].ids = {o}
      /\ session[s].op \in Decisions => Gated(o)
      /\ session[s].op \in {"revoke", "expire"} =>
           override[o].status \in {"active"} \cup Settled
      /\ session[s].op = "expire" => override[o].expires <= now
      /\ session[s].op = "revoke" /\ session[s].phase = "committed" =>
           override[o].status \in Settled

\* The approval is inserted with its override, never before it.
ApprovalHasOverride ==
  \A o \in Overrides : override[o].status = "absent" => ~Gated(o)

IInv ==
  /\ TypeOK
  /\ MemoryHolds
  /\ ApprovalHasOverride
  /\ SettledTogether
  /\ InForceWasApproved
  /\ RevocationSticks
  /\ ExpiredIsPastDue

-----------------------------------------------------------------------------
USE HorizonAssumption, WindowsAssumption
    DEF Sessions, Time, OverrideStatus, ApprovalStatus, Settled, Decisions, Ops, Phases,
        Idle, Gated

\* Every variable keeps its type, initially and at every step.
LEMMA TypeStep == TypeOK /\ [Next]_vars => TypeOK'
<1> SUFFICES ASSUME TypeOK, [Next]_vars PROVE TypeOK'
  OBVIOUS
<1> USE DEF TypeOK
<1>1. ASSUME NEW s \in Handlers, HandlerStep(s) PROVE TypeOK'
  <2>1. ASSUME NEW o \in Overrides, NEW window \in Windows, NEW gated \in BOOLEAN,
               CreateOverride(s, o, window[1], window[2], gated)
        PROVE TypeOK'
    BY <2>1 DEF CreateOverride
  <2>2. ASSUME NEW o \in Overrides, CheckRevoke(s, o) PROVE TypeOK'
    BY <2>2 DEF CheckRevoke, Check
  <2>3. ASSUME NEW o \in Overrides, NEW op \in Decisions, CheckDecision(s, o, op)
        PROVE TypeOK'
    BY <2>3 DEF CheckDecision, Check
  <2>4. CASE RevokeOverride(s)
    BY <2>4 DEF RevokeOverride, Writing, Commit, SetStatus
  <2>5. CASE ApproveApproval(s)
    BY <2>5 DEF ApproveApproval, Writing, Commit, SetStatus, Decide, ActivateBudgetOverride
  <2>6. CASE DenyApproval(s)
    BY <2>6 DEF DenyApproval, Writing, Commit, SetStatus, Decide, DenyBudgetOverride
  <2>7. CASE CancelApproval(s)
    BY <2>7 DEF CancelApproval, Writing, Commit, SetStatus, Decide, CancelBudgetOverride
  <2>8. CASE FinishRequest(s)
    BY <2>8 DEF FinishRequest, CommitsAudit
  <2>9. QED
    BY <1>1, <2>1, <2>2, <2>3, <2>4, <2>5, <2>6, <2>7, <2>8 DEF HandlerStep
<1>2. ASSUME NEW w \in Workers, SelectExpired(w) PROVE TypeOK'
  BY <1>2 DEF SelectExpired, Check, vars
<1>3. ASSUME NEW w \in Workers, ExpireOverrides(w) PROVE TypeOK'
  BY <1>3 DEF ExpireOverrides, Writing
<1>4. ASSUME NEW s \in Sessions, Abort(s) PROVE TypeOK'
  BY <1>4 DEF Abort
<1>5. CASE Tick
  BY <1>5 DEF Tick
<1>6. CASE UNCHANGED vars
  BY <1>6 DEF vars
<1>7. QED
  BY <1>1, <1>2, <1>3, <1>4, <1>5, <1>6 DEF Next

-----------------------------------------------------------------------------
(* The invariant. *)

\* What the tables alone have to satisfy.
RowsHold ==
  /\ ApprovalHasOverride
  /\ SettledTogether
  /\ InForceWasApproved
  /\ RevocationSticks
  /\ ExpiredIsPastDue

\* The inductive invariant holds at the start.
LEMMA InitEstablishes == Init => IInv
BY DEF Init, IInv, TypeOK, MemoryHolds, ApprovalHasOverride, SettledTogether,
       InForceWasApproved, RevocationSticks, ExpiredIsPastDue

\* No step of any session, and no tick, breaks the invariant.
LEMMA StepPreserves == IInv /\ [Next]_vars => IInv'
<1> SUFFICES ASSUME IInv, [Next]_vars PROVE MemoryHolds' /\ RowsHold'
  BY TypeStep DEF IInv, RowsHold
<1> USE DEF IInv, TypeOK
<1>1. ASSUME NEW s \in Handlers, NEW o \in Overrides, NEW starts \in Nat, NEW expires \in Nat,
             NEW gated \in BOOLEAN, CreateOverride(s, o, starts, expires, gated)
      PROVE MemoryHolds' /\ RowsHold'
  <2>1. MemoryHolds'
    BY <1>1 DEF CreateOverride, MemoryHolds
  <2>2. RowsHold'
    BY <1>1 DEF CreateOverride, MemoryHolds, RowsHold, ApprovalHasOverride, SettledTogether,
           InForceWasApproved, RevocationSticks, ExpiredIsPastDue
  <2>3. QED
    BY <2>1, <2>2
<1>2. ASSUME NEW s \in Handlers, NEW o \in Overrides, CheckRevoke(s, o)
      PROVE MemoryHolds' /\ RowsHold'
  <2>1. MemoryHolds'
    BY <1>2 DEF CheckRevoke, Check, MemoryHolds
  <2>2. RowsHold'
    BY <1>2 DEF CheckRevoke, Check, MemoryHolds, RowsHold, ApprovalHasOverride, SettledTogether,
           InForceWasApproved, RevocationSticks, ExpiredIsPastDue
  <2>3. QED
    BY <2>1, <2>2
<1>3. ASSUME NEW s \in Handlers, NEW o \in Overrides, NEW op \in Decisions,
             CheckDecision(s, o, op)
      PROVE MemoryHolds' /\ RowsHold'
  <2>1. MemoryHolds'
    BY <1>3 DEF CheckDecision, Check, MemoryHolds
  <2>2. RowsHold'
    BY <1>3 DEF CheckDecision, Check, MemoryHolds, RowsHold, ApprovalHasOverride, SettledTogether,
           InForceWasApproved, RevocationSticks, ExpiredIsPastDue
  <2>3. QED
    BY <2>1, <2>2
<1>4. ASSUME NEW s \in Handlers, RevokeOverride(s)
      PROVE MemoryHolds' /\ RowsHold'
  <2>1. PICK o \in session[s].ids : SetStatus(o, "revoked")
    BY <1>4 DEF RevokeOverride
  <2>2. /\ session[s].phase = "checked"
        /\ session' = [session EXCEPT ![s].phase = "committed"]
        /\ UNCHANGED <<now, audit>>
        /\ UNCHANGED approval
    BY <1>4 DEF RevokeOverride, Writing, Commit, MemoryHolds
  <2>3. MemoryHolds'
    BY <1>4, <2>1, <2>2 DEF RevokeOverride, Writing, SetStatus, MemoryHolds
  <2>4. ApprovalHasOverride'
    BY <1>4, <2>1, <2>2 DEF RevokeOverride, Writing, MemoryHolds, SetStatus, ApprovalHasOverride
  <2>5. SettledTogether'
    BY <1>4, <2>1, <2>2 DEF RevokeOverride, Writing, MemoryHolds, SetStatus, SettledTogether
  <2>6. InForceWasApproved'
    BY <1>4, <2>1, <2>2 DEF RevokeOverride, Writing, MemoryHolds, SetStatus, InForceWasApproved
  <2>7. RevocationSticks'
    BY <1>4, <2>1, <2>2 DEF RevokeOverride, Writing, MemoryHolds, SetStatus, RevocationSticks
  <2>8. ExpiredIsPastDue'
    BY <1>4, <2>1, <2>2 DEF RevokeOverride, Writing, MemoryHolds, SetStatus, ExpiredIsPastDue
  <2>9. QED
    BY <2>3, <2>4, <2>5, <2>6, <2>7, <2>8 DEF RowsHold
<1>5. ASSUME NEW s \in Handlers, ApproveApproval(s)
      PROVE MemoryHolds' /\ RowsHold'
  <2>1. PICK o \in session[s].ids : Decide(o, "approved") /\ ActivateBudgetOverride(o)
    BY <1>5 DEF ApproveApproval
  <2>2. /\ session[s].phase = "checked"
        /\ session' = [session EXCEPT ![s].phase = "committed"]
        /\ UNCHANGED <<now, audit>>
        /\ Gated(o)
    BY <1>5 DEF ApproveApproval, Writing, Commit, MemoryHolds
  <2>3. MemoryHolds'
    BY <1>5, <2>1, <2>2 DEF ApproveApproval, Writing, SetStatus, Decide, ActivateBudgetOverride, MemoryHolds
  <2>4. ApprovalHasOverride'
    BY <1>5, <2>1, <2>2 DEF ApproveApproval, Writing, MemoryHolds, SetStatus, Decide, ActivateBudgetOverride, ApprovalHasOverride
  <2>5. SettledTogether'
    BY <1>5, <2>1, <2>2 DEF ApproveApproval, Writing, MemoryHolds, SetStatus, Decide, ActivateBudgetOverride, SettledTogether
  <2>6. InForceWasApproved'
    BY <1>5, <2>1, <2>2 DEF ApproveApproval, Writing, MemoryHolds, SetStatus, Decide, ActivateBudgetOverride, InForceWasApproved
  <2>7. RevocationSticks'
    BY <1>5, <2>1, <2>2 DEF ApproveApproval, Writing, MemoryHolds, SetStatus, Decide, ActivateBudgetOverride, RevocationSticks
  <2>8. ExpiredIsPastDue'
    BY <1>5, <2>1, <2>2 DEF ApproveApproval, Writing, MemoryHolds, SetStatus, Decide, ActivateBudgetOverride, ExpiredIsPastDue
  <2>9. QED
    BY <2>3, <2>4, <2>5, <2>6, <2>7, <2>8 DEF RowsHold
<1>6. ASSUME NEW s \in Handlers, DenyApproval(s)
      PROVE MemoryHolds' /\ RowsHold'
  <2>1. PICK o \in session[s].ids : Decide(o, "denied") /\ DenyBudgetOverride(o)
    BY <1>6 DEF DenyApproval
  <2>2. /\ session[s].phase = "checked"
        /\ session' = [session EXCEPT ![s].phase = "committed"]
        /\ UNCHANGED <<now, audit>>
        /\ Gated(o)
    BY <1>6 DEF DenyApproval, Writing, Commit, MemoryHolds
  <2>3. MemoryHolds'
    BY <1>6, <2>1, <2>2 DEF DenyApproval, Writing, SetStatus, Decide, DenyBudgetOverride, MemoryHolds
  <2>4. ApprovalHasOverride'
    BY <1>6, <2>1, <2>2 DEF DenyApproval, Writing, MemoryHolds, SetStatus, Decide, DenyBudgetOverride, ApprovalHasOverride
  <2>5. SettledTogether'
    BY <1>6, <2>1, <2>2 DEF DenyApproval, Writing, MemoryHolds, SetStatus, Decide, DenyBudgetOverride, SettledTogether
  <2>6. InForceWasApproved'
    BY <1>6, <2>1, <2>2 DEF DenyApproval, Writing, MemoryHolds, SetStatus, Decide, DenyBudgetOverride, InForceWasApproved
  <2>7. RevocationSticks'
    BY <1>6, <2>1, <2>2 DEF DenyApproval, Writing, MemoryHolds, SetStatus, Decide, DenyBudgetOverride, RevocationSticks
  <2>8. ExpiredIsPastDue'
    BY <1>6, <2>1, <2>2 DEF DenyApproval, Writing, MemoryHolds, SetStatus, Decide, DenyBudgetOverride, ExpiredIsPastDue
  <2>9. QED
    BY <2>3, <2>4, <2>5, <2>6, <2>7, <2>8 DEF RowsHold
<1>7. ASSUME NEW s \in Handlers, CancelApproval(s)
      PROVE MemoryHolds' /\ RowsHold'
  <2>1. PICK o \in session[s].ids : Decide(o, "cancelled") /\ CancelBudgetOverride(o)
    BY <1>7 DEF CancelApproval
  <2>2. /\ session[s].phase = "checked"
        /\ session' = [session EXCEPT ![s].phase = "committed"]
        /\ UNCHANGED <<now, audit>>
        /\ Gated(o)
    BY <1>7 DEF CancelApproval, Writing, Commit, MemoryHolds
  <2>3. MemoryHolds'
    BY <1>7, <2>1, <2>2 DEF CancelApproval, Writing, SetStatus, Decide, CancelBudgetOverride, MemoryHolds
  <2>4. ApprovalHasOverride'
    BY <1>7, <2>1, <2>2 DEF CancelApproval, Writing, MemoryHolds, SetStatus, Decide, CancelBudgetOverride, ApprovalHasOverride
  <2>5. SettledTogether'
    BY <1>7, <2>1, <2>2 DEF CancelApproval, Writing, MemoryHolds, SetStatus, Decide, CancelBudgetOverride, SettledTogether
  <2>6. InForceWasApproved'
    BY <1>7, <2>1, <2>2 DEF CancelApproval, Writing, MemoryHolds, SetStatus, Decide, CancelBudgetOverride, InForceWasApproved
  <2>7. RevocationSticks'
    BY <1>7, <2>1, <2>2 DEF CancelApproval, Writing, MemoryHolds, SetStatus, Decide, CancelBudgetOverride, RevocationSticks
  <2>8. ExpiredIsPastDue'
    BY <1>7, <2>1, <2>2 DEF CancelApproval, Writing, MemoryHolds, SetStatus, Decide, CancelBudgetOverride, ExpiredIsPastDue
  <2>9. QED
    BY <2>3, <2>4, <2>5, <2>6, <2>7, <2>8 DEF RowsHold
<1>8. ASSUME NEW s \in Handlers, FinishRequest(s)
      PROVE MemoryHolds' /\ RowsHold'
  <2>1. MemoryHolds'
    BY <1>8 DEF FinishRequest, CommitsAudit, MemoryHolds
  <2>2. RowsHold'
    BY <1>8 DEF FinishRequest, CommitsAudit, MemoryHolds, RowsHold, ApprovalHasOverride, SettledTogether,
           InForceWasApproved, RevocationSticks, ExpiredIsPastDue
  <2>3. QED
    BY <2>1, <2>2
<1>9. ASSUME NEW w \in Workers, SelectExpired(w)
      PROVE MemoryHolds' /\ RowsHold'
  <2>1. MemoryHolds'
    BY <1>9 DEF SelectExpired, PastDue, Check, vars, MemoryHolds
  <2>2. RowsHold'
    BY <1>9 DEF SelectExpired, PastDue, Check, vars, MemoryHolds, RowsHold, ApprovalHasOverride, SettledTogether,
           InForceWasApproved, RevocationSticks, ExpiredIsPastDue
  <2>3. QED
    BY <2>1, <2>2
<1>10. ASSUME NEW w \in Workers, ExpireOverrides(w)
      PROVE MemoryHolds' /\ RowsHold'
  <2>1. MemoryHolds'
    BY <1>10 DEF ExpireOverrides, Writing, MemoryHolds
  <2>2. RowsHold'
    BY <1>10 DEF ExpireOverrides, Writing, MemoryHolds, RowsHold, ApprovalHasOverride, SettledTogether,
           InForceWasApproved, RevocationSticks, ExpiredIsPastDue
  <2>3. QED
    BY <2>1, <2>2
<1>11. ASSUME NEW s \in Sessions, Abort(s)
      PROVE MemoryHolds' /\ RowsHold'
  <2>1. MemoryHolds'
    BY <1>11 DEF Abort, MemoryHolds
  <2>2. RowsHold'
    BY <1>11 DEF Abort, MemoryHolds, RowsHold, ApprovalHasOverride, SettledTogether,
           InForceWasApproved, RevocationSticks, ExpiredIsPastDue
  <2>3. QED
    BY <2>1, <2>2
<1>12. CASE Tick
  BY <1>12 DEF Tick, MemoryHolds, RowsHold, ApprovalHasOverride, SettledTogether,
           InForceWasApproved, RevocationSticks, ExpiredIsPastDue
<1>13. CASE UNCHANGED vars
  BY <1>13 DEF vars, MemoryHolds, RowsHold, ApprovalHasOverride, SettledTogether,
           InForceWasApproved, RevocationSticks, ExpiredIsPastDue
<1>14. QED
  <2>1. ASSUME NEW s \in Handlers, HandlerStep(s) PROVE MemoryHolds' /\ RowsHold'
    BY <2>1, <1>1, <1>2, <1>3, <1>4, <1>5, <1>6, <1>7, <1>8 DEF HandlerStep
  <2>2. QED
    BY <2>1, <1>9, <1>10, <1>11, <1>12, <1>13 DEF Next

\* The inductive invariant holds of every behaviour.
LEMMA Invariant == Spec => []IInv
<1>1. Init => IInv
  BY InitEstablishes
<1>2. IInv /\ [Next]_vars => IInv'
  BY StepPreserves
<1>3. QED
  BY <1>1, <1>2, PTL DEF Spec

-----------------------------------------------------------------------------
(* The theorems. *)

\* Every column keeps to its domain, and a session to what it can be doing.
THEOREM TypeCorrect == Spec => []TypeOK
<1>1. IInv => TypeOK
  BY DEF IInv
<1>2. QED
  BY <1>1, Invariant, PTL

\* However many admins approve, deny, cancel and revoke at once, a gated
\* override is pending exactly as long as its approval is.
THEOREM RequestAndOverrideSettleTogether == Spec => []SettledTogether
<1>1. IInv => SettledTogether
  BY DEF IInv
<1>2. QED
  BY <1>1, Invariant, PTL

\* A denial that is the decision on record keeps the override out of force.
THEOREM DenialPrevails == Spec => []InForceWasApproved
<1>1. IInv => InForceWasApproved
  BY DEF IInv
<1>2. QED
  BY <1>1, Invariant, PTL

\* No approval written late brings back an override whose revocation is audited.
THEOREM RevocationIsFinal == Spec => []RevocationSticks
<1>1. IInv => RevocationSticks
  BY DEF IInv
<1>2. QED
  BY <1>1, Invariant, PTL

\* The expiry worker's stale list never expires an override before its time.
THEOREM NothingExpiresEarly == Spec => []ExpiredIsPastDue
<1>1. IInv => ExpiredIsPastDue
  BY DEF IInv
<1>2. QED
  BY <1>1, Invariant, PTL

-----------------------------------------------------------------------------
(* BudgetOverrides implements TimeBoxedGrant. *)

\* Every step of the sessions is a step of the grants, or changes none.
LEMMA StepRefines == IInv /\ [Next]_vars => [Grant!Next]_[o \in Overrides |-> Stage(o)]
<1> DEFINE stages == [o \in Overrides |-> Stage(o)]
<1> SUFFICES ASSUME IInv, [Next]_vars PROVE Grant!Next \/ UNCHANGED stages
  BY DEF Grant!Next
<1> USE DEF IInv, TypeOK
<1>1. ASSUME UNCHANGED override PROVE UNCHANGED stages
  BY <1>1 DEF Stage
<1>2. ASSUME NEW o \in Overrides, override[o].status = "absent",
             NEW starts \in Nat, NEW expires \in Nat, NEW gated \in BOOLEAN, NEW s \in Handlers,
             CreateOverride(s, o, starts, expires, gated)
      PROVE Grant!Ask(o)
  BY <1>2 DEF CreateOverride, Stage, Grant!Ask
<1>3. ASSUME NEW o \in Overrides, override[o].status # "absent", SetStatus(o, "revoked")
      PROVE Grant!End({o})
  BY <1>3 DEF SetStatus, Stage, Grant!End
<1>4. ASSUME NEW o \in Overrides, ActivateBudgetOverride(o)
      PROVE Grant!PutInForce(o) \/ UNCHANGED stages
  <2>1. CASE override[o].status = "pending"
    <3>1. SetStatus(o, "active")
      BY <1>4, <2>1 DEF ActivateBudgetOverride
    <3>2. Stage(o) = "waiting" /\ Stage(o)' = "inForce"
      BY <2>1, <3>1 DEF SetStatus, Stage
    <3>3. \A other \in Overrides \ {o} : Stage(other)' = Stage(other)
      BY <3>1 DEF SetStatus, Stage
    <3>4. QED
      BY <3>2, <3>3 DEF Grant!PutInForce
  <2>2. CASE override[o].status # "pending"
    BY <1>4, <1>1, <2>2 DEF ActivateBudgetOverride
  <2>3. QED
    BY <2>1, <2>2
<1>5. ASSUME NEW w \in Workers, ExpireOverrides(w)
      PROVE Grant!End(session[w].ids)
  BY <1>5 DEF ExpireOverrides, Writing, MemoryHolds, Stage, Grant!End
<1>6. QED
  <2>1. ASSUME NEW s \in Handlers, HandlerStep(s) PROVE Grant!Next \/ UNCHANGED stages
    <3>1. ASSUME NEW o \in Overrides, NEW window \in Windows, NEW gated \in BOOLEAN,
                 CreateOverride(s, o, window[1], window[2], gated)
          PROVE Grant!Ask(o)
      BY <1>2, <3>1 DEF CreateOverride
    <3>2. CASE RevokeOverride(s)
      <4>1. PICK o \in session[s].ids : SetStatus(o, "revoked")
        BY <3>2 DEF RevokeOverride
      <4>2. override[o].status # "absent"
        BY <3>2 DEF RevokeOverride, Writing, MemoryHolds
      <4>3. QED
        BY <4>1, <4>2, <1>3 DEF Grant!Next
    <3>3. CASE ApproveApproval(s)
      <4>1. PICK o \in session[s].ids : ActivateBudgetOverride(o)
        BY <3>3 DEF ApproveApproval
      <4>2. QED
        BY <4>1, <1>4 DEF Grant!Next
    <3>4. CASE DenyApproval(s)
      <4>1. PICK o \in session[s].ids : SetStatus(o, "revoked")
        BY <3>4 DEF DenyApproval, DenyBudgetOverride
      <4>2. override[o].status # "absent"
        BY <3>4 DEF DenyApproval, Writing, MemoryHolds, ApprovalHasOverride
      <4>3. QED
        BY <4>1, <4>2, <1>3 DEF Grant!Next
    <3>5. CASE CancelApproval(s)
      <4>1. PICK o \in session[s].ids : CancelBudgetOverride(o)
        BY <3>5 DEF CancelApproval
      <4>2. CASE override[o].status = "pending"
        BY <4>1, <4>2, <1>3 DEF CancelBudgetOverride, Grant!Next
      <4>3. CASE override[o].status # "pending"
        BY <4>1, <4>3, <1>1 DEF CancelBudgetOverride
      <4>4. QED
        BY <4>2, <4>3
    <3>6. QED
      BY <2>1, <1>1, <3>1, <3>2, <3>3, <3>4, <3>5
         DEF HandlerStep, CheckRevoke, CheckDecision, Check, FinishRequest, Grant!Next
  <2>2. QED
    BY <2>1, <1>1, <1>5 DEF Next, Grant!Next, SelectExpired, Check, Abort, Tick, vars

\* Spec implements the time-boxed grant: what has ended stays ended.
THEOREM ImplementsTimeBoxedGrant == Spec => ImplementsGrant
<1>1. Init => Grant!Init
  BY DEF Init, Stage, Grant!Init
<1>2. IInv /\ [Next]_vars => [Grant!Next]_[o \in Overrides |-> Stage(o)]
  BY StepRefines
<1>3. QED
  BY <1>1, <1>2, Invariant, PTL DEF Spec, ImplementsGrant, Grant!Spec
-----------------------------------------------------------------------------
(* BudgetSpend *)

\* What the budget's calls of a period have come to is never more than its peak.
PeakCovers ==
  \A d \in Days : SumOf({c \in Scoped : InPeriod(created[c], d)}, cost) <= peak[d]

\* The sum that a sync is about to write was true of the period it was read for.
ReadSumsWereTrue ==
  \A y \in Syncs :
    IF sync[y].key = Null THEN sync[y] = NoSync ELSE sync[y].sum <= peak[sync[y].key]

SpendInv ==
  SpendTypeOK /\ PeakCovers /\ ReadSumsWereTrue /\ CounterNeverAhead /\ DeniedOnlyIfSpent

\* The scope types for which the sum of the spend sync is that of the budget's
\* calls (scope_filter); with any other it is the sum of the whole workspace.
FilterIsComplete == ScopeType \in {"workspace", "end_user", "api_key"}

Costs == [Calls -> Amounts \cup {Null}]

-----------------------------------------------------------------------------
(* Sums of costs *)

\* Calls without a cost are no part of a sum, which is then a number.
LEMMA SumOfIsNat ==
  ASSUME NEW calls \in SUBSET Calls, NEW costs \in Costs
  PROVE  SumOf(calls, costs) \in Nat
<1> DEFINE S == {c \in calls : costs[c] # Null}
<1>1. IsFiniteSet(S)
  BY CallsAssumption, FS_Subset
<1>2. \A c \in S : costs[c] \in Nat
  BY AmountsAssumption DEF Costs
<1> HIDE DEF S
<1>3. SumFunctionOnSet(costs, S) \in Nat
  BY <1>1, <1>2, SumIsNat
<1>4. QED  BY <1>3 DEF SumOf, S

\* Clearing costs makes no sum larger.
LEMMA ClearedIsLess ==
  ASSUME NEW calls \in SUBSET Calls, NEW costs \in Costs, NEW cleared \in Costs,
         \A c \in calls : cleared[c] = Null \/ cleared[c] = costs[c]
  PROVE  SumOf(calls, cleared) <= SumOf(calls, costs)
<1> DEFINE S == {c \in calls : costs[c] # Null}
           T == {c \in calls : cleared[c] # Null}
<1>1. IsFiniteSet(S) /\ T \in SUBSET S
  BY CallsAssumption, FS_Subset
<1>2. \A c \in S : costs[c] \in Nat
  BY AmountsAssumption DEF Costs
<1>3. ASSUME NEW c \in T  PROVE cleared[c] \in Nat /\ cleared[c] <= costs[c]
  <2>1. cleared[c] # Null /\ cleared[c] = costs[c] /\ cleared[c] \in Amounts \cup {Null}
    BY DEF Costs
  <2>2. cleared[c] \in Nat
    BY <2>1, AmountsAssumption
  <2>3. \A n \in Nat : n <= n
    OBVIOUS
  <2>4. QED  BY <2>1, <2>2, <2>3
<1> HIDE DEF S, T
<1>4. SumFunctionOnSet(cleared, T) <= SumFunctionOnSet(costs, S)
  BY <1>1, <1>2, <1>3, SumIsMonotonic
<1>5. QED  BY <1>4 DEF SumOf, S, T

\* A key is a day: the period's own, or the first for a total budget.
LEMMA KeyIsDay == SpendTypeOK => PeriodKey(today) \in Days
  BY BoundsAssumption DEF SpendTypeOK, PeriodKey, Days

\* The peak of a period rises to its sum, and never falls.
LEMMA RaiseFacts ==
  ASSUME SpendTypeOK, NEW times, NEW costs \in Costs, Raise(times, costs)
  PROVE  /\ peak' \in [Days -> Nat]
         /\ \A d \in Days : /\ peak[d] <= peak'[d]
                            /\ SumOf({c \in Scoped : InPeriod(times[c], d)}, costs) <= peak'[d]
<1> DEFINE sum(d) == SumOf({c \in Scoped : InPeriod(times[c], d)}, costs)
<1>1. \A d \in Days : sum(d) \in Nat
  BY SumOfIsNat, ScopeAssumption
<1> HIDE DEF sum
<1>2. peak' = [d \in Days |-> Highest(peak[d], sum(d))]
  BY DEF Raise, sum
<1>3. \A d \in Days : peak[d] \in Nat
  BY DEF SpendTypeOK
<1>4. ASSUME NEW d \in Days
      PROVE  peak'[d] \in Nat /\ peak[d] <= peak'[d] /\ sum(d) <= peak'[d]
  BY <1>1, <1>2, <1>3 DEF Highest
<1>5. peak' \in [Days -> Nat]
  BY <1>2, <1>4
<1>6. QED  BY <1>4, <1>5 DEF sum

-----------------------------------------------------------------------------
(* Types: every action on its own. *)

\* The variables have their types at the start.
LEMMA SpendInitTypes == SpendInit => SpendTypeOK
  BY BoundsAssumption DEF SpendInit, SpendTypeOK, Days, NoSync

\* A call that is ingested has a day, and a cost or none.
LEMMA IngestTypes ==
  ASSUME SpendTypeOK, NEW c \in Calls, NEW reported \in Amounts \cup {Null}, Ingest(c, reported)
  PROVE  /\ SpendTypeOK'
         /\ \A d \in Days : peak[d] <= peak'[d]
         /\ PeakCovers'
<1> DEFINE costs == [cost EXCEPT ![c] = reported]
           times == [created EXCEPT ![c] = today]
<1>1. costs \in Costs
  BY DEF SpendTypeOK, Costs
<1>2. times \in [Calls -> Days \cup {Null}]
  BY DEF SpendTypeOK
<1>3. cost' = costs /\ created' = times /\ Raise(times, costs)
  BY DEF Ingest
<1> HIDE DEF costs, times
<1>4. /\ peak' \in [Days -> Nat]
      /\ \A d \in Days : /\ peak[d] <= peak'[d]
                         /\ SumOf({x \in Scoped : InPeriod(times[x], d)}, costs) <= peak'[d]
  BY <1>1, <1>3, RaiseFacts
<1>5. SpendTypeOK'
  BY <1>1, <1>2, <1>3, <1>4 DEF Ingest, SpendTypeOK, Costs
<1>6. QED  BY <1>3, <1>4, <1>5 DEF Ingest, PeakCovers, InPeriod, PeriodKey

\* A run commits the costs of its batch.
LEMMA CommitCostsTypes ==
  ASSUME SpendTypeOK, NEW e \in Enrichers, CommitCosts(e)
  PROVE  /\ SpendTypeOK'
         /\ \A d \in Days : peak[d] <= peak'[d]
         /\ PeakCovers'
<1>1. PICK costs \in [batch[e] -> Amounts] :
        LET calls    == {c \in batch[e] : Priceable(c)}
            newCosts == [c \in Calls |-> IF c \in calls THEN costs[c] ELSE cost[c]]
        IN /\ cost' = newCosts
           /\ Raise(created, newCosts)
           /\ batch' = [batch EXCEPT ![e] = {}]
           /\ MeterHotPath(calls, newCosts)
           /\ UNCHANGED <<periodType, today, created, priced, sync, denied, replays>>
  BY DEF CommitCosts
<1> DEFINE newCosts == [c \in Calls |->
             IF c \in {x \in batch[e] : Priceable(x)} THEN costs[c] ELSE cost[c]]
<1>2. newCosts \in Costs
  BY DEF SpendTypeOK, Costs
<1>3. cost' = newCosts /\ Raise(created, newCosts)
  BY <1>1
<1> HIDE DEF newCosts
<1>4. /\ peak' \in [Days -> Nat]
      /\ \A d \in Days : /\ peak[d] <= peak'[d]
                         /\ SumOf({x \in Scoped : InPeriod(created[x], d)}, newCosts) <= peak'[d]
  BY <1>2, <1>3, RaiseFacts
<1>5. SpendTypeOK'
  BY <1>1, <1>2, <1>3, <1>4 DEF MeterHotPath, SpendTypeOK, Costs
<1>6. QED  BY <1>1, <1>3, <1>4, <1>5 DEF PeakCovers, InPeriod, PeriodKey

\* A backfill clears costs of a window.
LEMMA ReplayClearTypes ==
  ASSUME SpendTypeOK, NEW from \in Calls, NEW to \in Calls, ReplayClear(from, to)
  PROVE  SpendTypeOK' /\ (PeakCovers => PeakCovers')
<1>1. cost \in Costs /\ cost' \in Costs /\ \A c \in Calls : cost'[c] = Null \/ cost'[c] = cost[c]
  BY DEF SpendTypeOK, Costs, ReplayClear
<1>2. SpendTypeOK'
  BY <1>1, BoundsAssumption DEF SpendTypeOK, Costs, ReplayClear
<1>3. ASSUME PeakCovers  PROVE PeakCovers'
  <2> SUFFICES ASSUME NEW d \in Days
               PROVE  SumOf({c \in Scoped : InPeriod(created[c], d)}, cost') <= peak[d]
    BY DEF PeakCovers, ReplayClear, InPeriod, PeriodKey
  <2> DEFINE calls == {c \in Scoped : InPeriod(created[c], d)}
  <2>1. calls \in SUBSET Calls
    BY ScopeAssumption
  <2>2. SumOf(calls, cost) <= peak[d] /\ peak[d] \in Nat
    BY <1>3 DEF PeakCovers, SpendTypeOK
  <2> HIDE DEF calls
  <2>3. SumOf(calls, cost') <= SumOf(calls, cost)
    BY <1>1, <2>1, ClearedIsLess
  <2>4. SumOf(calls, cost') \in Nat /\ SumOf(calls, cost) \in Nat
    BY <1>1, <2>1, SumOfIsNat
  <2>5. QED  BY <2>2, <2>3, <2>4 DEF calls
<1>4. QED  BY <1>2, <1>3

\* A sync reads a sum, writes it, or is lost with it.
LEMMA SyncTypes ==
  ASSUME SpendTypeOK, NEW y \in Syncs, SyncSum(y) \/ SyncSet(y) \/ SyncDies(y)
  PROVE  SpendTypeOK'
<1>1. NoSync \in [key : Days \cup {Null}, sum : Nat]
  BY DEF NoSync
<1>2. CASE SyncSum(y)
  <2> DEFINE s == SumOf(CallsOf(PeriodKey(today)) \cap SyncedCalls, cost)
  <2>1. CallsOf(PeriodKey(today)) \cap SyncedCalls \in SUBSET Calls
    BY DEF CallsOf
  <2>2. s \in Nat
    BY <2>1, SumOfIsNat DEF SpendTypeOK, Costs
  <2>3. sync' = [sync EXCEPT ![y] = [key |-> PeriodKey(today), sum |-> s]]
    BY <1>2 DEF SyncSum
  <2> HIDE DEF s
  <2>4. sync' \in [Syncs -> [key : Days \cup {Null}, sum : Nat]]
    BY <2>2, <2>3, KeyIsDay DEF SpendTypeOK
  <2>5. QED  BY <1>2, <2>4 DEF SyncSum, SpendTypeOK
<1>3. CASE SyncSet(y)
  <2>1. sync[y] \in [key : Days \cup {Null}, sum : Nat]
    BY DEF SpendTypeOK
  <2>2. sync[y].sum \in Nat
    BY <2>1
  <2>3. counter' \in [Days -> Nat \cup {Null}]
    BY <1>3, <2>2 DEF SyncSet, SpendTypeOK
  <2>4. sync' \in [Syncs -> [key : Days \cup {Null}, sum : Nat]]
    BY <1>1, <1>3 DEF SyncSet, SpendTypeOK
  <2>5. QED  BY <1>3, <2>3, <2>4 DEF SyncSet, SpendTypeOK
<1>4. CASE SyncDies(y)
  <2>1. sync' \in [Syncs -> [key : Days \cup {Null}, sum : Nat]]
    BY <1>1, <1>4 DEF SyncDies, SpendTypeOK
  <2>2. QED  BY <1>4, <2>1 DEF SyncDies, SpendTypeOK
<1>5. QED  BY <1>2, <1>3, <1>4

\* The steps of the environment that ingest nothing, of a run that commits
\* nothing, and of the check.
Aside ==
  \/ \E row \in PriceRows : CreatePrice(row) \/ DeletePrice(row)
  \/ Midnight
  \/ \E d \in Days : Evict(d)
  \/ \E e \in Enrichers : SelectCalls(e) \/ EnricherDies(e)
  \/ CheckBudget

LEMMA AsideTypes ==
  ASSUME SpendTypeOK, Aside
  PROVE  SpendTypeOK' /\ UNCHANGED <<periodType, created, cost, sync, peak>>
<1>1. CASE \E row \in PriceRows : CreatePrice(row) \/ DeletePrice(row)
  BY <1>1 DEF CreatePrice, DeletePrice, SpendTypeOK
<1>2. CASE Midnight
  BY <1>2, BoundsAssumption DEF Midnight, SpendTypeOK, Days
<1>3. CASE \E d \in Days : Evict(d)
  BY <1>3 DEF Evict, SpendTypeOK
<1>4. ASSUME NEW e \in Enrichers, SelectCalls(e)
      PROVE  SpendTypeOK' /\ UNCHANGED <<periodType, created, cost, sync, peak>>
  <2>1. Oldest(Uncosted) \in SUBSET Calls
    BY ModelsAssumption DEF Oldest, Uncosted
  <2>2. QED  BY <1>4, <2>1 DEF SelectCalls, SpendTypeOK
<1>5. ASSUME NEW e \in Enrichers, EnricherDies(e)
      PROVE  SpendTypeOK' /\ UNCHANGED <<periodType, created, cost, sync, peak>>
  BY <1>5 DEF EnricherDies, MeterHotPath, SpendTypeOK
<1>6. CASE CheckBudget
  BY <1>6, KeyIsDay DEF CheckBudget, SpendTypeOK
<1>7. QED  BY <1>1, <1>2, <1>3, <1>4, <1>5, <1>6 DEF Aside

\* Every step keeps the types.
LEMMA SpendNextTypes == SpendTypeOK /\ [SpendNext]_spendVars => SpendTypeOK'
<1> SUFFICES ASSUME SpendTypeOK, [SpendNext]_spendVars  PROVE SpendTypeOK'
  OBVIOUS
<1>1. CASE Aside
  BY <1>1, AsideTypes
<1>2. CASE UNCHANGED spendVars
  BY <1>2 DEF spendVars, SpendTypeOK
<1>3. QED
  BY <1>1, <1>2, IngestTypes, CommitCostsTypes, ReplayClearTypes, SyncTypes DEF SpendNext, Aside

-----------------------------------------------------------------------------
(* Steps of the invariant. *)

\* The peak starts at the empty sum of every period.
LEMMA SpendInitInv == SpendInit => SpendInv
<1> SUFFICES ASSUME SpendInit  PROVE SpendInv
  OBVIOUS
<1>1. PeakCovers
  <2> SUFFICES ASSUME NEW d \in Days
               PROVE  SumOf({c \in Scoped : InPeriod(created[c], d)}, cost) <= peak[d]
    BY DEF PeakCovers
  <2>1. {c \in {x \in Scoped : InPeriod(created[x], d)} : cost[c] # Null} = {}
    BY ScopeAssumption DEF SpendInit
  <2>2. SumOf({c \in Scoped : InPeriod(created[c], d)}, cost) = 0
    BY <2>1, SumOverNothing DEF SumOf
  <2>3. QED  BY <2>2 DEF SpendInit
<1>2. ReadSumsWereTrue /\ CounterNeverAhead /\ DeniedOnlyIfSpent
  BY DEF SpendInit, ReadSumsWereTrue, CounterNeverAhead, DeniedOnlyIfSpent, NoSync
<1>3. QED  BY <1>1, <1>2, SpendInitTypes DEF SpendInv

\* A step that writes no counter and denies nothing, while the peaks cover.
LEMMA CoveredInv ==
  ASSUME SpendInv, SpendTypeOK', PeakCovers', UNCHANGED <<sync, counter, denied>>,
         \A d \in Days : peak[d] <= peak'[d]
  PROVE  SpendInv'
<1>1. peak \in [Days -> Nat] /\ peak' \in [Days -> Nat]
  BY DEF SpendInv, SpendTypeOK
<1>2. ReadSumsWereTrue'
  <2> SUFFICES ASSUME NEW y \in Syncs, sync[y].key # Null  PROVE sync[y].sum <= peak'[sync[y].key]
    BY DEF SpendInv, ReadSumsWereTrue
  <2>1. sync[y] \in [key : Days \cup {Null}, sum : Nat]
    BY DEF SpendInv, SpendTypeOK
  <2>2. sync[y].key \in Days /\ sync[y].sum \in Nat /\ sync[y].sum <= peak[sync[y].key]
    BY <2>1 DEF SpendInv, ReadSumsWereTrue
  <2>3. QED  BY <1>1, <2>2
<1>3. CounterNeverAhead'
  <2> SUFFICES ASSUME NEW d \in Days, counter[d] # Null  PROVE counter[d] <= peak'[d]
    BY DEF CounterNeverAhead
  <2>1. counter[d] \in Nat /\ counter[d] <= peak[d]
    BY DEF SpendInv, SpendTypeOK, CounterNeverAhead
  <2>2. QED  BY <1>1, <2>1
<1>4. DeniedOnlyIfSpent'
  <2> SUFFICES ASSUME NEW d \in denied  PROVE peak'[d] >= Limit
    BY DEF DeniedOnlyIfSpent
  <2>1. d \in Days /\ peak[d] >= Limit
    BY DEF SpendInv, SpendTypeOK, DeniedOnlyIfSpent
  <2>2. QED  BY <1>1, <2>1, BoundsAssumption
<1>5. QED  BY <1>2, <1>3, <1>4 DEF SpendInv

\* The sum of a period is not more than its peak, which has covered it all along.
LEMMA SyncSumInv ==
  ASSUME SpendInv, FilterIsComplete, NEW y \in Syncs, SyncSum(y)
  PROVE  SpendInv'
<1> DEFINE key == PeriodKey(today)
           s == SumOf(CallsOf(key) \cap SyncedCalls, cost)
<1>1. CallsOf(key) \cap SyncedCalls = {c \in Scoped : InPeriod(created[c], key)}
  BY ScopeAssumption DEF FilterIsComplete, SyncedCalls, CallsOf
<1>2. key \in Days
  BY KeyIsDay DEF SpendInv
<1>3. sync' = [sync EXCEPT ![y] = [key |-> key, sum |-> s]]
  BY DEF SyncSum
<1> HIDE DEF key
<1>4. s <= peak[key] /\ key # Null
  BY <1>1, <1>2, AmountsAssumption DEF SpendInv, PeakCovers, Days
<1> HIDE DEF s
<1>5. UNCHANGED <<periodType, created, cost, counter, denied, peak>>
  BY DEF SyncSum
<1>6. ReadSumsWereTrue'
  <2> SUFFICES ASSUME NEW z \in Syncs
               PROVE  IF sync'[z].key = Null THEN sync'[z] = NoSync
                      ELSE sync'[z].sum <= peak[sync'[z].key]
    BY <1>5 DEF ReadSumsWereTrue
  <2>1. CASE z = y
    <3>1. sync'[y] = [key |-> key, sum |-> s]
      BY <1>3 DEF SpendInv, SpendTypeOK
    <3>2. QED  BY <1>4, <2>1, <3>1
  <2>2. CASE z # y
    BY <1>3, <2>2 DEF SpendInv, ReadSumsWereTrue, SpendTypeOK
  <2>3. QED  BY <2>1, <2>2
<1>7. QED
  BY <1>5, <1>6, SyncTypes
     DEF SpendInv, PeakCovers, InPeriod, PeriodKey, CounterNeverAhead, DeniedOnlyIfSpent

\* What is written was true of the period it is written to.
LEMMA SyncSetInv ==
  ASSUME SpendInv, NEW y \in Syncs, SyncSet(y) \/ SyncDies(y)
  PROVE  SpendInv'
<1>1. /\ sync' = [sync EXCEPT ![y] = NoSync] /\ sync[y] # NoSync
      /\ UNCHANGED <<periodType, created, cost, denied, peak>>
  BY DEF SyncSet, SyncDies
<1>2. ReadSumsWereTrue'
  BY <1>1 DEF SpendInv, ReadSumsWereTrue, SpendTypeOK, NoSync
<1>3. sync[y].sum <= peak[sync[y].key]
  BY <1>1 DEF SpendInv, ReadSumsWereTrue
<1>4. CounterNeverAhead'
  <2>1. CASE SyncSet(y)
    BY <1>1, <1>3, <2>1 DEF SyncSet, SpendInv, SpendTypeOK, CounterNeverAhead
  <2>2. CASE SyncDies(y)
    BY <1>1, <2>2 DEF SyncDies, SpendInv, CounterNeverAhead
  <2>3. QED  BY <2>1, <2>2
<1>5. QED
  BY <1>1, <1>2, <1>4, SyncTypes DEF SpendInv, PeakCovers, InPeriod, PeriodKey, DeniedOnlyIfSpent

\* A period is denied by its counter, or by a limit of zero.
LEMMA AsideInv == ASSUME SpendInv, Aside  PROVE SpendInv'
<1>1. SpendTypeOK' /\ UNCHANGED <<periodType, created, cost, sync, peak>>
  BY AsideTypes DEF SpendInv
<1>2. PeakCovers' /\ ReadSumsWereTrue'
  BY <1>1 DEF SpendInv, PeakCovers, InPeriod, PeriodKey, ReadSumsWereTrue
<1>3. CounterNeverAhead'
  <2>1. \A d \in Days : counter'[d] = counter[d] \/ counter'[d] = Null
    BY DEF Aside, CreatePrice, DeletePrice, Midnight, Evict, SelectCalls, EnricherDies, MeterHotPath, CheckBudget,
      SpendInv, SpendTypeOK
  <2>2. QED  BY <1>1, <2>1 DEF SpendInv, CounterNeverAhead
<1>4. DeniedOnlyIfSpent'
  <2>1. CASE UNCHANGED denied
    BY <1>1, <2>1 DEF SpendInv, DeniedOnlyIfSpent
  <2> DEFINE key == PeriodKey(today)
  <2>2. CASE BudgetSpent >= Limit /\ denied' = denied \cup {key}
    <3>1. key \in Days /\ peak[key] \in Nat /\ counter[key] \in Nat \cup {Null}
      BY KeyIsDay DEF SpendInv, SpendTypeOK
    <3>2. peak[key] >= Limit
      BY <2>2, <3>1, BoundsAssumption DEF BudgetSpent, SpendInv, CounterNeverAhead
    <3>3. QED  BY <1>1, <2>2, <3>2 DEF SpendInv, DeniedOnlyIfSpent
  <2>3. UNCHANGED denied \/ (BudgetSpent >= Limit /\ denied' = denied \cup {key})
    BY DEF Aside, CreatePrice, DeletePrice, Midnight, Evict, SelectCalls, EnricherDies, CheckBudget
  <2>4. QED  BY <2>1, <2>2, <2>3
<1>5. QED  BY <1>1, <1>2, <1>3, <1>4 DEF SpendInv

\* Every step keeps the invariant, where the filter is complete.
LEMMA SpendNextInv ==
  ASSUME FilterIsComplete  PROVE SpendInv /\ [SpendNext]_spendVars => SpendInv'
<1> SUFFICES ASSUME SpendInv, [SpendNext]_spendVars  PROVE SpendInv'
  OBVIOUS
<1>1. SpendTypeOK
  BY DEF SpendInv
<1>2. ASSUME NEW c \in Calls, NEW reported \in Amounts \cup {Null}, Ingest(c, reported)
      PROVE  SpendInv'
  BY <1>1, <1>2, IngestTypes, CoveredInv DEF Ingest
<1>3. ASSUME NEW e \in Enrichers, CommitCosts(e)  PROVE SpendInv'
  <2>1. UNCHANGED <<sync, counter, denied>>
    BY <1>3 DEF CommitCosts, MeterHotPath
  <2>2. QED  BY <1>1, <1>3, <2>1, CommitCostsTypes, CoveredInv
<1>4. ASSUME NEW from \in Calls, NEW to \in Calls, ReplayClear(from, to)  PROVE SpendInv'
  <2>1. UNCHANGED <<sync, counter, denied, peak>>
    BY <1>4 DEF ReplayClear
  <2>2. PeakCovers' /\ SpendTypeOK'
    BY <1>1, <1>4, ReplayClearTypes DEF SpendInv
  <2>3. \A d \in Days : peak[d] <= peak'[d]
    BY <1>1, <2>1 DEF SpendTypeOK
  <2>4. QED  BY <2>1, <2>2, <2>3, CoveredInv
<1>5. ASSUME NEW y \in Syncs, SyncSum(y) \/ SyncSet(y) \/ SyncDies(y)  PROVE SpendInv'
  BY <1>5, SyncSumInv, SyncSetInv
<1>6. CASE Aside
  BY <1>6, AsideInv
<1>7. CASE UNCHANGED spendVars
  <2>1. SpendTypeOK' /\ PeakCovers' /\ ReadSumsWereTrue'
    BY <1>7 DEF spendVars, SpendInv, SpendTypeOK, PeakCovers, InPeriod, PeriodKey,
      ReadSumsWereTrue
  <2>2. CounterNeverAhead' /\ DeniedOnlyIfSpent'
    BY <1>7 DEF spendVars, SpendInv, CounterNeverAhead, DeniedOnlyIfSpent
  <2>3. QED  BY <2>1, <2>2 DEF SpendInv
<1>8. QED
  BY <1>2, <1>3, <1>4, <1>5, <1>6, <1>7 DEF SpendNext, Aside

-----------------------------------------------------------------------------
\* Costs, sums and counters keep their types, for any number of calls, runs and
\* syncs (_run_cost_enrichment, _run_budget_spend_sync).
THEOREM SpendTypeCorrect == SpendSpec => []SpendTypeOK
<1>1. QED  BY SpendInitTypes, SpendNextTypes, PTL DEF SpendSpec

\* Late, overlapping and dying syncs only ever write, under the period they were
\* read for, sums that the budget's calls of the period did come to: no counter
\* is ever ahead of its period's peak (_run_budget_spend_sync).
THEOREM CounterIsNeverAhead ==
  ASSUME FilterIsComplete  PROVE SpendSpec => []CounterNeverAhead
<1>1. SpendInv => CounterNeverAhead
  BY DEF SpendInv
<1>2. QED  BY <1>1, SpendInitInv, SpendNextInv, PTL DEF SpendSpec

\* No request is refused in a period whose spend stayed below the limit, however
\* often costs are cleared and priced again and the key is evicted
\* (check_budgets).
THEOREM NothingIsDeniedBelowTheLimit ==
  ASSUME FilterIsComplete  PROVE SpendSpec => []DeniedOnlyIfSpent
<1>1. SpendInv => DeniedOnlyIfSpent
  BY DEF SpendInv
<1>2. QED  BY <1>1, SpendInitInv, SpendNextInv, PTL DEF SpendSpec
=============================================================================
