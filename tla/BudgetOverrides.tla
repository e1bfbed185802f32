-------------------------- MODULE BudgetOverrides ---------------------------
(* Temporary budget overrides and the approvals that gate them:              *)
(* routers/budgets.py (create_override, revoke_override), routers/           *)
(* approvals.py (approve, deny, cancel and their side effects) and the beat  *)
(* task workers/budget_overrides.py.                                         *)
(*                                                                           *)
(* Every handler is a database session of its own, at READ COMMITTED.  It    *)
(* reads a row, returns 409 unless the status it read allows the operation,  *)
(* then writes with statements that do not look at that status again, and    *)
(* commits.  Read and write are two steps here, so that any other session    *)
(* can commit in between.  From its first UPDATE to its COMMIT a session     *)
(* holds the row's lock, so the statements of one transaction are one step.  *)
(*                                                                           *)
(* Only create_override writes an approval whose request names an override:  *)
(* one that is submitted to POST /approvals touches no override.             *)
EXTENDS Integers, FiniteSets

CONSTANTS
  Overrides,   \* identities of budget_overrides rows
  Handlers,    \* concurrent HTTP requests of workspace admins
  Workers,     \* concurrent runs of budgets.expire_overrides
  Horizon,     \* bound on the clock
  Windows      \* the <<starts_at, expires_at>> pairs requests ask for

ASSUME HorizonAssumption == Horizon \in Nat
ASSUME WindowsAssumption == Windows \subseteq Nat \X Nat

VARIABLES
  now,         \* the clock the code reads with datetime.now(UTC)
  override,    \* budget_overrides, as committed
  approval,    \* status of the budget_increase approval of each override
  session,     \* what each handler or worker is in the middle of
  audit        \* committed audit_events rows: the operation and its override

vars == <<now, override, approval, session, audit>>

Time     == 0 .. Horizon
Sessions == Handlers \cup Workers

OverrideStatus == {"absent", "pending", "active", "expired", "revoked"}
ApprovalStatus == {"absent", "pending", "approved", "denied", "cancelled"}
Settled        == {"expired", "revoked"}

Decisions == {"approve", "deny", "cancel"}
Ops       == Decisions \cup {"create", "revoke", "expire"}
Phases    == {"idle", "checked", "committed"}

Idle == [phase |-> "idle", op |-> "create", ids |-> {}]

TypeOK ==
  /\ now \in Time
  /\ override \in
       [Overrides -> [status : OverrideStatus, starts : Nat, expires : Nat]]
  /\ approval \in [Overrides -> ApprovalStatus]
  /\ session \in
       [Sessions -> [phase : Phases, op : Ops, ids : SUBSET Overrides]]
  /\ audit \subseteq Ops \X Overrides

Init ==
  /\ now = 0
  /\ override =
       [o \in Overrides |-> [status |-> "absent", starts |-> 0, expires |-> 0]]
  /\ approval = [o \in Overrides |-> "absent"]
  /\ session = [s \in Sessions |-> Idle]
  /\ audit = {}

-----------------------------------------------------------------------------
(* Steps of a session. *)

\* The row was read and its status allows op: from here on nobody looks again.
Check(s, op, ids) ==
  /\ session[s].phase = "idle"
  /\ session' = [session EXCEPT ![s] = [phase |-> "checked", op |-> op, ids |-> ids]]
  /\ UNCHANGED <<now, override, approval, audit>>

\* s is about to write, having checked op.
Writing(s, op) == session[s].phase = "checked" /\ session[s].op = op

\* s commits, and goes on to the audit event, a transaction of its own.
Commit(s) ==
  /\ session' = [session EXCEPT ![s].phase = "committed"]
  /\ UNCHANGED <<now, audit>>

SetStatus(o, status) == override' = [override EXCEPT ![o].status = status]
Decide(o, status)    == approval' = [approval EXCEPT ![o] = status]

-----------------------------------------------------------------------------
(* routers/budgets.py *)

\* POST /budgets/{id}/override: the override, and the approval if one is
\* required, are inserted in one transaction.  A start in the future makes the
\* override pending whether or not an approval exists to activate it.
CreateOverride(s, o, starts, expires, requireApproval) ==
  /\ session[s].phase = "idle"
  /\ override[o].status = "absent"
  /\ expires > starts
  /\ override' = [override EXCEPT ![o] =
       [status  |-> IF requireApproval \/ starts > now THEN "pending" ELSE "active",
        starts  |-> starts,
        expires |-> expires]]
  /\ approval' = [approval EXCEPT ![o] = IF requireApproval THEN "pending" ELSE @]
  /\ session' = [session EXCEPT ![s] =
       [phase |-> "committed", op |-> "create", ids |-> {o}]]
  /\ UNCHANGED <<now, audit>>

\* POST /budgets/{id}/override/{oid}/revoke: 409 unless active, then an UPDATE
\* by id alone.
CheckRevoke(s, o) == override[o].status = "active" /\ Check(s, "revoke", {o})

RevokeOverride(s) ==
  /\ Writing(s, "revoke")
  /\ \E o \in session[s].ids : SetStatus(o, "revoked")
  /\ UNCHANGED approval
  /\ Commit(s)

-----------------------------------------------------------------------------
(* routers/approvals.py *)

\* The read of approve, deny and cancel: 409 unless the approval is pending.
CheckDecision(s, o, op) == approval[o] = "pending" /\ Check(s, op, {o})

\* Mutant: the WHERE status = 'pending' is left out, as it is when denying.
ActivateBudgetOverride_unguarded(o) == SetStatus(o, "active")

\* _activate_budget_override: WHERE status = 'pending'.
ActivateBudgetOverride(o) ==
  IF override[o].status = "pending" THEN SetStatus(o, "active") ELSE UNCHANGED override

\* Mutant: guarded with WHERE status = 'pending', as activate and cancel are.
DenyBudgetOverride_guarded(o) ==
  IF override[o].status = "pending" THEN SetStatus(o, "revoked") ELSE UNCHANGED override

\* _deny_budget_override: an UPDATE by id alone.
DenyBudgetOverride(o) == SetStatus(o, "revoked")

\* Mutant: cancel has no side effect, as for the other request types.
CancelBudgetOverride_forgotten(o) == UNCHANGED override

\* _cancel_budget_override: WHERE status = 'pending'.
CancelBudgetOverride(o) ==
  IF override[o].status = "pending" THEN SetStatus(o, "revoked") ELSE UNCHANGED override

ApproveApproval(s) ==
  /\ Writing(s, "approve")
  /\ \E o \in session[s].ids : Decide(o, "approved") /\ ActivateBudgetOverride(o)
  /\ Commit(s)

DenyApproval(s) ==
  /\ Writing(s, "deny")
  /\ \E o \in session[s].ids : Decide(o, "denied") /\ DenyBudgetOverride(o)
  /\ Commit(s)

CancelApproval(s) ==
  /\ Writing(s, "cancel")
  /\ \E o \in session[s].ids : Decide(o, "cancelled") /\ CancelBudgetOverride(o)
  /\ Commit(s)

-----------------------------------------------------------------------------
(* The end of a handler, and failures. *)

\* After the commit, emit_audit_event adds the audit row and flushes it.  The
\* budgets router commits again; the approvals router returns, and get_db
\* closes the session, which rolls the row back.
CommitsAudit == {"create", "revoke"}

FinishRequest(s) ==
  /\ session[s].phase = "committed"
  /\ audit' = IF session[s].op \in CommitsAudit
              THEN audit \cup ({session[s].op} \X session[s].ids)
              ELSE audit
  /\ session' = [session EXCEPT ![s] = Idle]
  /\ UNCHANGED <<now, override, approval>>

\* The process dies or the connection is lost: what is not committed is gone.
Abort(s) ==
  /\ session[s].phase # "idle"
  /\ session' = [session EXCEPT ![s] = Idle]
  /\ UNCHANGED <<now, override, approval, audit>>

-----------------------------------------------------------------------------
(* workers/budget_overrides.py *)

\* Mutant: the window's start is compared instead of its end.
PastDue_byStart(o) == override[o].status = "active" /\ override[o].starts <= now

PastDue(o) == override[o].status = "active" /\ override[o].expires <= now

\* _expire_overrides selects the ids that are past due; with none it returns.
SelectExpired(w) ==
  LET ids == {o \in Overrides : PastDue(o)}
  IN IF ids = {}
     THEN session[w].phase = "idle" /\ UNCHANGED vars
     ELSE Check(w, "expire", ids)

\* Mutant: the session is closed without a commit.
ExpireOverrides_uncommitted(w) ==
  /\ Writing(w, "expire")
  /\ session' = [session EXCEPT ![w] = Idle]
  /\ UNCHANGED <<now, override, approval, audit>>

\* Then it updates those ids, whatever their status has become.
ExpireOverrides(w) ==
  /\ Writing(w, "expire")
  /\ override' = [o \in Overrides |->
       IF o \in session[w].ids THEN [override[o] EXCEPT !.status = "expired"]
                               ELSE override[o]]
  /\ session' = [session EXCEPT ![w] = Idle]
  /\ UNCHANGED <<now, approval, audit>>

-----------------------------------------------------------------------------
Tick ==
  /\ now < Horizon
  /\ now' = now + 1
  /\ UNCHANGED <<override, approval, session, audit>>

HandlerStep(s) ==
  \/ \E o \in Overrides, window \in Windows, requireApproval \in BOOLEAN :
       CreateOverride(s, o, window[1], window[2], requireApproval)
  \/ \E o \in Overrides : CheckRevoke(s, o)
  \/ \E o \in Overrides, op \in Decisions : CheckDecision(s, o, op)
  \/ RevokeOverride(s)
  \/ ApproveApproval(s)
  \/ DenyApproval(s)
  \/ CancelApproval(s)
  \/ FinishRequest(s)

Next ==
  \/ \E s \in Handlers : HandlerStep(s)
  \/ \E w \in Workers : SelectExpired(w) \/ ExpireOverrides(w)
  \/ \E s \in Sessions : Abort(s)
  \/ Tick

\* Beat enqueues the expiry task for ever (budget-overrides-expire-5m), so a
\* run always follows an aborted one, and not every run is aborted.
Fairness ==
  \A w \in Workers :
    /\ WF_vars(SelectExpired(w))
    /\ SF_vars(ExpireOverrides(w))

Spec == Init /\ [][Next]_vars /\ Fairness

-----------------------------------------------------------------------------
(* Properties *)

Gated(o) == approval[o] # "absent"

\* An override that needed an approval waits exactly as long as the approval
\* does: no interleaving of approve, deny, cancel, revoke and expiry decides
\* the request and leaves the override pending, or the other way round.
SettledTogether ==
  \A o \in Overrides :
    Gated(o) => (override[o].status = "pending" <=> approval[o] = "pending")

\* A gated override is in force only if its last recorded decision is not a
\* denial: whatever decisions race, a denial on record means no extra spend.
\* (A cancellation on record does not: see CancelledNotInForce.)
InForceWasApproved ==
  \A o \in Overrides :
    Gated(o) /\ override[o].status = "active" => approval[o] \in {"approved", "cancelled"}

\* The audit trail never runs ahead of the table: an override whose revocation
\* is on record has ended for good, even if a decision read before the
\* revocation is written after it.
RevocationSticks ==
  \A o \in Overrides : <<"revoke", o>> \in audit => override[o].status \in Settled

\* An override that reads expired really has run out, though the worker writes
\* the status from a list of ids it read earlier.
ExpiredIsPastDue ==
  \A o \in Overrides : override[o].status = "expired" => override[o].expires <= now

\* Each override is a time-boxed grant (module TimeBoxedGrant): once ended,
\* never in force again.
Stage(o) ==
  CASE override[o].status = "absent"  -> "absent"
    [] override[o].status = "pending" -> "waiting"
    [] override[o].status = "active"  -> "inForce"
    [] OTHER                          -> "ended"

Grant == INSTANCE TimeBoxedGrant WITH grant <- [o \in Overrides |-> Stage(o)]

ImplementsGrant == Grant!Spec

\* The expiry task takes every override out of force once its window is over,
\* though a run of it may be aborted at any point.
PastDueLeavesForce == \A o \in Overrides : PastDue(o) ~> ~PastDue(o)

-----------------------------------------------------------------------------
(* What a doc, a guard or a comment of the code says and the code does not do. *)

\* Cancel withdraws a pending request (approvals.py: "Cancel a pending approval
\* request"), so a cancelled request never leaves its override in force.
CancelledNotInForce ==
  \A o \in Overrides : approval[o] = "cancelled" => override[o].status # "active"
=============================================================================
