--------------------------- MODULE TimeBoxedGrant ---------------------------
(* What a budget override promises to whoever reads the budget: a grant is   *)
(* asked for once, may be put in force once, and once it has ended (revoked, *)
(* expired, refused, withdrawn) it stays ended.  Who ends it, through which  *)
(* router or worker, and how often, is left to BudgetOverrides.              *)
CONSTANT Overrides

VARIABLE grant      \* the stage each grant has reached

Stages == {"absent", "waiting", "inForce", "ended"}

Init == grant = [o \in Overrides |-> "absent"]

\* A grant is asked for: it waits for a decision, or is in force at once.
Ask(o) ==
  /\ grant[o] = "absent"
  /\ \E stage \in {"waiting", "inForce"} : grant' = [grant EXCEPT ![o] = stage]

\* The decision a waiting grant was waiting for puts it in force.
PutInForce(o) ==
  /\ grant[o] = "waiting"
  /\ grant' = [grant EXCEPT ![o] = "inForce"]

\* Grants end together: the expiry worker ends a whole batch in one statement.
End(batch) ==
  /\ \A o \in batch : grant[o] # "absent"
  /\ grant' = [o \in Overrides |-> IF o \in batch THEN "ended" ELSE grant[o]]

Next ==
  \/ \E o \in Overrides : Ask(o) \/ PutInForce(o)
  \/ \E batch \in SUBSET Overrides : End(batch)

Spec == Init /\ [][Next]_grant
=============================================================================
