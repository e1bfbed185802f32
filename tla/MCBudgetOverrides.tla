------------------------- MODULE MCBudgetOverrides --------------------------
(* Instances of BudgetOverrides for TLC: one window open from the start, one *)
(* that opens later, and one that create_override refuses.                   *)
EXTENDS BudgetOverrides

MCWindows == {<<0, 1>>, <<1, 2>>, <<1, 1>>}
=============================================================================
