--------------------------- MODULE MCBudgetSpend ----------------------------
(* Instances of BudgetSpend for TLC. *)
EXTENDS BudgetSpend

\* Four calls.  The oldest uses a model without a price, and the price of the
\* others is effective from the second day; the next reports no tokens; the
\* newest is another key's.
MCCalls   == 1 .. 4
MCModelOf == <<"custom", "catalogued", "catalogued", "catalogued">>
MCModels  == {"custom", "catalogued"}
MCTokens  == {1, 3, 4}
MCPrices  == {[model |-> "catalogued", from |-> 1]}
MCScoped  == {1, 3}
=============================================================================
