--------------------------- MODULE MCBudgetAlerts ---------------------------
(* An instance of BudgetAlerts for TLC. *)
EXTENDS BudgetAlerts

(* The upstream may report a negative number of tokens. *)
MCCosts == {-1, 3}
=============================================================================
