---------------------------- MODULE MCBudgetStore ----------------------------
(* BudgetStore for TLC; the cfgs give the constants small sets. *)
EXTENDS BudgetStore, TLC

(* Any request may fail, so all are alike. *)
Alike == Permutations(Request)
=============================================================================
