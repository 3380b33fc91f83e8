---------------------------- MODULE MCBudgetSync ----------------------------
(* BudgetSync for TLC; the cfgs give the constants small sets. *)
EXTENDS BudgetSync, TLC

(* Requests are alike where none or all of them may fail, and so are       *)
(* connections; only the runs that check no liveness use the symmetry.     *)
Alike == Permutations(Request) \cup Permutations(Client)
=============================================================================
