----------------------------- MODULE MCAccounts -----------------------------
(* Accounts for TLC; the cfg gives the constants small sets. *)
EXTENDS Accounts, TLC

(* All requests are alike, and so are all values. *)
Alike == Permutations(Request) \cup Permutations(Value)
=============================================================================
