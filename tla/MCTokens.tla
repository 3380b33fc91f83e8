------------------------------ MODULE MCTokens ------------------------------
(* Tokens for TLC; the cfg gives the constants small values. *)
EXTENDS Tokens, TLC

(* All tasks are alike, and so are all keys. *)
Alike == Permutations(Task) \cup Permutations(Key)
=============================================================================
