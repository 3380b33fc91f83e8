------------------------------ MODULE MCLists ------------------------------
(* Lists for TLC; the cfg gives the constants small sets. *)
EXTENDS Lists, TLC

(* All requests are alike, and so are all rows and all columns. *)
Alike == Permutations(Request) \cup Permutations(Thing) \cup Permutations(Column)
=============================================================================
