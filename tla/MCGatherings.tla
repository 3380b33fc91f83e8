---------------------------- MODULE MCGatherings ----------------------------
(* Gatherings for TLC; the cfgs give the constants small sets. *)
EXTENDS Gatherings, TLC

(* All requests are alike, and so are all gatherings. *)
Alike == Permutations(Request) \cup Permutations(Gathering)
=============================================================================
