---------------------------- MODULE MCResponses ----------------------------
(* Responses for TLC: one connection sends any of some 1700 headers of up  *)
(* to three parts, the other one of a few.                                 *)
EXTENDS Responses

CONSTANTS c1, c2

Parts(langs, regions, weights, spaces) ==
  {p \in [lang : langs, region : regions, weight : weights, spaced : spaces] :
     p.weight = NoWeight => ~p.spaced}

Single == Parts(SUPPORTED_LOCALES \cup {Other}, BOOLEAN,
                {NoWeight, BadWeight, 0, 5}, BOOLEAN)
Pair == Parts({"pt", "es", Other}, BOOLEAN, {NoWeight, BadWeight, 5}, BOOLEAN)
Triple == Parts({"pt", "es", Other}, {FALSE}, {NoWeight, 5, 8}, {FALSE})
Few == Parts({"pt", "es"}, {FALSE}, {NoWeight}, {FALSE})

Headers ==
  [c \in {c1, c2} |->
     {<<>>} \cup
     IF c = c1 THEN [1..1 -> Single] \cup [1..2 -> Pair] \cup [1..3 -> Triple]
               ELSE [1..1 -> Few]]
=============================================================================
