----------------------------- MODULE MCEnrichment -----------------------------
(* Instances of Enrichment for TLC. *)
EXTENDS Enrichment, TLC

CONSTANTS c1, c2

OneCall == {c1}
TwoCalls == {c1, c2}
CallSymmetry == Permutations(TwoCalls)

(* The first candidate was supplied as an address, the second as a point. *)
SecondIsPoint == {2}
===============================================================================
