----------------------------- MODULE MCSiteRefresh -----------------------------
(* Instances of SiteRefresh for TLC. *)
EXTENDS SiteRefresh, TLC

CONSTANTS f1, f2, p1, p2, s1, s2

OneField == {f1}
TwoFields == {f1, f2}
OneParcel == {p1}
TwoParcels == {p1, p2}
OneScenario == {s1}
TwoScenarios == {s1, s2}
Both == {{f1, f2}}
First == {{f1}}
Decisive == {"good", "bad"}
GoodOnly == {"good"}
ParcelSymmetry == Permutations(TwoParcels)
===============================================================================
