----------------------------- MODULE MeteredSpend -----------------------------
(***************************************************************************)
(* What the metered-operation machinery of the diligence service promises, *)
(* apart from how it is built (README.md:83, "Paid provider operations are *)
(* confirmation-gated"): a quoted plan may be approved by the user, and    *)
(* the provider may be paid for sites only under an approved plan.  With   *)
(* Once = TRUE the promise is the stronger one: an approval pays for each  *)
(* site at most one time.                                                  *)
(***************************************************************************)
EXTENDS Naturals

CONSTANTS PlanIds,      \* spend plans
          Sites,        \* what a plan pays for
          Once,         \* TRUE: an approval is spent once
          PaidCap       \* payments of one site are counted up to this bound

VARIABLES approvals,    \* plans the user has approved
          paid          \* how often each site was paid for, by plan

spendVars == <<approvals, paid>>

Bump(n) == IF n < PaidCap THEN n + 1 ELSE n

Init ==
    /\ approvals = {}
    /\ paid = [p \in PlanIds |-> [s \in Sites |-> 0]]

Approve(p) ==
    /\ approvals' = approvals \cup {p}
    /\ UNCHANGED paid

Pay(p, batch) ==
    /\ p \in approvals
    /\ Once => \A s \in batch : paid[p][s] = 0
    /\ paid' = [paid EXCEPT ![p] = [s \in Sites |-> IF s \in batch THEN Bump(paid[p][s])
                                                                  ELSE paid[p][s]]]
    /\ UNCHANGED approvals

Next == \E p \in PlanIds : Approve(p) \/ \E batch \in SUBSET Sites : Pay(p, batch)

Spec == Init /\ [][Next]_spendVars
===============================================================================
