----------------------------- MODULE QuestionGate -----------------------------
(***************************************************************************)
(* What the orchestration of agents promises of its questions, apart from  *)
(* workflows, activities and signals (docs/runtime-topology.md:7, "waits   *)
(* on the `decision_answered` signal"): a run that waits on a question is  *)
(* resumed only when the user has answered that question.                  *)
(***************************************************************************)
CONSTANTS Runs, Decisions

VARIABLES answered,     \* decisions the user has answered
          passed        \* the decisions each run has been resumed after

gateVars == <<answered, passed>>

Init ==
    /\ answered = {}
    /\ passed = [r \in Runs |-> {}]

Answer(d) ==
    /\ answered' = answered \cup {d}
    /\ UNCHANGED passed

GoOn(r, d) ==
    /\ d \in answered
    /\ passed' = [passed EXCEPT ![r] = @ \cup {d}]
    /\ UNCHANGED answered

Next == \E d \in Decisions : Answer(d) \/ \E r \in Runs : GoOn(r, d)

Spec == Init /\ [][Next]_gateVars
===============================================================================
