---------------------------- MODULE MCEventDelivery ----------------------------
(* Instances of EventDelivery for TLC. *)
EXTENDS EventDelivery, TLC

CONSTANTS w1, w2, p1, p2

OneWorker == {w1}
TwoWorkers == {w1, w2}
OnePublisher == {p1}
TwoPublishers == {p1, p2}
ProcessSymmetry == Permutations(TwoWorkers) \cup Permutations(TwoPublishers)

(* All events belong to the same project. *)
OneProject == [e \in Events |-> 1]
===============================================================================
