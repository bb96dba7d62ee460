------------------------------- MODULE EventLog -------------------------------
(***************************************************************************)
(* What the event pipeline promises about the handling of domain events,   *)
(* apart from outbox, stream and claim table (docs/runtime-topology.md:5): *)
(* an event is handled only once it is committed, by one handler at a      *)
(* time, and never again after a completion has been recorded.             *)
(***************************************************************************)
CONSTANT Events

VARIABLES committed,   \* events a transaction has committed
          running,     \* events some handler is at work on
          done         \* events whose completion is recorded

logVars == <<committed, running, done>>

Init == committed = {} /\ running = {} /\ done = {}

Commit(S) ==
    /\ committed' = committed \cup S
    /\ UNCHANGED <<running, done>>

Start(e) ==
    /\ e \in committed \ (running \cup done)
    /\ running' = running \cup {e}
    /\ UNCHANGED <<committed, done>>

(* A handler ends, with its completion recorded or not. *)
Stop(e) ==
    /\ e \in running
    /\ running' = running \ {e}
    /\ done' \in {done, done \cup {e}}
    /\ UNCHANGED committed

Next ==
    \/ \E S \in SUBSET Events : Commit(S)
    \/ \E e \in Events : Start(e) \/ Stop(e)

Spec == Init /\ [][Next]_logVars
===============================================================================
