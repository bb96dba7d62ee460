----------------------------- MODULE EventDelivery -----------------------------
(***************************************************************************)
(* Domain events from the transaction that commits them to the handler     *)
(* that consumes them: the outbox rows a project save writes               *)
(* (app/infrastructure/db/postgres.py), the publisher process              *)
(* (scripts/event_worker.py), the JetStream stream with its durable        *)
(* consumer, and the consumer processes with their claim table             *)
(* (app/infrastructure/jetstream.py, app/infrastructure/outbox.py).        *)
(*                                                                         *)
(* Events are numbered in the order of occurred_at.  JetStream itself is   *)
(* external: a message is handed to a running consumer, and handed out     *)
(* again when it is negatively acknowledged or not acknowledged in time,   *)
(* up to max_deliver times.  Compose runs one consumer; a second one       *)
(* stands for a new process beside one that has not stopped yet.           *)
(***************************************************************************)
EXTENDS Naturals, FiniteSets, FiniteSetsExt

CONSTANTS NumEvents,
          ProjectOf,       \* the project whose save commits an event
          Publishers,      \* event_worker processes
          Workers,         \* event_consumer processes
          Limit,           \* how many rows a claim takes
          MaxDeliver,      \* max_deliver of the durable consumer
          Pace,            \* how long a handler may take
          MaxCopies,       \* bound: messages one event has in the stream
          MaxFailures,     \* bound: handler exceptions
          MaxFaults,       \* bound: failed database and NATS calls
          MaxCrashes       \* bound: process crashes

Events == 1..NumEvents
Messages == Events \X (1..MaxCopies)

(* "quick": within the acknowledgement wait; "slow": longer, but shorter     *)
(* than the five minutes after which a claim may be taken over; "stuck":     *)
(* longer than that.                                                         *)
ASSUME EventDeliveryAssumption ==
    /\ NumEvents \in Nat \ {0} /\ Limit \in Nat \ {0} /\ MaxDeliver \in Nat \ {0} /\ MaxCopies \in Nat \ {0}
    /\ MaxFailures \in Nat /\ MaxFaults \in Nat /\ MaxCrashes \in Nat
    /\ Pace \in {"quick", "slow", "stuck"}
    /\ DOMAIN ProjectOf = Events

VARIABLES outbox,          \* outbox_events: the life of each event's row
          publisher,       \* the rows a publisher has found and claimed, and where it is with them
          msg,             \* the stream and its durable consumer
          processed,       \* processed_events: the claim on each event
          worker,          \* where each consumer process is
          failures, faults, crashes   \* counted up to their bounds

bounds == <<failures, faults, crashes>>
vars == <<outbox, publisher, msg, processed, worker, bounds>>

-------------------------------------------------------------------------------
(* Types *)

Publisher == [phase : {"ready",     \* about to send its first row, or to claim when it has none
                       "claiming",  \* its query runs: it keeps the locks of its rows
                       "sent"},     \* its first row is sent and not marked yet
              found : SUBSET Events,   \* rows the query has found and not come to
              todo : SUBSET Events]    \* rows it has claimed

WithRows(rows) == [phase |-> "ready", found |-> {}, todo |-> rows]

Message == [at : {"absent",     \* not in the stream
                  "waiting",    \* to be handed to a consumer
                  "out",        \* handed out, not acknowledged yet
                  "acked",
                  "dead"},      \* handed out max_deliver times in vain
            count : 0..MaxDeliver]

ControlPoint == {"down", "idle", "claim", "handling", "complete", "ack", "suppress",
                 "release", "nak"}

Worker == [pc : ControlPoint, m : Messages]

TypeOK ==
    /\ outbox \in [Events -> {"none", "open", "aborted", "pending", "published"}]
    /\ publisher \in [Publishers -> Publisher]
    /\ msg \in [Messages -> Message]
    /\ processed \in [Events -> {"none", "processing", "stale", "completed"}]
    /\ worker \in [Workers -> Worker]
    /\ failures \in 0..MaxFailures /\ faults \in 0..MaxFaults /\ crashes \in 0..MaxCrashes

Committed(e) == outbox[e] \in {"pending", "published"}
InStream(e) == msg[<<e, 1>>].at # "absent"

Event(w) == worker[w].m[1]

(* A consumer that holds a claim: from the claim to its end.                *)
Holds(w, e) == worker[w].pc \in {"handling", "complete", "release"} /\ Event(w) = e

Init ==
    /\ outbox = [e \in Events |-> "none"]
    /\ publisher = [p \in Publishers |-> WithRows({})]
    /\ msg = [m \in Messages |-> [at |-> "absent", count |-> 0]]
    /\ processed = [e \in Events |-> "none"]
    /\ worker = [w \in Workers |-> [pc |-> "idle", m |-> CHOOSE m \in Messages : TRUE]]
    /\ failures = 0 /\ faults = 0 /\ crashes = 0

-------------------------------------------------------------------------------
(* save_diligence_project: state and events in one transaction *)

Open(q) == {e \in Events : outbox[e] = "open" /\ ProjectOf[e] = q}

(* The document's row is locked by the upsert before an event is stamped,   *)
(* so the events of a project are stamped by one transaction at a time.     *)
Append(e) ==
    /\ outbox[e] = "none"
    /\ \A f \in Events : f < e => outbox[f] # "none"
    /\ outbox' = [outbox EXCEPT ![e] = "open"]
    /\ UNCHANGED <<publisher, msg, processed, worker, bounds>>

(* Faulty: events of one save committed apart from one another. *)
Commit_Apart(q) ==
    /\ Open(q) # {}
    /\ \E e \in Open(q) : outbox' = [outbox EXCEPT ![e] = "pending"]
    /\ UNCHANGED <<publisher, msg, processed, worker, bounds>>

Commit(q) ==
    /\ Open(q) # {}
    /\ outbox' = [e \in Events |-> IF e \in Open(q) THEN "pending" ELSE outbox[e]]
    /\ UNCHANGED <<publisher, msg, processed, worker, bounds>>

Abort(q) ==
    /\ Open(q) # {}
    /\ outbox' = [e \in Events |-> IF e \in Open(q) THEN "aborted" ELSE outbox[e]]
    /\ UNCHANGED <<publisher, msg, processed, worker, bounds>>

-------------------------------------------------------------------------------
(* The publisher's loop *)

First(p) == Min(publisher[p].todo)

Pending == {e \in Events : outbox[e] = "pending"}

(* The row locks of a claim are held until its transaction ends.            *)
Locked(e) == \E q \in Publishers : publisher[q].phase = "claiming" /\ e \in publisher[q].todo

(* PostgresOutbox.claim: the query finds the rows that are not published,   *)
(* in the order of occurred_at, ...                                         *)
ClaimRows(p) ==
    /\ publisher[p].phase = "ready" /\ publisher[p].todo = {} /\ Pending # {}
    /\ publisher' = [publisher EXCEPT ![p] = [phase |-> "claiming", found |-> Pending, todo |-> {}]]
    /\ UNCHANGED <<outbox, msg, processed, worker, bounds>>

(* ... locks them one after the other, up to the limit, skips those another *)
(* claim has locked and those that were published meanwhile, ...            *)
LockRow(p) ==
    LET e == Min(publisher[p].found)
        taken == IF outbox[e] = "pending" /\ ~Locked(e) THEN {e} ELSE {}
    IN /\ publisher[p].phase = "claiming" /\ publisher[p].found # {}
       /\ Cardinality(publisher[p].todo) < Limit
       /\ publisher' = [publisher EXCEPT ![p].found = @ \ {e}, ![p].todo = @ \cup taken]
       /\ UNCHANGED <<outbox, msg, processed, worker, bounds>>

(* ... and gives all locks up when the connection is closed.                *)
EndClaim(p) ==
    /\ publisher[p].phase = "claiming"
    /\ publisher[p].found = {} \/ Cardinality(publisher[p].todo) = Limit
    /\ publisher' = [publisher EXCEPT ![p] = WithRows(@.todo)]
    /\ UNCHANGED <<outbox, msg, processed, worker, bounds>>

(* The stream drops a message whose Nats-Msg-Id it has seen, within its     *)
(* duplicate window; after that the event is in the stream once more.       *)
Publish(p) ==
    LET e == First(p)
        free == {k \in 1..MaxCopies : msg[<<e, k>>].at = "absent"}
    IN /\ publisher[p].phase = "ready" /\ publisher[p].todo # {}
       /\ publisher' = [publisher EXCEPT ![p].phase = "sent"]
       /\ \/ InStream(e) /\ UNCHANGED msg
          \/ free # {} /\ msg' = [msg EXCEPT ![<<e, Min(free)>>].at = "waiting"]
       /\ UNCHANGED <<outbox, processed, worker, bounds>>

(* Faulty: a row is marked whether or not it was sent. *)
MarkPublished_Early(p) ==
    /\ publisher[p].phase # "claiming" /\ publisher[p].todo # {} /\ ~Locked(First(p))
    /\ outbox' = [outbox EXCEPT ![First(p)] = "published"]
    /\ publisher' = [publisher EXCEPT ![p] = WithRows(@.todo \ {First(p)})]
    /\ UNCHANGED <<msg, processed, worker, bounds>>

(* The update waits for a claim that holds the row.                         *)
MarkPublished(p) ==
    /\ publisher[p].phase = "sent" /\ ~Locked(First(p))
    /\ outbox' = [outbox EXCEPT ![First(p)] = "published"]
    /\ publisher' = [publisher EXCEPT ![p] = WithRows(@.todo \ {First(p)})]
    /\ UNCHANGED <<msg, processed, worker, bounds>>

(* Any exception ends the process, and its connection; Compose starts it    *)
(* again.                                                                   *)
PublisherCrash(p) ==
    /\ publisher[p] # WithRows({}) /\ crashes < MaxCrashes
    /\ crashes' = crashes + 1
    /\ publisher' = [publisher EXCEPT ![p] = WithRows({})]
    /\ UNCHANGED <<outbox, msg, processed, worker, failures, faults>>

-------------------------------------------------------------------------------
(* JetStream: the durable consumer *)

Deliver(w, m) ==
    /\ worker[w].pc = "idle"
    /\ msg[m].at = "waiting"
    /\ msg' = [msg EXCEPT ![m] = [at |-> "out", count |-> @.count + 1]]
    /\ worker' = [worker EXCEPT ![w] = [pc |-> "claim", m |-> m]]
    /\ UNCHANGED <<outbox, publisher, processed, bounds>>

(* Faulty: without the delivery limit. *)
Back_Unlimited(message) == IF message.at # "out" THEN message ELSE [message EXCEPT !.at = "waiting"]

(* A message that comes back is handed out again, up to max_deliver.        *)
Back(message) ==
    IF message.at # "out" THEN message
    ELSE [message EXCEPT !.at = IF message.count < MaxDeliver THEN "waiting" ELSE "dead"]

(* An acknowledgement counts whichever delivery it answers. *)
Acked(message) == IF message.at = "dead" THEN message ELSE [message EXCEPT !.at = "acked"]

AckWait(m) ==
    /\ msg[m].at = "out"
    /\ \/ Pace # "quick"
       \/ \A w \in Workers : worker[w].pc \in {"idle", "down"} \/ worker[w].m # m
    /\ msg' = [msg EXCEPT ![m] = Back(@)]
    /\ UNCHANGED <<outbox, publisher, processed, worker, bounds>>

-------------------------------------------------------------------------------
(* JetStreamConsumer.handle and PostgresProcessedEvents *)

Goes(w, pc) == worker' = [worker EXCEPT ![w].pc = pc]

Fault == faults < MaxFaults /\ faults' = faults + 1 /\ UNCHANGED <<failures, crashes>>
NoFault == UNCHANGED bounds

(* Faulty: a busy event is acknowledged as if it were done. *)
Claim_Acks(status) == IF status \in {"none", "stale"} THEN "handling" ELSE "suppress"

(* claim: insert, or take over a claim that has been processing too long. *)
Claim(status) ==
    CASE status \in {"none", "stale"} -> "handling"
      [] status = "completed" -> "suppress"
      [] status = "processing" -> "nak"

ClaimEvent(w) ==
    LET outcome == Claim(processed[Event(w)])
    IN /\ worker[w].pc = "claim"
       /\ Goes(w, outcome)
       /\ processed' = IF outcome = "handling"
                       THEN [processed EXCEPT ![Event(w)] = "processing"] ELSE processed
       /\ NoFault
       /\ UNCHANGED <<outbox, publisher, msg>>

HandlerReturns(w) ==
    /\ worker[w].pc = "handling"
    /\ Goes(w, "complete")
    /\ UNCHANGED <<outbox, publisher, msg, processed, bounds>>

HandlerRaises(w) ==
    /\ worker[w].pc = "handling" /\ failures < MaxFailures
    /\ failures' = failures + 1
    /\ Goes(w, "release")
    /\ UNCHANGED <<outbox, publisher, msg, processed, faults, crashes>>

(* complete: an UPDATE, which finds no row when the claim has been deleted. *)
Completed(status) == IF status = "none" THEN "none" ELSE "completed"

(* Faulty: a completion deletes like a failure does. *)
Released_Always(status) == "none"

(* release: a DELETE of a row still 'processing', whoever claimed it. *)
Released(status) == IF status = "completed" THEN "completed" ELSE "none"

Records(w, status) == processed' = [processed EXCEPT ![Event(w)] = status]

(* The update may have been committed although the call fails. *)
Complete(w) ==
    /\ worker[w].pc = "complete"
    /\ \/ Records(w, Completed(processed[Event(w)])) /\ Goes(w, "ack") /\ NoFault
       \/ /\ Records(w, Completed(processed[Event(w)])) \/ UNCHANGED processed
          /\ Goes(w, "release") /\ Fault
    /\ UNCHANGED <<outbox, publisher, msg>>

(* The acknowledgement of the first delivery is inside the try, the one of  *)
(* a duplicate is not.                                                      *)
Ack(w) ==
    /\ worker[w].pc \in {"ack", "suppress"}
    /\ \/ /\ msg' = [msg EXCEPT ![worker[w].m] = Acked(@)]
          /\ Goes(w, "idle") /\ NoFault
       \/ /\ UNCHANGED msg
          /\ Goes(w, IF worker[w].pc = "ack" THEN "release" ELSE "idle") /\ Fault
    /\ UNCHANGED <<outbox, publisher, processed>>

(* Faulty: the claim is left as it is. *)
Release_Forgotten(w) ==
    /\ worker[w].pc = "release"
    /\ Goes(w, "nak") /\ NoFault
    /\ UNCHANGED <<outbox, publisher, msg, processed>>

(* When release itself fails nothing else is done: the delivery times out. *)
Release(w) ==
    /\ worker[w].pc = "release"
    /\ \/ Records(w, Released(processed[Event(w)])) /\ Goes(w, "nak") /\ NoFault
       \/ /\ Records(w, Released(processed[Event(w)])) \/ UNCHANGED processed
          /\ Goes(w, "idle") /\ Fault
    /\ UNCHANGED <<outbox, publisher, msg>>

(* Faulty: a failed delivery is acknowledged. *)
Nak_Acks(w) ==
    /\ worker[w].pc = "nak"
    /\ Goes(w, "idle") /\ NoFault
    /\ msg' = [msg EXCEPT ![worker[w].m] = Acked(@)]
    /\ UNCHANGED <<outbox, publisher, processed>>

(* nak(1) for a busy claim, nak(5) after a failure. *)
Nak(w) ==
    /\ worker[w].pc = "nak"
    /\ Goes(w, "idle")
    /\ \/ msg' = [msg EXCEPT ![worker[w].m] = Back(@)] /\ NoFault
       \/ UNCHANGED msg /\ Fault
    /\ UNCHANGED <<outbox, publisher, processed>>

(* The claim call fails outside the try: callback only logs it. *)
ClaimFails(w) ==
    /\ worker[w].pc = "claim"
    /\ \/ UNCHANGED processed
       \/ /\ Claim(processed[Event(w)]) = "handling"
          /\ Records(w, "processing")
    /\ Goes(w, "idle") /\ Fault
    /\ UNCHANGED <<outbox, publisher, msg>>

WorkerCrash(w) ==
    /\ worker[w].pc # "down" /\ crashes < MaxCrashes
    /\ crashes' = crashes + 1
    /\ Goes(w, "down")
    /\ UNCHANGED <<outbox, publisher, msg, processed, failures, faults>>

WorkerRestart(w) ==
    /\ worker[w].pc = "down"
    /\ Goes(w, "idle")
    /\ UNCHANGED <<outbox, publisher, msg, processed, bounds>>

(* Five minutes pass since the claim.  The deliveries of a message that is  *)
(* neither acknowledged nor exhausted take less than that together, unless  *)
(* no consumer runs; and only a stuck consumer holds a claim for so long.   *)
ClaimGrowsStale(e) ==
    /\ processed[e] = "processing"
    /\ Pace = "stuck" \/ \A w \in Workers : ~Holds(w, e)
    /\ \/ \A w \in Workers : worker[w].pc = "down"
       \/ \A k \in 1..MaxCopies : msg[<<e, k>>].at \notin {"waiting", "out"}
    /\ processed' = [processed EXCEPT ![e] = "stale"]
    /\ UNCHANGED <<outbox, publisher, msg, worker, bounds>>

-------------------------------------------------------------------------------

PublisherStep(p) == ClaimRows(p) \/ LockRow(p) \/ EndClaim(p) \/ Publish(p) \/ MarkPublished(p)

WorkerStep(w) ==
    \/ ClaimEvent(w) \/ ClaimFails(w)
    \/ HandlerReturns(w) \/ HandlerRaises(w)
    \/ Complete(w) \/ Ack(w) \/ Release(w) \/ Nak(w)
    \/ WorkerRestart(w)

Next ==
    \/ \E e \in Events : Append(e) \/ ClaimGrowsStale(e)
    \/ \E q \in {ProjectOf[e] : e \in Events} : Commit(q) \/ Abort(q)
    \/ \E p \in Publishers : PublisherStep(p) \/ PublisherCrash(p)
    \/ \E w \in Workers : WorkerStep(w) \/ WorkerCrash(w)
    \/ \E m \in Messages : AckWait(m) \/ \E w \in Workers : Deliver(w, m)

Spec == Init /\ [][Next]_vars

(* The loops of the two programs run while their processes do, Compose      *)
(* restarts a process, and the NATS server hands out what is waiting; no    *)
(* save and no takeover of a claim has to happen.                           *)
Fairness ==
    /\ \A p \in Publishers : WF_vars(PublisherStep(p))
    /\ \A w \in Workers : WF_vars(WorkerStep(w))
    /\ \A m \in Messages : WF_vars(AckWait(m)) /\ WF_vars(\E w \in Workers : Deliver(w, m))

FairSpec == Spec /\ Fairness

-------------------------------------------------------------------------------
(* Safety *)

(* Consumers "acknowledge only after completion is recorded"                 *)
(* (docs/runtime-topology.md:5): a message that will not be handed out again *)
(* for being acknowledged is one whose completion is in the table.           *)
AckedMeansCompleted ==
    \A m \in Messages : msg[m].at = "acked" => processed[m[1]] = "completed"

(* The claim keeps an event to one handler, although messages are handed out *)
(* twice, an event is in the stream twice and claims are taken over.         *)
OneHolderAtATime ==
    \A v, w \in Workers, e \in Events : Holds(v, e) /\ Holds(w, e) => v = w

(* Events of one project enter the stream in the order they happened in      *)
(* (ORDER BY occurred_at, outbox.py:42), whichever batches and crashes there *)
(* are.  It takes the one publisher Compose runs, or at least claims that do *)
(* not overlap: what one claim has locked the other skips (SKIP LOCKED,      *)
(* outbox.py:43) and then sends what comes later.                            *)
StreamInProjectOrder ==
    \A e, f \in Events :
        e < f /\ ProjectOf[e] = ProjectOf[f] /\ InStream(f) /\ outbox[e] # "aborted"
        => InStream(e)

ClaimsApart ==
    \A p, q \in Publishers : publisher[p].phase = "claiming" /\ publisher[q].phase = "claiming" => p = q

(* A row is marked published only when its event is in the stream, and only  *)
(* committed events ever are: no event is lost or invented by the publisher  *)
(* ("Publish committed PostgreSQL outbox events", event_worker.py:1).        *)
PublishedIsInStream ==
    \A e \in Events : /\ outbox[e] = "published" => InStream(e)
                      /\ InStream(e) => Committed(e)

(* Liveness *)

(* "Failures release the claim and negatively acknowledge with backoff.      *)
(* Delivery is attempted up to five times" (docs/runtime-topology.md:5): as  *)
(* long as no process or call fails, a committed event whose handler raises  *)
(* less often than it is delivered is completed.                             *)
FailuresAreRetried ==
    \A e \in Events : Committed(e) ~> \/ processed[e] = "completed"
                                     \/ faults + crashes > 0

(* A committed event is completed or its messages are exhausted, whatever    *)
(* crashes and fails on the way: nothing waits forever.                      *)
EveryEventSettles ==
    \A e \in Events :
        Committed(e) ~> \/ processed[e] = "completed"
                        \/ \E k \in 1..MaxCopies : msg[<<e, k>>].at = "dead"

(* "At-least-once consumer; event IDs make handlers replay-safe."            *)
(* (jetstream.py:56): a committed event is handled to the end at last, also  *)
(* when a consumer crashes and is started again.                             *)
EveryEventHandled == \A e \in Events : Committed(e) ~> processed[e] = "completed"

-------------------------------------------------------------------------------
(* Refinement: the pipeline keeps what EventLog promises. *)

Handling(e) == \E w \in Workers : worker[w].pc \in {"handling", "complete"} /\ Event(w) = e

Log == INSTANCE EventLog WITH
         committed <- {e \in Events : Committed(e)},
         running <- {e \in Events : Handling(e)},
         done <- {e \in Events : processed[e] = "completed"}
OrderlyHandling == Log!Spec
===============================================================================
