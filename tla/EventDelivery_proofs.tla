------------------------- MODULE EventDelivery_proofs -------------------------
(***************************************************************************)
(* Proofs about the event pipeline, for any number of events, projects,    *)
(* publishers, consumers, copies, failures and crashes.                    *)
(***************************************************************************)
EXTENDS EventDelivery, SetTheorems, TLAPS

(* A message that waits has deliveries left. *)
CountsOK ==
    \A m \in Messages : /\ msg[m].at = "absent" => msg[m].count = 0
                        /\ msg[m].at = "waiting" => msg[m].count < MaxDeliver

(* A consumer between its claim and the end of it: also while it            *)
(* acknowledges, for a failed acknowledgement leads to a release.           *)
Working(w, e) == worker[w].pc \in {"handling", "complete", "ack", "release"} /\ Event(w) = e

OneWorkerEach == \A v, w \in Workers, e \in Events : Working(v, e) /\ Working(w, e) => v = w

(* What the claim table says about what a consumer is at.                   *)
ClaimsHeld ==
    \A w \in Workers :
        /\ worker[w].pc \in {"handling", "complete"} => processed[Event(w)] = "processing"
        /\ worker[w].pc = "release" => processed[Event(w)] \in {"processing", "completed"}
        /\ worker[w].pc \in {"ack", "suppress"} => processed[Event(w)] = "completed"

ClaimsOK == OneWorkerEach /\ ClaimsHeld /\ AckedMeansCompleted

(* What a publisher has found and claimed is committed, what it has sent is *)
(* in the stream, and it has rows as long as it is busy with them.          *)
PublishersOK ==
    \A p \in Publishers :
        /\ \A e \in publisher[p].found \cup publisher[p].todo : Committed(e)
        /\ publisher[p].phase = "sent" => publisher[p].todo # {} /\ InStream(First(p))
        /\ publisher[p].phase # "claiming" => publisher[p].found = {}

(* Rows are claimed from the first on, and nothing earlier of the same      *)
(* project is still to come.                                                *)
ClaimsInOrder ==
    \A p \in Publishers :
        /\ \A e \in publisher[p].todo, f \in publisher[p].found : e < f
        /\ \A e, f \in Events :
              /\ f \in publisher[p].found \cup publisher[p].todo
              /\ e < f /\ ProjectOf[e] = ProjectOf[f] /\ outbox[e] # "aborted"
              => e \in publisher[p].found \cup publisher[p].todo \/ InStream(e)

OrderOK == ClaimsInOrder /\ StreamInProjectOrder

(* Stamps are given in order, and a project's transactions are in order.    *)
OutboxOK ==
    \A e, f \in Events :
        /\ e < f /\ outbox[f] # "none" => outbox[e] # "none"
        /\ e < f /\ ProjectOf[e] = ProjectOf[f] /\ Committed(f) => outbox[e] # "open"

(* Only committed events are in the stream or with a consumer.              *)
MessagesOK ==
    /\ \A m \in Messages : msg[m].at # "absent" => Committed(m[1])
    /\ \A w \in Workers : worker[w].pc \notin {"idle", "down"}
                          => Committed(Event(w)) /\ msg[worker[w].m].at # "absent"

StreamOK == OutboxOK /\ PublishersOK /\ PublishedIsInStream /\ MessagesOK

-------------------------------------------------------------------------------
(* Types *)

LEMMA MessageParts ==
    ASSUME NEW m \in Messages
    PROVE  m[1] \in Events /\ m[2] \in 1..MaxCopies /\ m = <<m[1], m[2]>>
BY DEF Messages

LEMMA BackTyped ==
    ASSUME NEW message \in Message
    PROVE  /\ Back(message) \in Message /\ Acked(message) \in Message
           /\ message.at # "absent" => Back(message).at # "absent" /\ Acked(message).at # "absent"
           /\ Back(message).at = "acked" => message.at = "acked"
           /\ Back(message).at = "waiting" /\ message.at # "waiting" => Back(message).count < MaxDeliver
           /\ Back(message).count = message.count /\ Acked(message).count = message.count
           /\ Back(message).at = "absent" => message.at = "absent"
           /\ Acked(message).at \in {"dead", "acked"}
BY DEF Back, Acked, Message

LEMMA InitTyped == Init => TypeOK /\ CountsOK
<1> SUFFICES ASSUME Init PROVE TypeOK /\ CountsOK
  OBVIOUS
<1>1. MaxDeliver \in Nat \ {0} /\ MaxFailures \in Nat /\ MaxFaults \in Nat /\ MaxCrashes \in Nat
  BY EventDeliveryAssumption
<1>2. outbox \in [Events -> {"none", "open", "aborted", "pending", "published"}]
  BY DEF Init
<1>3. publisher \in [Publishers -> Publisher]
  BY DEF Init, Publisher, WithRows
<1>4. msg \in [Messages -> Message]
  BY <1>1 DEF Init, Message
<1>5. processed \in [Events -> {"none", "processing", "stale", "completed"}]
  BY DEF Init
<1>6. worker \in [Workers -> Worker]
  <2>1. <<1, 1>> \in Messages
    BY EventDeliveryAssumption DEF Messages, Events
  <2>2. (CHOOSE m \in Messages : TRUE) \in Messages
    BY <2>1
  <2> QED
    BY <2>2 DEF Init, Worker, ControlPoint
<1> QED
  BY <1>1, <1>2, <1>3, <1>4, <1>5, <1>6 DEF Init, TypeOK, CountsOK

(* Where a consumer goes keeps its type. *)
LEMMA GoesTyped ==
    ASSUME TypeOK, NEW w \in Workers, NEW pc \in ControlPoint, Goes(w, pc)
    PROVE  worker' \in [Workers -> Worker]
BY DEF TypeOK, Goes, Worker

LEMMA FaultTyped ==
    ASSUME TypeOK, Fault \/ NoFault
    PROVE  failures' \in 0..MaxFailures /\ faults' \in 0..MaxFaults /\ crashes' \in 0..MaxCrashes
BY EventDeliveryAssumption DEF TypeOK, Fault, NoFault, bounds

LEMMA EventTyped ==
    ASSUME TypeOK, NEW w \in Workers
    PROVE  worker[w].m \in Messages /\ Event(w) \in Events /\ worker[w].pc \in ControlPoint
BY MessageParts DEF TypeOK, Worker, Event

LEMMA RecordsTyped ==
    ASSUME TypeOK, NEW w \in Workers,
           NEW status \in {"none", "processing", "stale", "completed"}, Records(w, status)
    PROVE  processed' \in [Events -> {"none", "processing", "stale", "completed"}]
BY EventTyped DEF TypeOK, Records

(* The row a claim comes to next is the first of those it has found.        *)
LEMMA NextRow ==
    ASSUME TypeOK, NEW p \in Publishers, publisher[p].found # {}
    PROVE  /\ Min(publisher[p].found) \in publisher[p].found /\ Min(publisher[p].found) \in Events
           /\ \A e \in publisher[p].found : Min(publisher[p].found) <= e
<1>1. publisher[p].found \subseteq Nat /\ publisher[p].found \subseteq Events
  BY DEF TypeOK, Publisher, Events
<1> QED
  BY <1>1, MinOfNaturals

(* What the steps of a claim do with the rows. *)
LEMMA ClaimSteps ==
    ASSUME TypeOK, NEW p \in Publishers, ClaimRows(p) \/ LockRow(p) \/ EndClaim(p)
    PROVE  /\ publisher' \in [Publishers -> Publisher]
           /\ UNCHANGED <<outbox, msg, processed, worker, bounds>>
           /\ \A r \in Publishers \ {p} : publisher'[r] = publisher[r]
           /\ ClaimRows(p) => /\ publisher'[p].phase = "claiming" /\ publisher'[p].found = Pending
                              /\ publisher'[p].todo = {}
           /\ LockRow(p) => /\ publisher'[p].phase = "claiming" /\ publisher[p].phase = "claiming"
                            /\ publisher[p].found # {}
                            /\ publisher'[p].found = publisher[p].found \ {Min(publisher[p].found)}
                            /\ publisher'[p].todo = publisher[p].todo
                                 \cup (IF /\ outbox[Min(publisher[p].found)] = "pending"
                                          /\ ~Locked(Min(publisher[p].found))
                                       THEN {Min(publisher[p].found)} ELSE {})
           /\ EndClaim(p) => /\ publisher[p].phase = "claiming" /\ publisher'[p].phase = "ready"
                             /\ publisher'[p].found = {} /\ publisher'[p].todo = publisher[p].todo
<1>1. publisher[p] \in Publisher /\ publisher[p].todo \subseteq Events /\ publisher[p].found \subseteq Events
  BY DEF TypeOK, Publisher
<1>2. CASE ClaimRows(p)
  <2>1. [phase |-> "claiming", found |-> Pending, todo |-> {}] \in Publisher
    BY DEF Publisher, Pending
  <2>2. /\ publisher' = [publisher EXCEPT ![p] = [phase |-> "claiming", found |-> Pending, todo |-> {}]]
        /\ UNCHANGED <<outbox, msg, processed, worker, bounds>> /\ publisher[p].phase = "ready"
    BY <1>2 DEF ClaimRows
  <2>3. ~LockRow(p) /\ ~EndClaim(p)
    BY <2>2 DEF LockRow, EndClaim
  <2> QED BY <2>1, <2>2, <2>3 DEF TypeOK
<1>3. CASE LockRow(p)
  <2>1. Min(publisher[p].found) \in Events
    BY <1>3, NextRow DEF LockRow
  <2> DEFINE g == Min(publisher[p].found)
             taken == IF outbox[g] = "pending" /\ ~Locked(g) THEN {g} ELSE {}
  <2>2. /\ publisher' = [publisher EXCEPT ![p].found = @ \ {g}, ![p].todo = @ \cup taken]
        /\ UNCHANGED <<outbox, msg, processed, worker, bounds>>
        /\ publisher[p].phase = "claiming" /\ publisher[p].found # {}
    BY <1>3 DEF LockRow
  <2>3. ~ClaimRows(p) /\ (EndClaim(p) => FALSE)
    BY <1>3, EventDeliveryAssumption DEF LockRow, ClaimRows, EndClaim
  <2>4. taken \subseteq Events
    BY <2>1
  <2> HIDE DEF g, taken
  <2> QED BY <1>1, <2>2, <2>3, <2>4 DEF TypeOK, Publisher, g, taken
<1>4. CASE EndClaim(p)
  <2>1. WithRows(publisher[p].todo) \in Publisher
    BY <1>1 DEF Publisher, WithRows
  <2>2. publisher' = [publisher EXCEPT ![p] = WithRows(publisher[p].todo)] /\ publisher[p].phase = "claiming"
    BY <1>4 DEF EndClaim
  <2> QED BY <1>4, <2>1, <2>2 DEF TypeOK, ClaimRows, LockRow, EndClaim, WithRows
<1> QED BY <1>2, <1>3, <1>4

(* A publisher marks a row it has sent, or loses all of its claim. *)
LEMMA MarkSteps ==
    ASSUME TypeOK, NEW p \in Publishers, MarkPublished(p) \/ PublisherCrash(p)
    PROVE  /\ publisher' \in [Publishers -> Publisher]
           /\ UNCHANGED <<msg, processed, worker>>
           /\ \A r \in Publishers \ {p} : publisher'[r] = publisher[r]
           /\ publisher'[p].phase = "ready" /\ publisher'[p].found = {}
           /\ MarkPublished(p) => publisher'[p].todo = publisher[p].todo \ {First(p)}
           /\ PublisherCrash(p) => publisher'[p].todo = {}
<1>1. publisher[p].todo \subseteq Events
  BY DEF TypeOK, Publisher
<1>2. WithRows(publisher[p].todo \ {First(p)}) \in Publisher /\ WithRows({}) \in Publisher
  BY <1>1 DEF Publisher, WithRows
<1>3. \A rows : /\ WithRows(rows).phase = "ready" /\ WithRows(rows).found = {}
                /\ WithRows(rows).todo = rows
  BY DEF WithRows
<1>4. ASSUME NEW rows, WithRows(rows) \in Publisher,
             publisher' = [publisher EXCEPT ![p] = WithRows(rows)]
      PROVE  /\ publisher' \in [Publishers -> Publisher]
             /\ \A r \in Publishers \ {p} : publisher'[r] = publisher[r]
             /\ publisher'[p].phase = "ready" /\ publisher'[p].found = {} /\ publisher'[p].todo = rows
  BY <1>3, <1>4 DEF TypeOK
<1>5. CASE MarkPublished(p)
  <2>1. /\ publisher' = [publisher EXCEPT ![p] = WithRows(publisher[p].todo \ {First(p)})]
        /\ UNCHANGED <<msg, processed, worker>>
    BY <1>5 DEF MarkPublished
  <2>2. /\ publisher' \in [Publishers -> Publisher]
        /\ \A r \in Publishers \ {p} : publisher'[r] = publisher[r]
        /\ publisher'[p].phase = "ready" /\ publisher'[p].found = {}
        /\ publisher'[p].todo = publisher[p].todo \ {First(p)}
    BY <1>2, <1>4, <2>1
  <2>3. PublisherCrash(p) => publisher'[p].todo = {}
    BY <1>2, <1>4 DEF PublisherCrash
  <2> QED BY <2>1, <2>2, <2>3
<1>6. CASE PublisherCrash(p) /\ ~MarkPublished(p)
  <2>1. publisher' = [publisher EXCEPT ![p] = WithRows({})] /\ UNCHANGED <<msg, processed, worker>>
    BY <1>6 DEF PublisherCrash
  <2> QED BY <1>2, <1>4, <1>6, <2>1
<1> QED BY <1>5, <1>6

(* The transactions and the publishers keep types. *)
LEMMA OutboxTyped ==
    ASSUME TypeOK, CountsOK,
           \/ \E e \in Events : Append(e)
           \/ \E q \in {ProjectOf[e] : e \in Events} : Commit(q) \/ Abort(q)
           \/ \E p \in Publishers : ClaimRows(p) \/ LockRow(p) \/ EndClaim(p) \/ MarkPublished(p)
                                     \/ PublisherCrash(p)
    PROVE  TypeOK' /\ CountsOK'
<1>1. outbox' \in [Events -> {"none", "open", "aborted", "pending", "published"}]
  BY DEF TypeOK, Append, Commit, Abort, ClaimRows, LockRow, EndClaim, MarkPublished, PublisherCrash
<1>2. publisher' \in [Publishers -> Publisher]
  <2>1. CASE UNCHANGED publisher
    BY <2>1 DEF TypeOK
  <2>2. CASE \E p \in Publishers : ClaimRows(p) \/ LockRow(p) \/ EndClaim(p)
    BY <2>2, ClaimSteps
  <2>3. CASE \E p \in Publishers : MarkPublished(p) \/ PublisherCrash(p)
    BY <2>3, MarkSteps
  <2>4. UNCHANGED publisher \/ \E p \in Publishers : \/ ClaimRows(p) \/ LockRow(p) \/ EndClaim(p)
                                                   \/ MarkPublished(p) \/ PublisherCrash(p)
    BY DEF Append, Commit, Abort
  <2> QED BY <2>1, <2>2, <2>3, <2>4
<1>3. UNCHANGED <<msg, processed, worker, failures, faults>>
  BY DEF Append, Commit, Abort, ClaimRows, LockRow, EndClaim, MarkPublished, PublisherCrash, bounds
<1>4. crashes' \in 0..MaxCrashes
  <2>1. UNCHANGED crashes \/ (crashes < MaxCrashes /\ crashes' = crashes + 1)
    <3>1. CASE \E p \in Publishers : PublisherCrash(p)
      BY <3>1 DEF PublisherCrash
    <3>2. CASE ~ \E p \in Publishers : PublisherCrash(p)
      BY <3>2 DEF bounds, Append, Commit, Abort, ClaimRows, LockRow, EndClaim, MarkPublished
    <3> QED BY <3>1, <3>2
  <2> QED BY <2>1, EventDeliveryAssumption DEF TypeOK
<1> QED
  BY <1>1, <1>2, <1>3, <1>4 DEF TypeOK, CountsOK

(* What a publisher sends goes to a place of the stream that is free, the   *)
(* first time to the first.                                                 *)
LEMMA PublishFacts ==
    ASSUME TypeOK, NEW p \in Publishers, Publish(p)
    PROVE  /\ First(p) \in publisher[p].todo /\ \A e \in publisher[p].todo : First(p) <= e
           /\ First(p) \in Events
           /\ \/ InStream(First(p)) /\ UNCHANGED msg
              \/ \E k \in 1..MaxCopies :
                    /\ msg[<<First(p), k>>].at = "absent" /\ (InStream(First(p)) \/ k = 1)
                    /\ msg' = [msg EXCEPT ![<<First(p), k>>].at = "waiting"]
<1>1. publisher[p].todo \subseteq Nat /\ publisher[p].todo # {} /\ publisher[p].todo \subseteq Events
  BY DEF TypeOK, Publisher, Publish, Events
<1>2. First(p) \in publisher[p].todo /\ \A e \in publisher[p].todo : First(p) <= e
  BY <1>1, MinOfNaturals DEF First
<1> DEFINE free == {k \in 1..MaxCopies : msg[<<First(p), k>>].at = "absent"}
<1>3. free # {} => Min(free) \in free /\ \A k \in free : Min(free) <= k
  <2>1. free \subseteq Nat
    OBVIOUS
  <2> QED
    BY <2>1, MinOfNaturals
<1>4. ~InStream(First(p)) => 1 \in free
  BY EventDeliveryAssumption DEF InStream
<1>5. free # {} /\ ~InStream(First(p)) => Min(free) = 1
  BY <1>3, <1>4
<1>6. \/ InStream(First(p)) /\ UNCHANGED msg
      \/ free # {} /\ msg' = [msg EXCEPT ![<<First(p), Min(free)>>].at = "waiting"]
  BY DEF Publish
<1> QED
  BY <1>1, <1>2, <1>3, <1>5, <1>6

LEMMA PublishTyped ==
    ASSUME TypeOK, CountsOK, NEW p \in Publishers, Publish(p)
    PROVE  TypeOK' /\ CountsOK'
<1>1. UNCHANGED <<outbox, processed, worker, failures, faults, crashes>>
  BY DEF Publish, bounds
<1>2. publisher' \in [Publishers -> Publisher]
  BY DEF TypeOK, Publish, Publisher
<1>3. msg' \in [Messages -> Message] /\ CountsOK'
  <2>1. CASE UNCHANGED msg
    BY <2>1 DEF TypeOK, CountsOK
  <2>2. ASSUME NEW k \in 1..MaxCopies, msg[<<First(p), k>>].at = "absent",
               msg' = [msg EXCEPT ![<<First(p), k>>].at = "waiting"]
        PROVE  msg' \in [Messages -> Message] /\ CountsOK'
    <3>1. <<First(p), k>> \in Messages
      BY PublishFacts DEF Messages
    <3>2. msg[<<First(p), k>>].count = 0 /\ 0 < MaxDeliver
      BY <2>2, <3>1, EventDeliveryAssumption DEF CountsOK
    <3> QED
      BY <2>2, <3>1, <3>2 DEF TypeOK, CountsOK, Message
  <2> QED
    BY <2>1, <2>2, PublishFacts
<1> QED
  BY <1>1, <1>2, <1>3 DEF TypeOK

LEMMA DeliverTyped ==
    ASSUME TypeOK, CountsOK, NEW w \in Workers, NEW m \in Messages, Deliver(w, m)
    PROVE  TypeOK' /\ CountsOK'
<1>1. UNCHANGED <<outbox, publisher, processed, failures, faults, crashes>>
  BY DEF Deliver, bounds
<1>2. worker' \in [Workers -> Worker]
  BY DEF TypeOK, Deliver, Worker, ControlPoint
<1>3. msg[m] \in Message /\ msg[m].count + 1 \in 0..MaxDeliver
  BY EventDeliveryAssumption DEF TypeOK, CountsOK, Deliver, Message
<1>4. [at |-> "out", count |-> msg[m].count + 1] \in Message
  BY <1>3 DEF Message
<1>5. msg' = [msg EXCEPT ![m] = [at |-> "out", count |-> msg[m].count + 1]]
  BY DEF Deliver
<1>6. msg' \in [Messages -> Message] /\ CountsOK'
  BY <1>4, <1>5 DEF TypeOK, CountsOK
<1> QED
  BY <1>1, <1>2, <1>6 DEF TypeOK

(* A message that comes back, or is acknowledged, keeps type and count. *)
LEMMA BackCounts ==
    ASSUME TypeOK, CountsOK, NEW m \in Messages,
           \/ UNCHANGED msg
           \/ msg' = [msg EXCEPT ![m] = Back(@)]
           \/ msg' = [msg EXCEPT ![m] = Acked(@)]
    PROVE  msg' \in [Messages -> Message] /\ CountsOK'
<1>1. /\ msg[m] \in Message /\ Back(msg[m]) \in Message /\ Acked(msg[m]) \in Message
      /\ Back(msg[m]).at = "waiting" => Back(msg[m]).count < MaxDeliver
      /\ Back(msg[m]).at = "absent" => Back(msg[m]).count = 0
      /\ Acked(msg[m]).at \in {"dead", "acked"}
  BY BackTyped DEF TypeOK, CountsOK
<1>2. CASE msg' = [msg EXCEPT ![m] = Back(@)]
  BY <1>1, <1>2 DEF TypeOK, CountsOK
<1>3. CASE msg' = [msg EXCEPT ![m] = Acked(@)]
  BY <1>1, <1>3 DEF TypeOK, CountsOK
<1> QED
  BY <1>2, <1>3 DEF TypeOK, CountsOK

LEMMA AckWaitTyped ==
    ASSUME TypeOK, CountsOK, NEW m \in Messages, AckWait(m)
    PROVE  TypeOK' /\ CountsOK'
BY BackCounts DEF TypeOK, AckWait, bounds

(* The steps of a consumer keep types. *)
LEMMA WorkerTyped ==
    ASSUME TypeOK, CountsOK, NEW w \in Workers, WorkerStep(w) \/ WorkerCrash(w)
    PROVE  TypeOK' /\ CountsOK'
<1>1. worker' \in [Workers -> Worker]
  <2>1. \E pc \in ControlPoint : Goes(w, pc)
    <3>1. Claim(processed[Event(w)]) \in ControlPoint
      BY EventTyped DEF Claim, TypeOK, ControlPoint
    <3>2. CASE ClaimEvent(w)
      BY <3>1, <3>2 DEF ClaimEvent
    <3>3. CASE ClaimFails(w) \/ HandlerReturns(w) \/ HandlerRaises(w)
      BY <3>3 DEF ClaimFails, HandlerReturns, HandlerRaises, ControlPoint
    <3>4. CASE Complete(w)
      BY <3>4 DEF Complete, ControlPoint
    <3>5. CASE Ack(w)
      BY <3>5 DEF Ack, ControlPoint
    <3>6. CASE Release(w) \/ Nak(w) \/ WorkerRestart(w) \/ WorkerCrash(w)
      BY <3>6 DEF Release, Nak, WorkerRestart, WorkerCrash, ControlPoint
    <3> QED
      BY <3>2, <3>3, <3>4, <3>5, <3>6 DEF WorkerStep
  <2> QED
    BY <2>1, GoesTyped
<1>2. processed' \in [Events -> {"none", "processing", "stale", "completed"}]
  <2>1. Event(w) \in Events
    BY EventTyped
  <2>2. \/ UNCHANGED processed
        \/ \E status \in {"none", "processing", "stale", "completed"} : Records(w, status)
    BY <2>1 DEF WorkerStep, ClaimEvent, Claim, ClaimFails, HandlerReturns, HandlerRaises, Complete,
           Ack, Release, Nak, WorkerRestart, WorkerCrash, Records, Completed, Released, TypeOK
  <2> QED
    BY <2>2, RecordsTyped DEF TypeOK
<1>3. failures' \in 0..MaxFailures /\ faults' \in 0..MaxFaults /\ crashes' \in 0..MaxCrashes
  BY EventDeliveryAssumption
     DEF TypeOK, Fault, NoFault, bounds, WorkerStep, ClaimEvent, ClaimFails, HandlerReturns,
         HandlerRaises, Complete, Ack, Release, Nak, WorkerRestart, WorkerCrash
<1>4. msg' \in [Messages -> Message] /\ CountsOK'
  <2>1. worker[w].m \in Messages
    BY EventTyped
  <2>2. \/ UNCHANGED msg
        \/ msg' = [msg EXCEPT ![worker[w].m] = Back(@)]
        \/ msg' = [msg EXCEPT ![worker[w].m] = Acked(@)]
    BY DEF WorkerStep, ClaimEvent, ClaimFails, HandlerReturns, HandlerRaises, Complete, Ack,
           Release, Nak, WorkerRestart, WorkerCrash
  <2> QED
    BY <2>1, <2>2, BackCounts
<1>5. UNCHANGED <<outbox, publisher>>
  BY DEF WorkerStep, ClaimEvent, ClaimFails, HandlerReturns, HandlerRaises, Complete, Ack,
         Release, Nak, WorkerRestart, WorkerCrash
<1> QED
  BY <1>1, <1>2, <1>3, <1>4, <1>5 DEF TypeOK

LEMMA StaleTyped ==
    ASSUME TypeOK, CountsOK, NEW e \in Events, ClaimGrowsStale(e)
    PROVE  TypeOK' /\ CountsOK'
BY DEF TypeOK, CountsOK, ClaimGrowsStale, bounds

LEMMA NextTyped == TypeOK /\ CountsOK /\ [Next]_vars => TypeOK' /\ CountsOK'
<1> SUFFICES ASSUME TypeOK, CountsOK, [Next]_vars PROVE TypeOK' /\ CountsOK'
  OBVIOUS
<1>1. CASE UNCHANGED vars
  BY <1>1 DEF vars, bounds, TypeOK, CountsOK
<1>2. CASE \E p \in Publishers : PublisherStep(p) \/ PublisherCrash(p)
  BY <1>2, OutboxTyped, PublishTyped DEF PublisherStep
<1> QED
  BY <1>1, <1>2, OutboxTyped, DeliverTyped, AckWaitTyped, WorkerTyped, StaleTyped DEF Next

(* Every reachable state is well typed; in particular no message is handed  *)
(* out more than max_deliver times.                                         *)
THEOREM TypeCorrect == Spec => []TypeOK
<1>1. Init => TypeOK /\ CountsOK
  BY InitTyped
<1>2. TypeOK /\ CountsOK /\ [Next]_vars => TypeOK' /\ CountsOK'
  BY NextTyped
<1> QED
  BY <1>1, <1>2, PTL DEF Spec

-------------------------------------------------------------------------------
(* One handler at a time *)

LEMMA InitClaims == Init => ClaimsOK
BY DEF Init, ClaimsOK, OneWorkerEach, ClaimsHeld, AckedMeansCompleted, Working

(* What a step of one consumer leaves alone. *)
LEMMA GoesFacts ==
    ASSUME TypeOK, NEW w \in Workers, NEW pc, Goes(w, pc)
    PROVE  /\ worker'[w].pc = pc /\ Event(w)' = Event(w)
           /\ \A v \in Workers \ {w} : worker'[v] = worker[v] /\ Event(v)' = Event(v)
           /\ \A v \in Workers \ {w}, e \in Events : Working(v, e)' <=> Working(v, e)
BY DEF TypeOK, Worker, Goes, Event, Working

(* A consumer that claims an event finds no other at work on it.            *)
LEMMA ClaimedAlone ==
    ASSUME ClaimsHeld, NEW w \in Workers, processed[Event(w)] \in {"none", "stale"}
    PROVE  \A v \in Workers : /\ ~Working(v, Event(w))
                              /\ worker[v].pc = "suppress" => Event(v) # Event(w)
BY DEF ClaimsHeld, Working

LEMMA ClaimEventClaims ==
    ASSUME TypeOK, ClaimsOK, NEW w \in Workers, ClaimEvent(w)
    PROVE  ClaimsOK'
<1> DEFINE e == Event(w)
<1>1. e \in Events /\ processed[e] \in {"none", "processing", "stale", "completed"}
  BY EventTyped DEF TypeOK
<1>2. UNCHANGED msg
  BY DEF ClaimEvent
<1>3. CASE processed[e] \in {"none", "stale"}
  <2>1. Goes(w, "handling") /\ processed' = [processed EXCEPT ![e] = "processing"]
    BY <1>3 DEF ClaimEvent, Claim
  <2>2. \A v \in Workers : ~Working(v, e) /\ (worker[v].pc = "suppress" => Event(v) # e)
    BY <1>3, ClaimedAlone DEF ClaimsOK
  <2>3. OneWorkerEach'
    BY <2>1, <2>2, GoesFacts DEF ClaimsOK, OneWorkerEach, Working
  <2>4. ClaimsHeld'
    <3> SUFFICES ASSUME NEW v \in Workers
        PROVE /\ worker'[v].pc \in {"handling", "complete"} => processed'[Event(v)'] = "processing"
              /\ worker'[v].pc = "release" => processed'[Event(v)'] \in {"processing", "completed"}
              /\ worker'[v].pc \in {"ack", "suppress"} => processed'[Event(v)'] = "completed"
      BY DEF ClaimsHeld, Event
    <3>1. CASE v = w
      BY <3>1, <2>1, <1>1, GoesFacts DEF TypeOK
    <3>2. CASE v # w
      <4>1. worker'[v] = worker[v] /\ Event(v)' = Event(v) /\ Event(v) \in Events
        BY <3>2, <2>1, GoesFacts, EventTyped
      <4>2. Event(v) # e => processed'[Event(v)] = processed[Event(v)]
        BY <2>1, <4>1 DEF TypeOK
      <4>3. worker[v].pc \in {"handling", "complete", "release", "ack", "suppress"} => Event(v) # e
        BY <2>2 DEF Working
      <4> QED
        BY <4>1, <4>2, <4>3 DEF ClaimsOK, ClaimsHeld
    <3> QED
      BY <3>1, <3>2
  <2>5. AckedMeansCompleted'
    BY <1>2, <1>3, <2>1, MessageParts DEF ClaimsOK, AckedMeansCompleted, TypeOK
  <2> QED
    BY <2>3, <2>4, <2>5 DEF ClaimsOK
<1>4. CASE processed[e] = "completed"
  <2>1. Goes(w, "suppress") /\ UNCHANGED processed
    BY <1>4 DEF ClaimEvent, Claim
  <2> QED
    BY <1>2, <1>4, <2>1, GoesFacts
       DEF ClaimsOK, OneWorkerEach, Working, ClaimsHeld, AckedMeansCompleted
<1>5. CASE processed[e] = "processing"
  <2>1. Goes(w, "nak") /\ UNCHANGED processed
    BY <1>5 DEF ClaimEvent, Claim
  <2> QED
    BY <1>2, <1>5, <2>1, GoesFacts
       DEF ClaimsOK, OneWorkerEach, Working, ClaimsHeld, AckedMeansCompleted
<1> QED
  BY <1>1, <1>3, <1>4, <1>5

(* A step of the consumer at work on an event: what it records agrees with  *)
(* where it goes, and a completion is never taken back.                     *)
LEMMA OwnStep ==
    ASSUME TypeOK, ClaimsOK, NEW w \in Workers, NEW pc, NEW status,
           Working(w, Event(w)), Goes(w, pc),
           processed' = [processed EXCEPT ![Event(w)] = status],
           processed[Event(w)] = "completed" => status = "completed",
           pc \in {"handling", "complete"} => status = "processing",
           pc = "release" => status \in {"processing", "completed"},
           pc \in {"ack", "suppress"} => status = "completed",
           \/ UNCHANGED msg
           \/ msg' = [msg EXCEPT ![worker[w].m] = Acked(@)] /\ status = "completed"
    PROVE  ClaimsOK'
<1> DEFINE e == Event(w)
<1>1. e \in Events /\ worker[w].m \in Messages /\ e = worker[w].m[1]
  BY EventTyped DEF Event
<1>2. OneWorkerEach'
  <2>1. \A v \in Workers, f \in Events : Working(v, f)' => Working(v, f)
    BY <1>1, GoesFacts DEF Working
  <2> QED
    BY <2>1 DEF ClaimsOK, OneWorkerEach
<1>3. ClaimsHeld'
  <2> SUFFICES ASSUME NEW v \in Workers
      PROVE /\ worker'[v].pc \in {"handling", "complete"} => processed'[Event(v)'] = "processing"
            /\ worker'[v].pc = "release" => processed'[Event(v)'] \in {"processing", "completed"}
            /\ worker'[v].pc \in {"ack", "suppress"} => processed'[Event(v)'] = "completed"
    BY DEF ClaimsHeld, Event
  <2>1. CASE v = w
    BY <2>1, <1>1, GoesFacts DEF TypeOK
  <2>2. CASE v # w
    <3>1. worker'[v] = worker[v] /\ Event(v)' = Event(v) /\ Event(v) \in Events
      BY <2>2, GoesFacts, EventTyped
    <3>2. Event(v) # e => processed'[Event(v)] = processed[Event(v)]
      BY <3>1 DEF TypeOK
    <3>3. Event(v) = e => worker[v].pc \notin {"handling", "complete", "release", "ack"}
      BY <2>2, <1>1 DEF ClaimsOK, OneWorkerEach, Working
    <3>4. Event(v) = e /\ worker[v].pc = "suppress" => status = "completed"
      BY DEF ClaimsOK, ClaimsHeld
    <3>5. processed'[e] = status
      BY <1>1 DEF TypeOK
    <3> QED
      BY <3>1, <3>2, <3>3, <3>4, <3>5 DEF ClaimsOK, ClaimsHeld
  <2> QED
    BY <2>1, <2>2
<1>4. AckedMeansCompleted'
  <2> SUFFICES ASSUME NEW m \in Messages, msg'[m].at = "acked"
      PROVE  processed'[m[1]] = "completed"
    BY DEF AckedMeansCompleted
  <2>1. m[1] \in Events
    BY MessageParts
  <2>2. processed'[e] = status /\ (m[1] # e => processed'[m[1]] = processed[m[1]])
    BY <1>1, <2>1 DEF TypeOK
  <2>3. CASE msg[m].at = "acked"
    BY <2>2, <2>3 DEF ClaimsOK, AckedMeansCompleted
  <2>4. CASE msg[m].at # "acked"
    <3>1. m = worker[w].m /\ status = "completed"
      BY <1>1, <2>4 DEF TypeOK
    <3> QED
      BY <1>1, <2>2, <3>1
  <2> QED
    BY <2>3, <2>4
<1> QED
  BY <1>2, <1>3, <1>4 DEF ClaimsOK

(* A step that begins no work, records nothing and acknowledges at most     *)
(* what is completed.                                                       *)
LEMMA IdleStep ==
    ASSUME TypeOK, ClaimsOK, NEW w \in Workers, NEW pc \in {"idle", "down", "nak"}, Goes(w, pc),
           UNCHANGED processed,
           \/ UNCHANGED msg
           \/ msg' = [msg EXCEPT ![worker[w].m] = Back(@)]
           \/ msg' = [msg EXCEPT ![worker[w].m] = Acked(@)] /\ processed[Event(w)] = "completed"
    PROVE  ClaimsOK'
<1>1. worker[w].m \in Messages /\ Event(w) = worker[w].m[1] /\ msg[worker[w].m] \in Message
  BY EventTyped DEF Event, TypeOK
<1>2. OneWorkerEach'
  BY GoesFacts DEF ClaimsOK, OneWorkerEach, Working
<1>3. ClaimsHeld'
  BY GoesFacts DEF ClaimsOK, ClaimsHeld
<1>4. AckedMeansCompleted'
  <2>1. CASE UNCHANGED msg
    BY <2>1 DEF ClaimsOK, AckedMeansCompleted
  <2>2. CASE msg' = [msg EXCEPT ![worker[w].m] = Back(@)]
    BY <2>2, <1>1, BackTyped DEF ClaimsOK, AckedMeansCompleted, TypeOK
  <2>3. CASE msg' = [msg EXCEPT ![worker[w].m] = Acked(@)] /\ processed[Event(w)] = "completed"
    BY <2>3, <1>1 DEF ClaimsOK, AckedMeansCompleted, TypeOK
  <2> QED
    BY <2>1, <2>2, <2>3
<1> QED
  BY <1>2, <1>3, <1>4 DEF ClaimsOK

(* What is in the claim table for the consumer at work. *)
LEMMA SameStatus ==
    ASSUME TypeOK, NEW w \in Workers
    PROVE  UNCHANGED processed
           => processed' = [processed EXCEPT ![Event(w)] = processed[Event(w)]]
BY EventTyped DEF TypeOK

LEMMA HandlerClaims ==
    ASSUME TypeOK, ClaimsOK, NEW w \in Workers, HandlerReturns(w) \/ HandlerRaises(w)
    PROVE  ClaimsOK'
<1>1. Working(w, Event(w)) /\ processed[Event(w)] = "processing" /\ UNCHANGED <<processed, msg>>
  BY DEF HandlerReturns, HandlerRaises, Working, ClaimsOK, ClaimsHeld
<1>2. Goes(w, "complete") \/ Goes(w, "release")
  BY DEF HandlerReturns, HandlerRaises
<1> QED
  BY <1>1, <1>2, SameStatus, OwnStep

LEMMA CompleteClaims ==
    ASSUME TypeOK, ClaimsOK, NEW w \in Workers, Complete(w)
    PROVE  ClaimsOK'
<1>1. /\ Working(w, Event(w)) /\ processed[Event(w)] = "processing" /\ UNCHANGED msg
      /\ Completed(processed[Event(w)]) = "completed"
  BY DEF Complete, Working, ClaimsOK, ClaimsHeld, Completed
<1>2. \/ Records(w, "completed") /\ (Goes(w, "ack") \/ Goes(w, "release"))
      \/ UNCHANGED processed /\ Goes(w, "release")
  BY <1>1 DEF Complete
<1> QED
  BY <1>1, <1>2, SameStatus, OwnStep DEF Records

LEMMA AckClaims ==
    ASSUME TypeOK, ClaimsOK, NEW w \in Workers, Ack(w)
    PROVE  ClaimsOK'
<1>1. processed[Event(w)] = "completed" /\ UNCHANGED processed
  BY DEF Ack, ClaimsOK, ClaimsHeld
<1>2. CASE Goes(w, "idle")
  BY <1>1, <1>2, IdleStep DEF Ack
<1>3. CASE worker[w].pc = "ack" /\ Goes(w, "release") /\ UNCHANGED msg
  <2>1. Working(w, Event(w))
    BY <1>3 DEF Working
  <2> QED
    BY <1>1, <1>3, <2>1, SameStatus, OwnStep
<1> QED
  BY <1>2, <1>3 DEF Ack

LEMMA ReleaseClaims ==
    ASSUME TypeOK, ClaimsOK, NEW w \in Workers, Release(w)
    PROVE  ClaimsOK'
<1>1. Working(w, Event(w)) /\ UNCHANGED msg
  BY DEF Release, Working
<1>2. processed[Event(w)] = "completed" => Released(processed[Event(w)]) = "completed"
  BY DEF Released
<1>3. \/ Records(w, Released(processed[Event(w)])) /\ (Goes(w, "nak") \/ Goes(w, "idle"))
      \/ UNCHANGED processed /\ Goes(w, "idle")
  BY DEF Release
<1> QED
  BY <1>1, <1>2, <1>3, SameStatus, OwnStep DEF Records

LEMMA ClaimFailsClaims ==
    ASSUME TypeOK, ClaimsOK, NEW w \in Workers, ClaimFails(w)
    PROVE  ClaimsOK'
<1>1. UNCHANGED msg /\ Goes(w, "idle")
  BY DEF ClaimFails
<1>2. CASE UNCHANGED processed
  BY <1>1, <1>2, IdleStep
<1>3. CASE Claim(processed[Event(w)]) = "handling" /\ Records(w, "processing")
  <2> DEFINE e == Event(w)
  <2>1. e \in Events /\ processed[e] \in {"none", "processing", "stale", "completed"}
    BY EventTyped DEF TypeOK
  <2>2. processed[e] \in {"none", "stale"}
    BY <1>3, <2>1 DEF Claim
  <2>3. \A v \in Workers : ~Working(v, e) /\ (worker[v].pc = "suppress" => Event(v) # e)
    BY <2>2, ClaimedAlone DEF ClaimsOK
  <2>4. processed' = [processed EXCEPT ![e] = "processing"]
    BY <1>3 DEF Records
  <2>5. OneWorkerEach'
    BY <1>1, GoesFacts DEF ClaimsOK, OneWorkerEach, Working
  <2>6. ClaimsHeld'
    <3> SUFFICES ASSUME NEW v \in Workers \ {w}
        PROVE /\ worker[v].pc \in {"handling", "complete"} => processed'[Event(v)] = "processing"
              /\ worker[v].pc = "release" => processed'[Event(v)] \in {"processing", "completed"}
              /\ worker[v].pc \in {"ack", "suppress"} => processed'[Event(v)] = "completed"
      BY <1>1, GoesFacts DEF ClaimsHeld
    <3>1. worker[v].pc \in {"handling", "complete", "release", "ack", "suppress"} => Event(v) # e
      BY <2>3 DEF Working
    <3>2. Event(v) # e => processed'[Event(v)] = processed[Event(v)]
      BY <2>4, EventTyped DEF TypeOK
    <3> QED
      BY <3>1, <3>2 DEF ClaimsOK, ClaimsHeld
  <2>7. AckedMeansCompleted'
    BY <1>1, <2>2, <2>4, MessageParts DEF ClaimsOK, AckedMeansCompleted, TypeOK
  <2> QED
    BY <2>5, <2>6, <2>7 DEF ClaimsOK
<1> QED
  BY <1>2, <1>3 DEF ClaimFails

LEMMA WorkerClaims ==
    ASSUME TypeOK, ClaimsOK, NEW w \in Workers, WorkerStep(w) \/ WorkerCrash(w)
    PROVE  ClaimsOK'
<1>1. CASE Nak(w) \/ WorkerRestart(w) \/ WorkerCrash(w)
  BY <1>1, IdleStep DEF Nak, WorkerRestart, WorkerCrash
<1> QED
  BY <1>1, ClaimEventClaims, ClaimFailsClaims, HandlerClaims, CompleteClaims, AckClaims,
     ReleaseClaims DEF WorkerStep

(* Handing out, taking back and sending acknowledge nothing and begin no work. *)
LEMMA StreamClaims ==
    ASSUME TypeOK, CountsOK, ClaimsOK,
           \/ \E p \in Publishers : Publish(p)
           \/ \E w \in Workers, m \in Messages : Deliver(w, m)
           \/ \E m \in Messages : AckWait(m)
    PROVE  ClaimsOK'
<1>1. UNCHANGED processed
  BY DEF Publish, Deliver, AckWait
<1>2. OneWorkerEach' /\ ClaimsHeld'
  <2>1. CASE UNCHANGED worker
    BY <1>1, <2>1 DEF ClaimsOK, OneWorkerEach, ClaimsHeld, Working, Event
  <2>2. ASSUME NEW w \in Workers, NEW m \in Messages, Deliver(w, m)
        PROVE  OneWorkerEach' /\ ClaimsHeld'
    <3>1. /\ worker'[w].pc = "claim"
          /\ \A v \in Workers \ {w} : worker'[v] = worker[v]
      BY <2>2 DEF Deliver, TypeOK
    <3> QED
      BY <1>1, <3>1 DEF ClaimsOK, OneWorkerEach, ClaimsHeld, Working, Event
  <2> QED
    BY <2>1, <2>2 DEF Publish, AckWait
<1>3. AckedMeansCompleted'
  <2> SUFFICES ASSUME NEW n \in Messages, msg'[n].at = "acked" PROVE msg[n].at = "acked"
    BY <1>1 DEF ClaimsOK, AckedMeansCompleted
  <2>1. CASE \E p \in Publishers : Publish(p)
    BY <2>1, PublishFacts DEF TypeOK, Message
  <2>2. CASE \E w \in Workers, m \in Messages : Deliver(w, m)
    BY <2>2 DEF Deliver, TypeOK, Message
  <2>3. CASE \E m \in Messages : AckWait(m)
    BY <2>3, BackTyped DEF AckWait, TypeOK
  <2> QED
    BY <2>1, <2>2, <2>3
<1> QED
  BY <1>2, <1>3 DEF ClaimsOK

(* A claim that grows stale is held by no consumer, unless one is stuck.    *)
LEMMA StaleClaims ==
    ASSUME Pace # "stuck", TypeOK, ClaimsOK, NEW e \in Events, ClaimGrowsStale(e)
    PROVE  ClaimsOK'
<1>1. processed[e] = "processing" /\ \A w \in Workers : ~Holds(w, e)
  BY DEF ClaimGrowsStale
<1>2. processed' = [processed EXCEPT ![e] = "stale"] /\ UNCHANGED <<msg, worker>>
  BY DEF ClaimGrowsStale
<1>3. \A w \in Workers : worker[w].pc \in {"handling", "complete", "release", "ack", "suppress"}
                         => Event(w) # e
  BY <1>1 DEF ClaimsOK, ClaimsHeld, Holds
<1>4. OneWorkerEach'
  BY <1>2 DEF ClaimsOK, OneWorkerEach, Working, Event
<1>5. ClaimsHeld'
  <2> SUFFICES ASSUME NEW v \in Workers
      PROVE /\ worker[v].pc \in {"handling", "complete"} => processed'[Event(v)] = "processing"
            /\ worker[v].pc = "release" => processed'[Event(v)] \in {"processing", "completed"}
            /\ worker[v].pc \in {"ack", "suppress"} => processed'[Event(v)] = "completed"
    BY <1>2 DEF ClaimsHeld, Event
  <2>1. Event(v) # e => processed'[Event(v)] = processed[Event(v)]
    BY <1>2, EventTyped DEF TypeOK
  <2> QED
    BY <1>3, <2>1 DEF ClaimsOK, ClaimsHeld
<1>6. AckedMeansCompleted'
  BY <1>1, <1>2, MessageParts DEF ClaimsOK, AckedMeansCompleted, TypeOK
<1> QED
  BY <1>4, <1>5, <1>6 DEF ClaimsOK

LEMMA NextClaims ==
    ASSUME Pace # "stuck"
    PROVE  TypeOK /\ CountsOK /\ ClaimsOK /\ [Next]_vars => ClaimsOK'
<1> SUFFICES ASSUME TypeOK, CountsOK, ClaimsOK, [Next]_vars PROVE ClaimsOK'
  OBVIOUS
<1>1. CASE UNCHANGED <<msg, processed, worker>>
  BY <1>1 DEF ClaimsOK, OneWorkerEach, ClaimsHeld, AckedMeansCompleted, Working, Event
<1>2. CASE \E p \in Publishers : PublisherStep(p) \/ PublisherCrash(p)
  <2>1. (\E p \in Publishers : Publish(p)) \/ UNCHANGED <<msg, processed, worker>>
    BY <1>2 DEF PublisherStep, ClaimRows, LockRow, EndClaim, MarkPublished, PublisherCrash
  <2> QED
    BY <1>1, <2>1, StreamClaims
<1>3. CASE \/ \E e \in Events : Append(e)
           \/ \E q \in {ProjectOf[e] : e \in Events} : Commit(q) \/ Abort(q)
  <2>1. UNCHANGED <<msg, processed, worker>>
    BY <1>3 DEF Append, Commit, Abort
  <2> QED
    BY <1>1, <2>1
<1>4. CASE UNCHANGED vars
  BY <1>1, <1>4 DEF vars
<1>5. CASE \E e \in Events : ClaimGrowsStale(e)
  BY <1>5, StaleClaims
<1>6. CASE \E w \in Workers : WorkerStep(w) \/ WorkerCrash(w)
  BY <1>6, WorkerClaims
<1>7. CASE \E m \in Messages : AckWait(m) \/ \E w \in Workers : Deliver(w, m)
  BY <1>7, StreamClaims
<1> QED
  BY <1>2, <1>3, <1>4, <1>5, <1>6, <1>7 DEF Next

LEMMA Claims ==
    ASSUME Pace # "stuck"
    PROVE  Spec => [](TypeOK /\ CountsOK /\ ClaimsOK)
<1>1. Init => TypeOK /\ CountsOK /\ ClaimsOK
  BY InitTyped, InitClaims
<1>2. TypeOK /\ CountsOK /\ ClaimsOK /\ [Next]_vars => (TypeOK /\ CountsOK /\ ClaimsOK)'
  BY NextTyped, NextClaims
<1> QED
  BY <1>1, <1>2, PTL DEF Spec

(* As long as no consumer holds a claim for longer than the takeover, a     *)
(* message is acknowledged only once its completion is recorded.            *)
THEOREM Acknowledged ==
    ASSUME Pace # "stuck"
    PROVE  Spec => []AckedMeansCompleted
<1>1. TypeOK /\ CountsOK /\ ClaimsOK => AckedMeansCompleted
  BY DEF ClaimsOK
<1> QED
  BY <1>1, Claims, PTL

(* Under the same condition no two consumers hold a claim on one event,     *)
(* however often it is in the stream and handed out.                        *)
THEOREM OneHolder ==
    ASSUME Pace # "stuck"
    PROVE  Spec => []OneHolderAtATime
<1>1. TypeOK /\ CountsOK /\ ClaimsOK => OneHolderAtATime
  BY DEF ClaimsOK, OneWorkerEach, OneHolderAtATime, Working, Holds
<1> QED
  BY <1>1, Claims, PTL

-------------------------------------------------------------------------------
(* From the transaction to the stream *)

LEMMA InitStream == Init => StreamOK
<1> SUFFICES ASSUME Init PROVE StreamOK
  OBVIOUS
<1>1. \A e \in Events : outbox[e] = "none" /\ ~Committed(e) /\ ~InStream(e)
  BY EventDeliveryAssumption DEF Init, Committed, InStream, Messages
<1>2. OutboxOK /\ PublishedIsInStream
  BY <1>1 DEF OutboxOK, PublishedIsInStream
<1>3. PublishersOK /\ MessagesOK
  BY DEF Init, PublishersOK, MessagesOK, WithRows
<1> QED
  BY <1>2, <1>3 DEF StreamOK

LEMMA FirstMessage ==
    ASSUME NEW e \in Events
    PROVE  <<e, 1>> \in Messages
BY EventDeliveryAssumption DEF Messages

LEMMA FirstInEvents ==
    ASSUME TypeOK, NEW p \in Publishers, publisher[p].todo # {}
    PROVE  /\ First(p) \in publisher[p].todo /\ First(p) \in Events
           /\ \A e \in publisher[p].todo : First(p) <= e
<1>1. publisher[p].todo \subseteq Nat /\ publisher[p].todo \subseteq Events
  BY DEF TypeOK, Publisher, Events
<1> QED
  BY <1>1, MinOfNaturals DEF First

(* A transaction stamps, commits or gives up events; the stream stays.      *)
LEMMA TransactionStream ==
    ASSUME TypeOK, StreamOK,
           \/ \E e \in Events : Append(e)
           \/ \E q \in {ProjectOf[e] : e \in Events} : Commit(q) \/ Abort(q)
    PROVE  StreamOK'
<1>1. UNCHANGED <<publisher, msg, worker>>
  BY DEF Append, Commit, Abort
<1>2. \A e \in Events : Committed(e) => Committed(e)' /\ outbox'[e] = outbox[e]
  BY DEF Append, Commit, Abort, Committed, Open, TypeOK
<1>4. \A e \in Events : InStream(e)' <=> InStream(e)
  BY <1>1 DEF InStream
<1>5. OutboxOK'
  <2>1. ASSUME NEW g \in Events, Append(g) PROVE OutboxOK'
    <3>1. outbox' = [outbox EXCEPT ![g] = "open"] /\ outbox[g] = "none"
      BY <2>1 DEF Append
    <3>2. \A e \in Events : e < g => outbox[e] # "none"
      BY <2>1 DEF Append
    <3>3. \A e, f \in Events : e < f /\ outbox'[f] # "none" => outbox'[e] # "none"
      BY <3>1, <3>2 DEF StreamOK, OutboxOK, TypeOK
    <3>4. \A e, f \in Events : e < f /\ ProjectOf[e] = ProjectOf[f] /\ Committed(f)'
                               => outbox'[e] # "open"
      BY <3>1 DEF StreamOK, OutboxOK, TypeOK, Committed
    <3> QED
      BY <3>3, <3>4 DEF OutboxOK
  <2>2. ASSUME NEW q, Commit(q) PROVE OutboxOK'
    <3>1. \A e \in Events : outbox'[e] = IF e \in Open(q) THEN "pending" ELSE outbox[e]
      BY <2>2 DEF Commit
    <3>2. \A e \in Events : e \in Open(q) <=> outbox[e] = "open" /\ ProjectOf[e] = q
      BY DEF Open
    <3> QED
      BY <3>1, <3>2 DEF StreamOK, OutboxOK, Committed
  <2>3. ASSUME NEW q, Abort(q) PROVE OutboxOK'
    <3>1. \A e \in Events : outbox'[e] = IF e \in Open(q) THEN "aborted" ELSE outbox[e]
      BY <2>3 DEF Abort
    <3>2. \A e \in Events : e \in Open(q) <=> outbox[e] = "open" /\ ProjectOf[e] = q
      BY DEF Open
    <3> QED
      BY <3>1, <3>2 DEF StreamOK, OutboxOK, Committed
  <2> QED
    BY <2>1, <2>2, <2>3
<1>6. PublishersOK'
  <2>1. \A p \in Publishers : publisher[p].todo \subseteq Events /\ publisher[p].found \subseteq Events
    BY DEF TypeOK, Publisher
  <2> QED
    BY <1>1, <1>2, <1>4, <2>1, FirstInEvents DEF StreamOK, PublishersOK, First
<1>7. PublishedIsInStream'
  <2>1. \A e \in Events : outbox'[e] = "published" => outbox[e] = "published"
    BY DEF Append, Commit, Abort, TypeOK
  <2> QED
    BY <1>2, <1>4, <2>1 DEF StreamOK, PublishedIsInStream
<1>8. MessagesOK'
  BY <1>1, <1>2, MessageParts, EventTyped DEF StreamOK, MessagesOK, Event
<1> QED
  BY <1>5, <1>6, <1>7, <1>8 DEF StreamOK

(* A publisher finds rows that are committed and not published, and claims  *)
(* some of them.                                                            *)
LEMMA ClaimStream ==
    ASSUME TypeOK, StreamOK, NEW p \in Publishers, ClaimRows(p) \/ LockRow(p) \/ EndClaim(p)
    PROVE  StreamOK'
<1>1. UNCHANGED <<outbox, msg, worker>> /\ \A r \in Publishers \ {p} : publisher'[r] = publisher[r]
  BY ClaimSteps
<1>2. publisher'[p].phase # "sent" /\ (publisher'[p].phase # "claiming" => publisher'[p].found = {})
  BY ClaimSteps
<1>3. publisher'[p].found \cup publisher'[p].todo \subseteq Pending \cup publisher[p].found \cup publisher[p].todo
  <2>1. CASE ClaimRows(p)
    BY <2>1, ClaimSteps
  <2>2. CASE LockRow(p)
    BY <2>2, ClaimSteps, NextRow
  <2>3. CASE EndClaim(p)
    BY <2>3, ClaimSteps
  <2> QED BY <2>1, <2>2, <2>3
<1>4. \A e \in Events : (Committed(e)' <=> Committed(e)) /\ (InStream(e)' <=> InStream(e))
  BY <1>1 DEF Committed, InStream
<1>5. PublishersOK'
  <2>1. \A r \in Publishers : publisher[r].todo \subseteq Events /\ publisher[r].found \subseteq Events
    BY DEF TypeOK, Publisher
  <2>2. \A r \in Publishers \ {p} : First(r)' = First(r)
    BY <1>1 DEF First
  <2>3. \A e \in Pending : e \in Events /\ Committed(e)
    BY DEF Pending, Committed
  <2>4. \A e \in publisher'[p].found \cup publisher'[p].todo : Committed(e)'
    BY <1>3, <1>4, <2>1, <2>3 DEF StreamOK, PublishersOK
  <2>5. ASSUME NEW r \in Publishers \ {p}
        PROVE  /\ \A e \in publisher'[r].found \cup publisher'[r].todo : Committed(e)'
               /\ publisher'[r].phase = "sent" => publisher'[r].todo # {} /\ InStream(First(r))'
               /\ publisher'[r].phase # "claiming" => publisher'[r].found = {}
    BY <1>1, <1>4, <2>1, <2>2, FirstInEvents DEF StreamOK, PublishersOK
  <2> QED BY <1>2, <2>4, <2>5 DEF PublishersOK
<1>6. OutboxOK' /\ PublishedIsInStream'
  BY <1>1, <1>4 DEF StreamOK, OutboxOK, PublishedIsInStream
<1>7. MessagesOK'
  BY <1>1 DEF StreamOK, MessagesOK, Committed, Event
<1> QED
  BY <1>5, <1>6, <1>7 DEF StreamOK

(* A publisher sends the first event of its batch, and only that one.       *)
LEMMA PublishStream ==
    ASSUME TypeOK, StreamOK, NEW p \in Publishers, Publish(p)
    PROVE  /\ StreamOK'
           /\ \A e \in Events : /\ InStream(e) => InStream(e)'
                                /\ InStream(e)' => InStream(e) \/ e = First(p)
<1>0. PICK g \in Events : g = First(p)
  BY PublishFacts
<1>1. /\ g \in publisher[p].todo /\ publisher[p].todo # {}
      /\ \A e \in publisher[p].todo : g <= e
  BY <1>0, PublishFacts
<1>2. UNCHANGED <<outbox, worker>>
  BY DEF Publish
<1>3. \A m \in Messages : msg[m].at # "absent" => msg'[m].at # "absent"
  BY PublishFacts DEF TypeOK, Message
<1>4. \A m \in Messages : msg'[m].at # "absent" => msg[m].at # "absent" \/ m[1] = g
  <2>1. \A k \in 1..MaxCopies : <<g, k>>[1] = g
    OBVIOUS
  <2>2. \/ UNCHANGED msg
        \/ \E k \in 1..MaxCopies : msg' = [msg EXCEPT ![<<g, k>>].at = "waiting"]
    BY <1>0, PublishFacts
  <2> QED
    BY <2>1, <2>2 DEF TypeOK, Message
<1>5. \A e \in Events : (Committed(e)' <=> Committed(e)) /\ (InStream(e) => InStream(e)')
  BY <1>2, <1>3, FirstMessage DEF Committed, InStream
<1>6. \A e \in Events : InStream(e)' => InStream(e) \/ e = g
  BY <1>4, FirstMessage DEF InStream
<1>7. InStream(g)'
  <2>1. CASE InStream(g)
    BY <1>5, <2>1
  <2>2. CASE ~InStream(g)
    <3>1. msg' = [msg EXCEPT ![<<g, 1>>].at = "waiting"]
      BY <1>0, <2>2, PublishFacts
    <3> QED
      BY <3>1, FirstMessage DEF InStream, TypeOK, Message
  <2> QED
    BY <2>1, <2>2
<1>8. Committed(g)
  BY <1>1 DEF StreamOK, PublishersOK
<1>10. PublishersOK'
  <2>1. \A r \in Publishers : /\ publisher'[r].todo = publisher[r].todo
                              /\ publisher'[r].found = publisher[r].found
                              /\ publisher'[r].phase = "sent" => publisher[r].phase = "sent" \/ r = p
                              /\ publisher'[r].phase = "claiming" <=> publisher[r].phase = "claiming"
    BY DEF Publish, TypeOK, Publisher
  <2>2. \A r \in Publishers : First(r)' = First(r)
    BY <2>1 DEF First
  <2>3. \A r \in Publishers : publisher[r].todo \subseteq Events /\ publisher[r].found \subseteq Events
    BY DEF TypeOK, Publisher
  <2>4. ASSUME NEW r \in Publishers, publisher'[r].phase = "sent"
        PROVE  publisher'[r].todo # {} /\ InStream(First(r))'
    <3>1. \A e \in Events : InStream(e)' <=> msg'[<<e, 1>>].at # "absent"
      BY DEF InStream
    <3>2. CASE r = p
      <4>1. First(p)' = g /\ msg'[<<g, 1>>].at # "absent"
        BY <1>0, <1>7, <2>2, <3>1
      <4> QED
        BY <1>1, <2>1, <3>2, <4>1 DEF InStream
    <3>3. CASE r # p
      <4>1. publisher[r].todo # {} /\ InStream(First(r))
        BY <2>1, <2>4, <3>3 DEF StreamOK, PublishersOK
      <4>2. First(r) \in Events /\ First(r)' = First(r)
        BY <2>2, <4>1, FirstInEvents
      <4>3. msg'[<<First(r), 1>>].at # "absent"
        BY <1>3, <4>1, <4>2, FirstMessage DEF InStream
      <4> QED
        BY <2>1, <4>1, <4>2, <4>3 DEF InStream
    <3> QED
      BY <3>2, <3>3
  <2> QED
    BY <1>2, <1>5, <2>1, <2>3, <2>4 DEF StreamOK, PublishersOK
<1>11. OutboxOK'
  BY <1>2 DEF StreamOK, OutboxOK, Committed
<1>13. PublishedIsInStream'
  BY <1>1, <1>2, <1>5, <1>6, <1>8 DEF StreamOK, PublishedIsInStream
<1>14. MessagesOK'
  BY <1>2, <1>3, <1>4, <1>8, EventTyped DEF StreamOK, MessagesOK, Committed, Event
<1> QED
  BY <1>0, <1>5, <1>6, <1>10, <1>11, <1>13, <1>14 DEF StreamOK

(* The row of an event that has been sent is marked, and the rest of the    *)
(* batch goes on; a publisher that crashes forgets its batch.               *)
LEMMA MarkStream ==
    ASSUME TypeOK, StreamOK, NEW p \in Publishers, MarkPublished(p) \/ PublisherCrash(p)
    PROVE  /\ StreamOK'
           /\ \A e \in Events : (outbox'[e] = "aborted" <=> outbox[e] = "aborted") /\ (InStream(e)' <=> InStream(e))
           /\ \A e \in Events : Committed(e)' <=> Committed(e)
           /\ MarkPublished(p) => First(p) \in publisher[p].todo /\ InStream(First(p))
<1>1. UNCHANGED <<msg, worker>> /\ \A r \in Publishers \ {p} : publisher'[r] = publisher[r]
  BY MarkSteps
<1>2. /\ publisher'[p].todo \subseteq publisher[p].todo /\ publisher'[p].found = {}
      /\ publisher'[p].phase = "ready"
  BY MarkSteps
<1>3. MarkPublished(p) => /\ First(p) \in Events /\ First(p) \in publisher[p].todo
                          /\ InStream(First(p)) /\ Committed(First(p))
  BY FirstInEvents DEF MarkPublished, StreamOK, PublishersOK
<1>4. \A e \in Events : outbox'[e] = outbox[e]
                        \/ (outbox'[e] = "published" /\ InStream(e) /\ Committed(e))
  BY <1>3 DEF MarkPublished, PublisherCrash, TypeOK
<1>5. \A e \in Events : /\ (Committed(e)' <=> Committed(e)) /\ (InStream(e)' <=> InStream(e))
                        /\ outbox'[e] = "aborted" <=> outbox[e] = "aborted"
                        /\ outbox'[e] = "none" <=> outbox[e] = "none"
                        /\ outbox'[e] = "open" <=> outbox[e] = "open"
  BY <1>1, <1>4 DEF Committed, InStream
<1>6. PublishersOK'
  <2>1. \A r \in Publishers : publisher[r].todo \subseteq Events /\ publisher[r].found \subseteq Events
    BY DEF TypeOK, Publisher
  <2>2. ASSUME NEW r \in Publishers \ {p}
        PROVE  /\ \A e \in publisher'[r].found \cup publisher'[r].todo : Committed(e)'
               /\ publisher'[r].phase = "sent" => publisher'[r].todo # {} /\ InStream(First(r))'
               /\ publisher'[r].phase # "claiming" => publisher'[r].found = {}
    <3>1. publisher'[r] = publisher[r] /\ First(r)' = First(r)
      BY <1>1 DEF First
    <3> QED
      BY <1>5, <2>1, <3>1, FirstInEvents DEF StreamOK, PublishersOK
  <2>3. \A e \in publisher'[p].found \cup publisher'[p].todo : Committed(e)'
    BY <1>2, <1>5, <2>1 DEF StreamOK, PublishersOK
  <2> QED
    BY <1>2, <2>2, <2>3 DEF PublishersOK
<1>7. OutboxOK'
  BY <1>5 DEF StreamOK, OutboxOK
<1>8. PublishedIsInStream'
  BY <1>4, <1>5 DEF StreamOK, PublishedIsInStream
<1>9. MessagesOK'
  BY <1>1, <1>5, MessageParts, EventTyped DEF StreamOK, MessagesOK, Event
<1> QED
  BY <1>3, <1>5, <1>6, <1>7, <1>8, <1>9 DEF StreamOK

(* Behind the stream nothing enters or leaves it, and a consumer has only   *)
(* events that were handed to it.                                           *)
LEMMA HandledStream ==
    ASSUME TypeOK, StreamOK, UNCHANGED <<outbox, publisher>>,
           \A m \in Messages : msg'[m].at = "absent" <=> msg[m].at = "absent",
           \A w \in Workers : worker'[w].pc \notin {"idle", "down"}
                             => Committed(Event(w)') /\ msg'[worker'[w].m].at # "absent"
    PROVE  StreamOK' /\ \A e \in Events : InStream(e)' <=> InStream(e)
<1>1. \A e \in Events : InStream(e)' <=> InStream(e)
  BY FirstMessage DEF InStream
<1>2. \A e \in Events : Committed(e)' <=> Committed(e)
  BY DEF Committed
<1>3. \A p \in Publishers : /\ publisher[p].todo \subseteq Events /\ publisher[p].found \subseteq Events
                            /\ First(p)' = First(p)
  BY DEF TypeOK, Publisher, First
<1>4. PublishersOK'
  <2>1. \A p \in Publishers : publisher[p].phase = "sent" => First(p) \in Events
    BY FirstInEvents DEF StreamOK, PublishersOK
  <2>2. \A p \in Publishers : publisher[p].phase = "sent" => InStream(First(p))'
    <3> SUFFICES ASSUME NEW p \in Publishers, publisher[p].phase = "sent" PROVE InStream(First(p))'
      OBVIOUS
    <3>1. msg[<<First(p), 1>>].at # "absent"
      BY DEF StreamOK, PublishersOK, InStream
    <3>2. msg'[<<First(p), 1>>].at # "absent"
      BY <2>1, <3>1, FirstMessage
    <3> QED
      BY <1>3, <3>2 DEF InStream
  <2> QED
    BY <1>1, <1>2, <1>3, <2>2 DEF StreamOK, PublishersOK
<1>5. OutboxOK' /\ PublishedIsInStream'
  BY <1>1, <1>2 DEF StreamOK, OutboxOK, PublishedIsInStream, Committed
<1>6. MessagesOK'
  BY DEF StreamOK, MessagesOK, Committed
<1> QED
  BY <1>1, <1>4, <1>5, <1>6 DEF StreamOK

LEMMA WorkerStream ==
    ASSUME TypeOK, StreamOK, NEW w \in Workers, WorkerStep(w) \/ WorkerCrash(w)
    PROVE  StreamOK' /\ UNCHANGED <<outbox, publisher>> /\ \A e \in Events : InStream(e)' <=> InStream(e)
<1>1. UNCHANGED <<outbox, publisher>>
  BY DEF WorkerStep, ClaimEvent, ClaimFails, HandlerReturns, HandlerRaises, Complete, Ack,
         Release, Nak, WorkerRestart, WorkerCrash
<1>2. \A m \in Messages : msg'[m].at = "absent" <=> msg[m].at = "absent"
  <2>1. \/ UNCHANGED msg
        \/ msg' = [msg EXCEPT ![worker[w].m] = Back(@)] /\ worker[w].pc = "nak"
        \/ msg' = [msg EXCEPT ![worker[w].m] = Acked(@)] /\ worker[w].pc \in {"ack", "suppress"}
    BY DEF WorkerStep, ClaimEvent, ClaimFails, HandlerReturns, HandlerRaises, Complete, Ack,
           Release, Nak, WorkerRestart, WorkerCrash
  <2>2. worker[w].m \in Messages /\ msg[worker[w].m] \in Message
    BY EventTyped DEF TypeOK
  <2>3. worker[w].pc \in {"nak", "ack", "suppress"} => msg[worker[w].m].at # "absent"
    BY DEF StreamOK, MessagesOK
  <2>4. /\ worker[w].pc = "nak" => Back(msg[worker[w].m]).at # "absent"
        /\ worker[w].pc \in {"ack", "suppress"} => Acked(msg[worker[w].m]).at # "absent"
    BY <2>2, <2>3, BackTyped
  <2> QED
    BY <2>1, <2>2, <2>3, <2>4 DEF TypeOK
<1>3. PICK pc : Goes(w, pc) /\ (pc \notin {"idle", "down"} => worker[w].pc \notin {"idle", "down"})
  BY DEF WorkerStep, ClaimEvent, ClaimFails, HandlerReturns, HandlerRaises, Complete, Ack,
         Release, Nak, WorkerRestart, WorkerCrash
<1>4. \A v \in Workers : worker'[v].pc \notin {"idle", "down"}
                        => Committed(Event(v)') /\ msg'[worker'[v].m].at # "absent"
  <2>1. \A v \in Workers : /\ worker'[v].m = worker[v].m
                           /\ worker'[v].pc \notin {"idle", "down"}
                              => worker[v].pc \notin {"idle", "down"}
    BY <1>3 DEF Goes, TypeOK, Worker
  <2> QED
    BY <1>2, <2>1, EventTyped DEF StreamOK, MessagesOK, Event
<1> QED
  BY <1>1, <1>2, <1>4, HandledStream

(* Handing a message out, taking it back and the age of a claim. *)
LEMMA DeliveryStream ==
    ASSUME TypeOK, StreamOK,
           \/ \E w \in Workers, m \in Messages : Deliver(w, m)
           \/ \E m \in Messages : AckWait(m)
           \/ \E e \in Events : ClaimGrowsStale(e)
    PROVE  StreamOK' /\ UNCHANGED <<outbox, publisher>> /\ \A e \in Events : InStream(e)' <=> InStream(e)
<1>1. UNCHANGED <<outbox, publisher>>
  BY DEF Deliver, AckWait, ClaimGrowsStale
<1>2. \A m \in Messages : msg'[m].at = "absent" <=> msg[m].at = "absent"
  BY BackTyped DEF Deliver, AckWait, ClaimGrowsStale, TypeOK
<1>3. \A v \in Workers : worker'[v].pc \notin {"idle", "down"}
                        => Committed(Event(v)') /\ msg'[worker'[v].m].at # "absent"
  <2>1. CASE UNCHANGED worker
    BY <1>2, <2>1, EventTyped DEF StreamOK, MessagesOK, Event
  <2>2. ASSUME NEW w \in Workers, NEW m \in Messages, Deliver(w, m), NEW v \in Workers,
               worker'[v].pc \notin {"idle", "down"}
        PROVE  Committed(Event(v)') /\ msg'[worker'[v].m].at # "absent"
    <3>1. CASE v # w
      <4>1. worker'[v] = worker[v]
        BY <2>2, <3>1 DEF Deliver, TypeOK
      <4> QED
        BY <1>2, <2>2, <4>1, EventTyped DEF StreamOK, MessagesOK, Event
    <3>2. CASE v = w
      <4>1. worker'[v].m = m /\ msg[m].at = "waiting"
        BY <2>2, <3>2 DEF Deliver, TypeOK
      <4> QED
        BY <1>2, <4>1 DEF StreamOK, MessagesOK, Event
    <3> QED
      BY <3>1, <3>2
  <2> QED
    BY <2>1, <2>2 DEF AckWait, ClaimGrowsStale
<1> QED
  BY <1>1, <1>2, <1>3, HandledStream

LEMMA NextStream == TypeOK /\ StreamOK /\ [Next]_vars => StreamOK'
<1> SUFFICES ASSUME TypeOK, StreamOK, [Next]_vars PROVE StreamOK'
  OBVIOUS
<1>1. CASE UNCHANGED vars
  <2>1. UNCHANGED <<outbox, publisher, msg, worker>>
    BY <1>1 DEF vars
  <2> QED
    BY <2>1, HandledStream DEF StreamOK, MessagesOK, Event
<1>2. CASE \E p \in Publishers : PublisherStep(p) \/ PublisherCrash(p)
  BY <1>2, ClaimStream, PublishStream, MarkStream DEF PublisherStep
<1>3. CASE \E w \in Workers : WorkerStep(w) \/ WorkerCrash(w)
  BY <1>3, WorkerStream
<1>4. CASE \/ \E m \in Messages : AckWait(m) \/ \E w \in Workers : Deliver(w, m)
           \/ \E e \in Events : ClaimGrowsStale(e)
  BY <1>4, DeliveryStream
<1>5. CASE \/ \E e \in Events : Append(e)
           \/ \E q \in {ProjectOf[e] : e \in Events} : Commit(q) \/ Abort(q)
  BY <1>5, TransactionStream
<1> QED
  BY <1>1, <1>2, <1>3, <1>4, <1>5 DEF Next

LEMMA Streams == Spec => [](TypeOK /\ CountsOK /\ StreamOK)
<1>1. Init => TypeOK /\ CountsOK /\ StreamOK
  BY InitTyped, InitStream
<1>2. TypeOK /\ CountsOK /\ StreamOK /\ [Next]_vars => (TypeOK /\ CountsOK /\ StreamOK)'
  BY NextTyped, NextStream
<1> QED
  BY <1>1, <1>2, PTL DEF Spec

-------------------------------------------------------------------------------
(* The order of the stream *)

LEMMA InitOrder == Init => OrderOK
<1> SUFFICES ASSUME Init PROVE OrderOK
  OBVIOUS
<1>1. \A e \in Events : ~InStream(e)
  BY EventDeliveryAssumption DEF Init, InStream, Messages
<1>2. \A p \in Publishers : publisher[p].found = {} /\ publisher[p].todo = {}
  BY DEF Init, WithRows
<1> QED
  BY <1>1, <1>2 DEF OrderOK, ClaimsInOrder, StreamInProjectOrder

(* Where publishers and stream stay and no event is taken back, the order   *)
(* stays.                                                                   *)
LEMMA UndisturbedOrder ==
    ASSUME TypeOK, OrderOK, UNCHANGED publisher,
           \A e \in Events : (outbox'[e] # "aborted" => outbox[e] # "aborted") /\ (InStream(e)' <=> InStream(e))
    PROVE  OrderOK'
<1>1. \A p \in Publishers : publisher[p].todo \subseteq Events /\ publisher[p].found \subseteq Events
  BY DEF TypeOK, Publisher
<1> QED
  BY <1>1 DEF OrderOK, ClaimsInOrder, StreamInProjectOrder

(* A claim that no other one overlaps takes rows from the first on: what is *)
(* earlier in the project is among them or in the stream already.           *)
LEMMA ClaimOrder ==
    ASSUME TypeOK, StreamOK, OrderOK, ClaimsApart, NEW p \in Publishers,
           ClaimRows(p) \/ LockRow(p) \/ EndClaim(p)
    PROVE  OrderOK'
<1>1. UNCHANGED <<outbox, msg>> /\ \A r \in Publishers \ {p} : publisher'[r] = publisher[r]
  BY ClaimSteps
<1>2. \A e \in Events : InStream(e)' <=> InStream(e)
  BY <1>1 DEF InStream
<1>3. \A r \in Publishers : publisher[r].todo \subseteq Events /\ publisher[r].found \subseteq Events
  BY DEF TypeOK, Publisher
<1> DEFINE Rows == publisher[p].found \cup publisher[p].todo
<1> SUFFICES /\ \A e \in publisher'[p].todo, f \in publisher'[p].found : e < f
             /\ \A e, f \in Events :
                   /\ f \in publisher'[p].found \cup publisher'[p].todo
                   /\ e < f /\ ProjectOf[e] = ProjectOf[f] /\ outbox[e] # "aborted"
                   => e \in publisher'[p].found \cup publisher'[p].todo \/ InStream(e)
  BY <1>1, <1>2, <1>3 DEF OrderOK, ClaimsInOrder, StreamInProjectOrder
<1>4. CASE ClaimRows(p)
  <2>1. publisher'[p].found = Pending /\ publisher'[p].todo = {}
    BY <1>4, ClaimSteps
  <2>2. ASSUME NEW e \in Events, NEW f \in Pending, e < f, ProjectOf[e] = ProjectOf[f], outbox[e] # "aborted"
        PROVE  e \in Pending \/ InStream(e)
    <3>1. f \in Events /\ outbox[f] = "pending"
      BY <2>2 DEF Pending
    <3>2. outbox[e] # "none" /\ outbox[e] # "open"
      BY <2>2, <3>1 DEF StreamOK, OutboxOK, Committed
    <3>3. outbox[e] \in {"pending", "published"}
      BY <2>2, <3>2 DEF TypeOK
    <3> QED BY <3>3 DEF StreamOK, PublishedIsInStream, Pending
  <2> QED BY <2>1, <2>2
<1>5. CASE LockRow(p)
  <2> DEFINE g == Min(publisher[p].found)
  <2>1. /\ publisher[p].phase = "claiming" /\ g \in publisher[p].found /\ g \in Events
        /\ publisher'[p].found = publisher[p].found \ {g}
        /\ publisher'[p].todo = publisher[p].todo \cup (IF outbox[g] = "pending" /\ ~Locked(g) THEN {g} ELSE {})
        /\ \A e \in publisher[p].found : g <= e
    BY <1>5, ClaimSteps, NextRow
  <2>2. \A e \in publisher[p].todo, f \in publisher[p].found : e < f
    BY DEF OrderOK, ClaimsInOrder
  <2>3. ~Locked(g)
    <3>1. g \notin publisher[p].todo
      BY <1>3, <2>1, <2>2 DEF Events
    <3> QED BY <2>1, <3>1 DEF Locked, ClaimsApart
  <2>4. g \in publisher'[p].todo \/ InStream(g)
    <3>1. Committed(g)
      BY <2>1 DEF StreamOK, PublishersOK
    <3> QED BY <2>1, <2>3, <3>1 DEF Committed, StreamOK, PublishedIsInStream
  <2>5. \A e \in publisher'[p].todo, f \in publisher'[p].found : e < f
    <3>1. \A f \in publisher[p].found \ {g} : g < f
      BY <1>3, <2>1 DEF Events
    <3> QED BY <2>1, <2>2, <3>1
  <2>6. \A e \in Rows : e \in publisher'[p].found \cup publisher'[p].todo \/ InStream(e)
    BY <2>1, <2>4
  <2>7. publisher'[p].found \cup publisher'[p].todo \subseteq Rows
    BY <2>1
  <2>8. ASSUME NEW e \in Events, NEW f \in Events, f \in publisher'[p].found \cup publisher'[p].todo,
               e < f, ProjectOf[e] = ProjectOf[f], outbox[e] # "aborted"
        PROVE  e \in publisher'[p].found \cup publisher'[p].todo \/ InStream(e)
    <3>1. f \in Rows
      BY <2>7, <2>8
    <3>2. e \in Rows \/ InStream(e)
      BY <2>8, <3>1 DEF OrderOK, ClaimsInOrder
    <3> QED BY <2>6, <3>2
  <2> QED BY <2>5, <2>8
<1>6. CASE EndClaim(p)
  <2>1. publisher'[p].found = {} /\ publisher'[p].todo = publisher[p].todo
    BY <1>6, ClaimSteps
  <2>2. ASSUME NEW e \in Events, NEW f \in publisher[p].todo, e < f, ProjectOf[e] = ProjectOf[f],
               outbox[e] # "aborted"
        PROVE  e \in publisher[p].todo \/ InStream(e)
    <3>1. e \notin publisher[p].found
      <4>1. e \in publisher[p].found => f < e
        BY DEF OrderOK, ClaimsInOrder
      <4> QED BY <1>3, <2>2, <4>1 DEF Events
    <3>2. e \in Rows \/ InStream(e)
      BY <1>3, <2>2 DEF OrderOK, ClaimsInOrder
    <3> QED BY <3>1, <3>2
  <2> QED BY <2>1, <2>2
<1> QED BY <1>4, <1>5, <1>6

(* What is earlier in the project than the first row of a batch is not in   *)
(* the batch, so it is in the stream.                                       *)
LEMMA PublishOrder ==
    ASSUME TypeOK, StreamOK, OrderOK, NEW p \in Publishers, Publish(p)
    PROVE  OrderOK'
<1>1. /\ First(p) \in Events /\ First(p) \in publisher[p].todo
      /\ \A e \in publisher[p].todo : First(p) <= e
  BY PublishFacts
<1>2. UNCHANGED outbox /\ publisher[p].phase = "ready"
  BY DEF Publish
<1>3. \A e \in Events : /\ InStream(e) => InStream(e)'
                        /\ InStream(e)' => InStream(e) \/ e = First(p)
  BY PublishStream
<1>4. \A r \in Publishers : publisher'[r].todo = publisher[r].todo /\ publisher'[r].found = publisher[r].found
  BY DEF Publish, TypeOK, Publisher
<1>5. \A r \in Publishers : publisher[r].todo \subseteq Events /\ publisher[r].found \subseteq Events
  BY DEF TypeOK, Publisher
<1>6. ClaimsInOrder'
  <2>1. \A r \in Publishers : \A e \in publisher'[r].todo, f \in publisher'[r].found : e < f
    BY <1>4 DEF OrderOK, ClaimsInOrder
  <2>2. ASSUME NEW r \in Publishers, NEW e \in Events, NEW f \in Events,
               f \in publisher'[r].found \cup publisher'[r].todo,
               e < f, ProjectOf[e] = ProjectOf[f], outbox'[e] # "aborted"
        PROVE  e \in publisher'[r].found \cup publisher'[r].todo \/ InStream(e)'
    <3>1. f \in publisher[r].found \cup publisher[r].todo /\ outbox[e] # "aborted"
      BY <1>2, <1>4, <2>2
    <3>2. e \in publisher[r].found \cup publisher[r].todo \/ InStream(e)
      BY <2>2, <3>1 DEF OrderOK, ClaimsInOrder
    <3>3. InStream(e) => InStream(e)'
      BY <1>3
    <3> QED BY <1>4, <3>2, <3>3
  <2> QED BY <2>1, <2>2 DEF ClaimsInOrder
<1>7. \A e \in Events : /\ e < First(p) /\ ProjectOf[e] = ProjectOf[First(p)] /\ outbox[e] # "aborted"
                        => InStream(e)
  <2>1. \A e \in Events : e < First(p) => e \notin publisher[p].todo
    BY <1>1 DEF Events
  <2>2. publisher[p].found = {}
    BY <1>2 DEF StreamOK, PublishersOK
  <2>3. First(p) \in publisher[p].found \cup publisher[p].todo
    BY <1>1
  <2>4. \A e \in Events : /\ e < First(p) /\ ProjectOf[e] = ProjectOf[First(p)] /\ outbox[e] # "aborted"
                        => e \in publisher[p].found \cup publisher[p].todo \/ InStream(e)
    BY <1>1, <2>3 DEF OrderOK, ClaimsInOrder
  <2> QED
    BY <2>1, <2>2, <2>4
<1>8. StreamInProjectOrder'
  <2> SUFFICES ASSUME NEW e \in Events, NEW f \in Events, e < f, ProjectOf[e] = ProjectOf[f],
                      InStream(f)', outbox'[e] # "aborted"
               PROVE  InStream(e)'
    BY DEF StreamInProjectOrder
  <2>1. InStream(f) \/ f = First(p)
    BY <1>3
  <2>2. InStream(e)
    BY <1>2, <1>7, <2>1 DEF OrderOK, StreamInProjectOrder
  <2> QED BY <1>3, <2>2
<1> QED BY <1>6, <1>8 DEF OrderOK

(* A row that is marked is in the stream; a publisher that crashes forgets  *)
(* its batch.                                                               *)
LEMMA MarkOrder ==
    ASSUME TypeOK, StreamOK, OrderOK, NEW p \in Publishers, MarkPublished(p) \/ PublisherCrash(p)
    PROVE  OrderOK'
<1>1. \A e \in Events : (outbox'[e] = "aborted" <=> outbox[e] = "aborted") /\ (InStream(e)' <=> InStream(e))
  BY MarkStream
<1>2. \A r \in Publishers : publisher[r].todo \subseteq Events /\ publisher[r].found \subseteq Events
  BY DEF TypeOK, Publisher
<1>3. /\ \A r \in Publishers \ {p} : publisher'[r] = publisher[r]
      /\ publisher'[p].found = {}
      /\ MarkPublished(p) => publisher'[p].todo = publisher[p].todo \ {First(p)}
      /\ PublisherCrash(p) => publisher'[p].todo = {}
  BY MarkSteps
<1>4. ASSUME NEW e \in Events, NEW f \in Events, f \in publisher'[p].todo,
             e < f, ProjectOf[e] = ProjectOf[f], outbox'[e] # "aborted"
      PROVE  e \in publisher'[p].todo \/ InStream(e)'
  <2>1. CASE PublisherCrash(p)
    BY <1>3, <1>4, <2>1
  <2>2. CASE MarkPublished(p)
    <3>1. publisher[p].found = {}
      BY <2>2 DEF MarkPublished, StreamOK, PublishersOK
    <3>2. e \in publisher[p].todo \/ InStream(e)
      BY <1>1, <1>3, <1>4, <2>2, <3>1 DEF OrderOK, ClaimsInOrder
    <3>3. InStream(First(p)) /\ First(p) \in publisher[p].todo
      BY <2>2, MarkStream
    <3> QED BY <1>1, <1>3, <2>2, <3>2, <3>3
  <2> QED BY <2>1, <2>2
<1>5. ClaimsInOrder'
  <2>1. ASSUME NEW r \in Publishers \ {p}
        PROVE  /\ \A e \in publisher'[r].todo, f \in publisher'[r].found : e < f
               /\ \A e, f \in Events :
                     /\ f \in publisher'[r].found \cup publisher'[r].todo
                     /\ e < f /\ ProjectOf[e] = ProjectOf[f] /\ outbox'[e] # "aborted"
                     => e \in publisher'[r].found \cup publisher'[r].todo \/ InStream(e)'
    BY <1>1, <1>2, <1>3 DEF OrderOK, ClaimsInOrder
  <2> QED BY <1>3, <1>4, <2>1 DEF ClaimsInOrder
<1>6. StreamInProjectOrder'
  BY <1>1 DEF OrderOK, StreamInProjectOrder
<1> QED BY <1>5, <1>6 DEF OrderOK

LEMMA NextOrder == TypeOK /\ StreamOK /\ OrderOK /\ ClaimsApart /\ [Next]_vars => OrderOK'
<1> SUFFICES ASSUME TypeOK, StreamOK, OrderOK, ClaimsApart, [Next]_vars PROVE OrderOK'
  OBVIOUS
<1>1. CASE UNCHANGED vars
  <2>1. UNCHANGED <<outbox, publisher, msg>>
    BY <1>1 DEF vars
  <2> QED BY <2>1, UndisturbedOrder DEF InStream
<1>2. CASE \E p \in Publishers : PublisherStep(p) \/ PublisherCrash(p)
  BY <1>2, ClaimOrder, PublishOrder, MarkOrder DEF PublisherStep
<1>3. CASE \/ \E w \in Workers : WorkerStep(w) \/ WorkerCrash(w)
           \/ \E m \in Messages : AckWait(m) \/ \E w \in Workers : Deliver(w, m)
           \/ \E e \in Events : ClaimGrowsStale(e)
  <2>1. UNCHANGED <<outbox, publisher>> /\ \A e \in Events : InStream(e)' <=> InStream(e)
    BY <1>3, WorkerStream, DeliveryStream
  <2> QED BY <2>1, UndisturbedOrder
<1>4. CASE \/ \E e \in Events : Append(e)
           \/ \E q \in {ProjectOf[e] : e \in Events} : Commit(q) \/ Abort(q)
  <2>1. UNCHANGED <<publisher, msg>> /\ \A e \in Events : outbox'[e] # "aborted" => outbox[e] # "aborted"
    BY <1>4 DEF Append, Commit, Abort, Open, TypeOK
  <2> QED BY <2>1, UndisturbedOrder DEF InStream
<1> QED
  BY <1>1, <1>2, <1>3, <1>4 DEF Next

(* As long as no two claims overlap, the events of a project enter the      *)
(* stream in the order of their stamps: whatever the limit of a claim, the  *)
(* batches of the publishers and the points where they crash.               *)
THEOREM ProjectOrder == Spec /\ []ClaimsApart => []StreamInProjectOrder
<1>1. Init => OrderOK
  BY InitOrder
<1>2. (TypeOK /\ CountsOK /\ StreamOK) /\ OrderOK /\ ClaimsApart /\ [Next]_vars => OrderOK'
  BY NextOrder
<1>3. OrderOK => StreamInProjectOrder
  BY DEF OrderOK
<1> QED
  BY <1>1, <1>2, <1>3, Streams, PTL DEF Spec

(* So they do with the one publisher that Compose runs.                     *)
THEOREM OnePublisherOrder ==
    ASSUME \A p, q \in Publishers : p = q
    PROVE  Spec => []StreamInProjectOrder
<1>1. ClaimsApart
  BY DEF ClaimsApart
<1> QED
  BY <1>1, ProjectOrder, PTL

(* No row is marked published before its event is in the stream, and the    *)
(* stream has only events of transactions that committed.                   *)
THEOREM NothingLost == Spec => []PublishedIsInStream
<1>1. TypeOK /\ CountsOK /\ StreamOK => PublishedIsInStream
  BY DEF StreamOK
<1> QED
  BY <1>1, Streams, PTL

-------------------------------------------------------------------------------
(* The pipeline implements EventLog *)

CommittedEvents == {e \in Events : Committed(e)}
Running == {e \in Events : Handling(e)}
Done == {e \in Events : processed[e] = "completed"}

LogStep == Log!Next \/ UNCHANGED <<CommittedEvents, Running, Done>>

(* How the events handled change with where one consumer goes.              *)
LEMMA RunningStep ==
    ASSUME TypeOK, OneWorkerEach, NEW w \in Workers, NEW pc, Goes(w, pc)
    PROVE  /\ worker[w].pc \in {"handling", "complete"} /\ pc \notin {"handling", "complete"}
              => Event(w) \in Running /\ Running' = Running \ {Event(w)}
           /\ worker[w].pc \in {"handling", "complete"} <=> pc \in {"handling", "complete"}
              => Running' = Running
           /\ worker[w].pc \notin {"handling", "complete"} /\ pc \in {"handling", "complete"}
              => Running' = Running \cup {Event(w)}
<1> DEFINE At(v) == worker[v].pc \in {"handling", "complete"}
<1>1. Event(w) \in Events /\ \A e \in Events : e \in Running <=> \E v \in Workers : At(v) /\ Event(v) = e
  BY EventTyped DEF Running, Handling
<1>2. \A e \in Events : e \in Running'
          <=> \/ pc \in {"handling", "complete"} /\ Event(w) = e
              \/ \E v \in Workers \ {w} : At(v) /\ Event(v) = e
  <2>1. \A e \in Events : e \in Running' <=>
            \E v \in Workers : worker'[v].pc \in {"handling", "complete"} /\ Event(v)' = e
    BY DEF Running, Handling
  <2> QED
    BY <2>1, GoesFacts
<1>3. \A v \in Workers \ {w} : At(w) /\ At(v) => Event(v) # Event(w)
  BY <1>1 DEF OneWorkerEach, Working
<1>4. Running \subseteq Events /\ Running' \subseteq Events
  BY DEF Running
<1> QED
  BY <1>1, <1>2, <1>3, <1>4

(* The steps up to the stream: only Commit adds committed events.           *)
LEMMA OutboxLog ==
    ASSUME TypeOK, StreamOK,
           \/ \E e \in Events : Append(e)
           \/ \E q \in {ProjectOf[e] : e \in Events} : Commit(q) \/ Abort(q)
           \/ \E p \in Publishers : PublisherStep(p) \/ PublisherCrash(p)
    PROVE  LogStep
<1>1. UNCHANGED <<worker, processed>>
  BY DEF Append, Commit, Abort, PublisherStep, ClaimRows, LockRow, EndClaim, Publish,
         MarkPublished, PublisherCrash
<1>2. Running' = Running /\ Done' = Done
  BY <1>1 DEF Running, Done, Handling, Event
<1>3. CASE \E q : Commit(q)
  <2>1. PICK q : Commit(q)
    BY <1>3
  <2>2. CommittedEvents' = CommittedEvents \cup Open(q) /\ Open(q) \subseteq Events
    BY <2>1 DEF Commit, CommittedEvents, Committed, Open, TypeOK
  <2> QED
    BY <1>2, <2>2 DEF LogStep, Log!Next, Log!Commit, CommittedEvents, Running, Done
<1>4. CASE ~ \E q : Commit(q)
  <2>1. \A e \in Events : Committed(e)' <=> Committed(e)
    <3>1. CASE \E p \in Publishers : MarkPublished(p) \/ PublisherCrash(p)
      BY <3>1, MarkStream
    <3>2. CASE UNCHANGED outbox
      BY <3>2 DEF Committed
    <3> QED
      BY <1>4, <3>1, <3>2 DEF Committed, Append, Abort, Open, PublisherStep, ClaimRows, LockRow, EndClaim,
                              Publish, TypeOK
  <2> QED
    BY <1>2, <2>1 DEF LogStep, CommittedEvents
<1> QED
  BY <1>3, <1>4

LEMMA DeliveryLog ==
    ASSUME TypeOK, ClaimsOK,
           \/ \E w \in Workers, m \in Messages : Deliver(w, m)
           \/ \E m \in Messages : AckWait(m)
           \/ \E e \in Events : ClaimGrowsStale(e)
    PROVE  LogStep
<1>1. CommittedEvents' = CommittedEvents
  BY DEF Deliver, AckWait, ClaimGrowsStale, CommittedEvents, Committed
<1>2. Done' = Done
  BY DEF Deliver, AckWait, ClaimGrowsStale, Done, TypeOK
<1>3. Running' = Running
  <2>1. CASE UNCHANGED worker
    BY <2>1 DEF Running, Handling, Event
  <2>2. ASSUME NEW w \in Workers, NEW m \in Messages, Deliver(w, m)
        PROVE  Running' = Running
    <3>1. /\ worker[w].pc = "idle" /\ worker'[w].pc = "claim"
          /\ \A v \in Workers \ {w} : worker'[v] = worker[v]
      BY <2>2 DEF Deliver, TypeOK
    <3>2. \A e \in Events : e \in Running' <=> e \in Running
      BY <3>1 DEF Running, Handling, Event
    <3> QED
      BY <3>2 DEF Running
  <2> QED
    BY <2>1, <2>2 DEF AckWait, ClaimGrowsStale
<1> QED
  BY <1>1, <1>2, <1>3 DEF LogStep

(* A claim that succeeds starts the handling of a committed event no one    *)
(* handles and whose completion is not recorded.                            *)
LEMMA ClaimLog ==
    ASSUME TypeOK, StreamOK, ClaimsOK, NEW w \in Workers, ClaimEvent(w) \/ ClaimFails(w)
    PROVE  LogStep
<1>0. PICK e \in Events : e = Event(w)
  BY EventTyped
<1>1. worker[w].pc = "claim" /\ processed[e] \in {"none", "processing", "stale", "completed"}
  BY DEF ClaimEvent, ClaimFails, TypeOK
<1>2. CommittedEvents' = CommittedEvents /\ e \in CommittedEvents
  <2>1. Committed(e)
    BY <1>0, <1>1 DEF StreamOK, MessagesOK
  <2> QED
    BY <2>1 DEF ClaimEvent, ClaimFails, CommittedEvents, Committed
<1>3. Done' = Done
  <2>1. \/ UNCHANGED processed
        \/ processed[e] # "completed" /\ processed' = [processed EXCEPT ![e] = "processing"]
    BY <1>0, <1>1 DEF ClaimEvent, ClaimFails, Claim, Records
  <2> QED
    BY <2>1 DEF Done, TypeOK
<1>4. PICK pc : /\ Goes(w, pc)
                /\ pc \in {"handling", "complete"} => processed[e] \in {"none", "stale"}
  BY <1>0, <1>1 DEF ClaimEvent, ClaimFails, Claim
<1>5. CASE pc \notin {"handling", "complete"}
  <2>1. Running' = Running
    BY <1>1, <1>4, <1>5, RunningStep DEF ClaimsOK
  <2> QED
    BY <1>2, <1>3, <2>1 DEF LogStep
<1>6. CASE pc \in {"handling", "complete"}
  <2>1. Running' = Running \cup {e}
    BY <1>0, <1>1, <1>4, <1>6, RunningStep DEF ClaimsOK
  <2>2. e \notin Running
    <3>1. \A v \in Workers : ~Working(v, e)
      BY <1>0, <1>4, <1>6, ClaimedAlone DEF ClaimsOK
    <3> QED
      BY <3>1 DEF Running, Handling, Working
  <2>3. e \notin Done
    BY <1>4, <1>6 DEF Done
  <2> QED
    BY <1>2, <1>3, <2>1, <2>2, <2>3
       DEF LogStep, Log!Next, Log!Start, CommittedEvents, Running, Done
<1> QED
  BY <1>5, <1>6

(* A consumer that leaves the handler stops it, its completion recorded or  *)
(* not.                                                                     *)
LEMMA StopLog ==
    ASSUME TypeOK, ClaimsOK, NEW w \in Workers, NEW pc, Goes(w, pc), UNCHANGED outbox,
           worker[w].pc \in {"handling", "complete"}, pc \notin {"handling", "complete"},
           UNCHANGED processed \/ Records(w, "completed")
    PROVE  LogStep
<1>0. PICK e \in Events : e = Event(w)
  BY EventTyped
<1>1. e \in Running /\ Running' = Running \ {e}
  BY <1>0, RunningStep DEF ClaimsOK
<1>2. Done' \in {Done, Done \cup {e}}
  BY <1>0 DEF Records, Done, TypeOK
<1>3. CommittedEvents' = CommittedEvents
  BY DEF CommittedEvents, Committed
<1> QED
  BY <1>1, <1>2, <1>3 DEF LogStep, Log!Next, Log!Stop, CommittedEvents, Running, Done

LEMMA WorkerLog ==
    ASSUME TypeOK, StreamOK, ClaimsOK, NEW w \in Workers, WorkerStep(w) \/ WorkerCrash(w)
    PROVE  LogStep
<1>0. /\ UNCHANGED outbox
      /\ Event(w) \in Events /\ processed[Event(w)] \in {"none", "processing", "stale", "completed"}
      /\ worker[w].pc = "complete" => processed[Event(w)] = "processing"
  BY EventTyped DEF TypeOK, ClaimsOK, ClaimsHeld, WorkerStep, ClaimEvent, ClaimFails,
     HandlerReturns, HandlerRaises, Complete, Ack, Release, Nak, WorkerRestart, WorkerCrash
<1>1. CommittedEvents' = CommittedEvents
  BY <1>0 DEF CommittedEvents, Committed
<1>2. CASE HandlerRaises(w)
  BY <1>0, <1>2, StopLog DEF HandlerRaises
<1>3. CASE Complete(w)
  <2>1. UNCHANGED processed \/ Records(w, "completed")
    BY <1>0, <1>3 DEF Complete, Completed
  <2>2. Goes(w, "ack") \/ Goes(w, "release")
    BY <1>3 DEF Complete
  <2> QED
    BY <1>0, <1>3, <2>1, <2>2, StopLog DEF Complete
<1>4. CASE WorkerCrash(w) /\ worker[w].pc \in {"handling", "complete"}
  BY <1>0, <1>4, StopLog DEF WorkerCrash
<1>5. CASE WorkerCrash(w) /\ worker[w].pc \notin {"handling", "complete"}
  <2>1. Running' = Running
    BY <1>5, RunningStep DEF WorkerCrash, ClaimsOK
  <2> QED
    BY <1>1, <1>5, <2>1 DEF LogStep, WorkerCrash, Done
<1>6. CASE HandlerReturns(w)
  <2>1. Running' = Running
    BY <1>6, RunningStep DEF HandlerReturns, ClaimsOK
  <2> QED
    BY <1>1, <1>6, <2>1 DEF LogStep, HandlerReturns, Done
<1>7. CASE Ack(w) \/ Nak(w) \/ WorkerRestart(w)
  <2>1. UNCHANGED processed /\ worker[w].pc \notin {"handling", "complete"}
    BY <1>7 DEF Ack, Nak, WorkerRestart
  <2>2. Goes(w, "idle") \/ Goes(w, "release")
    BY <1>7 DEF Ack, Nak, WorkerRestart
  <2>3. Running' = Running
    BY <2>1, <2>2, RunningStep DEF ClaimsOK
  <2> QED
    BY <1>1, <2>1, <2>3 DEF LogStep, Done
<1>8. CASE Release(w)
  <2>1. Goes(w, "nak") \/ Goes(w, "idle")
    BY <1>8 DEF Release
  <2>2. Running' = Running
    BY <1>8, <2>1, RunningStep DEF Release, ClaimsOK
  <2>3. UNCHANGED processed \/ Records(w, Released(processed[Event(w)]))
    BY <1>8 DEF Release
  <2>4. Released(processed[Event(w)]) = "completed" <=> processed[Event(w)] = "completed"
    BY DEF Released
  <2>5. Done' = Done
    BY <1>0, <2>3, <2>4 DEF Records, Done, TypeOK
  <2> QED
    BY <1>1, <2>2, <2>5 DEF LogStep
<1> QED
  BY <1>2, <1>3, <1>4, <1>5, <1>6, <1>7, <1>8, ClaimLog DEF WorkerStep

(* As long as no consumer holds a claim for longer than the takeover, every *)
(* step of the pipeline is a step of EventLog or none: an event is handled  *)
(* when committed, by one handler at a time, never after its completion.    *)
THEOREM Refinement ==
    ASSUME Pace # "stuck"
    PROVE  Spec => OrderlyHandling
<1> DEFINE IInv == TypeOK /\ CountsOK /\ ClaimsOK /\ StreamOK
<1>1. Init => Log!Init
  <2> SUFFICES ASSUME Init PROVE Log!Init
    OBVIOUS
  <2>1. \A e \in Events : ~Committed(e) /\ processed[e] # "completed"
    BY DEF Init, Committed
  <2>2. \A w \in Workers : worker[w].pc = "idle"
    BY DEF Init
  <2>3. \A e \in Events : ~Handling(e)
    BY <2>2 DEF Handling
  <2> QED
    BY <2>1, <2>3 DEF Log!Init
<1>2. IInv /\ [Next]_vars => [Log!Next]_(Log!logVars)
  <2> SUFFICES ASSUME IInv, [Next]_vars PROVE LogStep
    BY DEF LogStep, Log!logVars, CommittedEvents, Running, Done
  <2>1. CASE UNCHANGED vars
    BY <2>1 DEF vars, LogStep, CommittedEvents, Running, Done, Committed, Handling, Event
  <2>2. CASE \E p \in Publishers : PublisherStep(p) \/ PublisherCrash(p)
    BY <2>2, OutboxLog
  <2>3. CASE \E w \in Workers : WorkerStep(w) \/ WorkerCrash(w)
    BY <2>3, WorkerLog
  <2>4. CASE \/ \E m \in Messages : AckWait(m) \/ \E w \in Workers : Deliver(w, m)
             \/ \E e \in Events : ClaimGrowsStale(e)
    BY <2>4, DeliveryLog
  <2>5. CASE \/ \E e \in Events : Append(e)
             \/ \E q \in {ProjectOf[e] : e \in Events} : Commit(q) \/ Abort(q)
    BY <2>5, OutboxLog
  <2> QED
    BY <2>1, <2>2, <2>3, <2>4, <2>5 DEF Next
<1>3. Spec => []IInv
  BY Claims, Streams, PTL
<1> QED
  BY <1>1, <1>2, <1>3, PTL DEF Spec, OrderlyHandling, Log!Spec
===============================================================================
