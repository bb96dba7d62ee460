-------------------------- MODULE Enrichment_proofs --------------------------
(***************************************************************************)
(* Proofs about the paid part of a diligence project, for any number of    *)
(* candidates, calls in progress, overlaps and crashes.                    *)
(***************************************************************************)
EXTENDS Enrichment, SetTheorems, FiniteSetTheorems, TLAPS

(* A plan and the operation it names are at the same point.                *)
PlanFits(plan, op) ==
    /\ plan.status = "COMPLETED" => op.status \in {"SUCCEEDED", "PARTIAL"}
    /\ plan.status = "QUOTED" => op.status \in {"QUOTED", "EXECUTING"}

(* What every copy of the document satisfies beyond its type: an operation *)
(* nobody began has no attempts, a successful lookup has a result, a       *)
(* pending decision has an id, a cost decision names a plan, and the plan  *)
(* agrees with its operation.                                              *)
WellFormed(d) ==
    /\ d \in Document
    /\ \A c \in Candidates : d.lookup[c].status = "NONE" => d.lookup[c].attempts = 0
    /\ \A c \in Candidates : d.lookup[c].status = "SUCCEEDED" => d.lookup[c].result # "NONE"
    /\ \A s \in SUBSET Candidates : d.fetch[s].status = "NONE" => d.fetch[s].attempts = 0
    /\ d.active.kind # "none" => d.active.id # 0
    /\ d.active.kind = "confirm_enrichment" => d.active.ref \in PlanIds
    /\ PlanFits(d.plan, d.fetch[d.plan.request])

(* An approved plan was approved by a user: the plan is among the approved, *)
(* the decision among the answered.                                          *)
Genuine(d, plans, answers_) ==
    d.plan.approved # 0 => d.plan.approved \in answers_ /\ d.plan.id \in plans

(* A call that has passed the gate of confirm_and_fetch holds an approved plan. *)
CallOK(k, plans, answers_) ==
    /\ k \in Call /\ WellFormed(k.doc) /\ Genuine(k.doc, plans, answers_)
    /\ k.pc \in {"select", "batch"} => k.doc.plan.approved # 0

(* The inductive invariant: it speaks of every copy of the document, because *)
(* any copy may become the stored one.                                       *)
DocumentOK == WellFormed(db) /\ Genuine(db, approvals, answered)
CallsOK == call \in [Calls -> Call] /\ \A h \in Calls : CallOK(call[h], approvals, answered)
DecisionsOK ==
    /\ nextDecision \in 1..MaxDecisions + 1
    /\ approvals \subseteq PlanIds /\ answered \subseteq DecisionIds /\ cancelled \subseteq PlanIds
CountersOK ==
    /\ nextPlan \in 1..MaxPlans + 1 /\ expired \subseteq PlanIds
    /\ crashes \in 0..MaxCrashes /\ overlaps \in 0..MaxOverlaps
    /\ lookups \in [Candidates -> 0..LookupCap]
PaymentsOK == paid \in [PlanIds -> [Candidates -> 0..PaidCap]] /\ FetchOnlyApproved

IInv == DocumentOK /\ CallsOK /\ DecisionsOK /\ CountersOK /\ PaymentsOK

-------------------------------------------------------------------------------
(* Facts about operators *)

(* An initial document is well formed. *)
LEMMA NewProjectWellFormed ==
    ASSUME NEW U
    PROVE  WellFormed(NewProject(U)) /\ NewProject(U).plan = NoPlan
BY EnrichmentAssumption DEF WellFormed, NewProject, Document, CandidateStatus, Plan, Lookup, Fetch, Decision,
   NoPlan, NoDecision, PlanIds, DecisionIds, RetryLimit, PlanFits

(* An idle slot is a call. *)
LEMMA IdleIsCall ==
    ASSUME NEW out \in {"ok", "raised"}
    PROVE  Idle(out) \in Call /\ WellFormed(Idle(out).doc) /\ Idle(out).doc.plan = NoPlan
BY NewProjectWellFormed, EnrichmentAssumption
   DEF Idle, Call, ControlPoint, WellFormed

(* A pending decision replaces none, and leaves the plan alone. *)
LEMMA InterruptedWellFormed ==
    ASSUME nextDecision \in 1..MaxDecisions + 1,
           NEW d, WellFormed(d), NEW ref \in Nat,
           NEW kind \in {"confirm_enrichment", "confirm_address", "project_action"},
           kind = "confirm_enrichment" => ref \in PlanIds,
           Interrupted(d, kind, ref).active.id <= MaxDecisions
    PROVE  WellFormed(Interrupted(d, kind, ref)) /\ Interrupted(d, kind, ref).plan = d.plan
<1>1. CASE d.active.id # 0
  BY <1>1 DEF Interrupted
<1>2. CASE d.active.id = 0
  <2> DEFINE e == [d EXCEPT !.active = [id |-> nextDecision, kind |-> kind, ref |-> ref]]
  <2>1. Interrupted(d, kind, ref) = e
    BY <1>2 DEF Interrupted
  <2>2. d \in Document
    BY DEF WellFormed
  <2>3. e.active = [id |-> nextDecision, kind |-> kind, ref |-> ref]
    BY <2>2 DEF Document
  <2>4. e.active \in Decision
    BY <2>1, <2>3, EnrichmentAssumption DEF Decision
  <2>5. e \in Document /\ e.plan = d.plan /\ e.lookup = d.lookup /\ e.fetch = d.fetch
    BY <2>2, <2>3, <2>4 DEF Document
  <2> QED
    BY <2>1, <2>3, <2>5, EnrichmentAssumption DEF WellFormed
<1> QED
  BY <1>1, <1>2

(* The same for the address question. *)
LEMMA AddressQueuedWellFormed ==
    ASSUME nextDecision \in 1..MaxDecisions + 1,
           NEW d, WellFormed(d), AddressQueued(d).active.id <= MaxDecisions
    PROVE  WellFormed(AddressQueued(d)) /\ AddressQueued(d).plan = d.plan
<1> DEFINE open == InStatus(d, "ADDRESS_CONFIRMATION_REQUIRED")
<1>1. CASE open = {}
  BY <1>1 DEF AddressQueued
<1>2. CASE open # {}
  <2>1. AddressQueued(d) = Interrupted(d, "confirm_address", Min(open))
    BY <1>2 DEF AddressQueued
  <2>2. Min(open) \in Nat
    BY <1>2, MinOfNaturals, EnrichmentAssumption DEF InStatus, Candidates
  <2> QED
    BY <2>1, <2>2, InterruptedWellFormed
<1> QED
  BY <1>1, <1>2

(* A fresh decision id is taken only below the bound. *)
LEMMA DecisionIdTaken ==
    ASSUME nextDecision \in 1..MaxDecisions + 1, NEW d, TakesDecisionId(d)
    PROVE  nextDecision' \in 1..MaxDecisions + 1 /\ d.active.id <= MaxDecisions
BY EnrichmentAssumption DEF TakesDecisionId

(* Answering clears the pending decision and leaves the rest alone. *)
LEMMA AnsweredWellFormed ==
    ASSUME NEW d, WellFormed(d), d.active.id # 0
    PROVE  WellFormed(Answered(d)) /\ Answered(d).plan = d.plan
<1>1. d \in Document
  BY DEF WellFormed
<1>2. d.active.id \in DecisionIds
  BY <1>1, EnrichmentAssumption DEF Document, Decision, DecisionIds
<1>3. NoDecision \in Decision
  BY EnrichmentAssumption DEF NoDecision, Decision
<1>4. /\ Answered(d) \in Document
      /\ Answered(d).plan = d.plan /\ Answered(d).lookup = d.lookup
      /\ Answered(d).fetch = d.fetch /\ Answered(d).active = NoDecision
  BY <1>1, <1>2, <1>3 DEF Answered, Document
<1> QED
  BY <1>4 DEF WellFormed, NoDecision

(* New candidate statuses disturb nothing else. *)
LEMMA CandWellFormed ==
    ASSUME NEW d, WellFormed(d), NEW f \in [Candidates -> CandidateStatus]
    PROVE  WellFormed([d EXCEPT !.cand = f]) /\ [d EXCEPT !.cand = f].plan = d.plan
<1> DEFINE e == [d EXCEPT !.cand = f]
<1>1. d \in Document
  BY DEF WellFormed
<1>2. /\ e \in Document /\ e.plan = d.plan /\ e.lookup = d.lookup
      /\ e.fetch = d.fetch /\ e.active = d.active
  BY <1>1 DEF Document
<1> QED
  BY <1>2 DEF WellFormed

LEMMA OneCandWellFormed ==
    ASSUME NEW d, WellFormed(d), NEW c, NEW s \in CandidateStatus
    PROVE  WellFormed([d EXCEPT !.cand[c] = s]) /\ [d EXCEPT !.cand[c] = s].plan = d.plan
<1> DEFINE f == [d.cand EXCEPT ![c] = s]
<1>1. d \in Document
  BY DEF WellFormed
<1>2. f \in [Candidates -> CandidateStatus]
  BY <1>1 DEF Document
<1>3. [d EXCEPT !.cand[c] = s] = [d EXCEPT !.cand = f]
  BY <1>1 DEF Document
<1> QED
  BY <1>2, <1>3, CandWellFormed

(* So does a changed lookup operation that keeps its own conventions. *)
LEMMA LookupWellFormed ==
    ASSUME NEW d, WellFormed(d), NEW c, NEW op \in Lookup,
           op.status = "NONE" => op.attempts = 0,
           op.status = "SUCCEEDED" => op.result # "NONE"
    PROVE  WellFormed([d EXCEPT !.lookup[c] = op]) /\ [d EXCEPT !.lookup[c] = op].plan = d.plan
<1> DEFINE e == [d EXCEPT !.lookup[c] = op]
<1>1. d \in Document
  BY DEF WellFormed
<1>2. /\ e \in Document /\ e.plan = d.plan
      /\ e.lookup = [d.lookup EXCEPT ![c] = op]
      /\ e.fetch = d.fetch /\ e.active = d.active
  BY <1>1 DEF Document
<1>3. \A b \in Candidates : e.lookup[b] = op \/ e.lookup[b] = d.lookup[b]
  BY <1>1, <1>2 DEF Document
<1> QED
  BY <1>2, <1>3 DEF WellFormed

(* And a changed paid fetch with a plan that fits it. *)
WithFetchAndPlan(d, s, op, p) == [d EXCEPT !.fetch = [d.fetch EXCEPT ![s] = op], !.plan = p]

LEMMA FetchAndPlanWellFormed ==
    ASSUME NEW d, WellFormed(d), NEW s, NEW op \in Fetch, op.status # "NONE",
           NEW p \in Plan, p.request = s, PlanFits(p, op)
    PROVE  WellFormed(WithFetchAndPlan(d, s, op, p)) /\ WithFetchAndPlan(d, s, op, p).plan = p
<1> DEFINE e == WithFetchAndPlan(d, s, op, p)
<1>1. d \in Document
  BY DEF WellFormed
<1>2. /\ e \in Document /\ e.plan = p
      /\ e.fetch = [d.fetch EXCEPT ![s] = op]
      /\ e.lookup = d.lookup /\ e.active = d.active
  BY <1>1 DEF Document, WithFetchAndPlan
<1>3. /\ s \in SUBSET Candidates
      /\ \A t \in SUBSET Candidates : e.fetch[t] = IF t = s THEN op ELSE d.fetch[t]
  BY <1>1, <1>2 DEF Document, Plan
<1> HIDE DEF e
<1>4. PlanFits(e.plan, e.fetch[e.plan.request])
  BY <1>2, <1>3
<1>5. WellFormed(e)
  BY <1>2, <1>3, <1>4 DEF WellFormed
<1> QED
  BY <1>2, <1>5 DEF e

(* A plan may be replaced by any plan that fits the operation it names. *)
LEMMA PlanWellFormed ==
    ASSUME NEW d, WellFormed(d), NEW p \in Plan, PlanFits(p, d.fetch[p.request])
    PROVE  WellFormed([d EXCEPT !.plan = p]) /\ [d EXCEPT !.plan = p].plan = p
<1> DEFINE e == [d EXCEPT !.plan = p]
<1>1. d \in Document
  BY DEF WellFormed
<1>2. /\ e \in Document /\ e.plan = p /\ e.lookup = d.lookup
      /\ e.fetch = d.fetch /\ e.active = d.active
  BY <1>1 DEF Document
<1> QED
  BY <1>2 DEF WellFormed

(* An operation that may begin has an attempt left. *)
LEMMA BegunLookup ==
    ASSUME NEW reason, NEW op \in Lookup,
           op.status = "NONE" => op.attempts = 0, MayBegin(op, reason)
    PROVE  Begun(op, "EXECUTING") \in Lookup /\ Begun(op, "EXECUTING").status = "EXECUTING"
<1>1. op.attempts \in Nat /\ op.attempts + 1 \in 0..2
  BY DEF Lookup, MayBegin, RetryLimit
<1> QED
  BY <1>1 DEF Lookup, Begun, RetryLimit

LEMMA BegunFetch ==
    ASSUME NEW reason, NEW op \in Fetch,
           op.status = "NONE" => op.attempts = 0, MayBegin(op, reason)
    PROVE  Begun(op, "QUOTED") \in Fetch /\ Begun(op, "QUOTED").status = "QUOTED"
<1>1. op.attempts \in Nat /\ op.attempts + 1 \in 0..2
  BY DEF Fetch, MayBegin, RetryLimit
<1> QED
  BY <1>1 DEF Fetch, Begun, RetryLimit

(* The outcome of a lookup, recorded. *)
LEMMA LookedUpWellFormed ==
    ASSUME NEW d, WellFormed(d), NEW c, NEW outcome \in Outcomes
    PROVE  WellFormed(LookedUp(d, c, outcome)) /\ LookedUp(d, c, outcome).plan = d.plan
<1> DEFINE e == [d EXCEPT !.cand[c] = outcome]
           op == IF outcome = "ERROR" THEN [d.lookup[c] EXCEPT !.status = "FAILED"]
                 ELSE [d.lookup[c] EXCEPT !.status = "SUCCEEDED", !.result = outcome]
<1>1. d \in Document
  BY DEF WellFormed
<1>2. WellFormed(e) /\ e.plan = d.plan /\ e.lookup = d.lookup
  <2>1. outcome \in CandidateStatus
    BY DEF Outcomes, CandidateStatus
  <2> QED
    BY <1>1, <2>1, OneCandWellFormed DEF Document
<1>3. LookedUp(d, c, outcome) = [e EXCEPT !.lookup[c] = op]
  BY <1>1 DEF LookedUp, Document
<1>4. CASE c \in Candidates
  <2>1. d.lookup[c] \in Lookup
    BY <1>1, <1>4 DEF Document
  <2>2. op \in Lookup /\ op.status # "NONE" /\ (op.status = "SUCCEEDED" => op.result # "NONE")
    BY <2>1 DEF Lookup, Outcomes
  <2> QED
    <3> HIDE DEF e, op
    <3>1. WellFormed(e) /\ e.plan = d.plan
      BY <1>2
    <3>2. op.status = "NONE" => op.attempts = 0
      BY <2>2
    <3>3. WellFormed([e EXCEPT !.lookup[c] = op]) /\ [e EXCEPT !.lookup[c] = op].plan = e.plan
      BY <3>1, <3>2, <2>2, LookupWellFormed
    <3> QED
      BY <3>1, <3>3, <1>3
<1>5. CASE c \notin Candidates
  <2>1. [e EXCEPT !.lookup[c] = op] = e
    <3> HIDE DEF e, op
    <3>1. e \in Document
      BY <1>2 DEF WellFormed
    <3>2. [e.lookup EXCEPT ![c] = op] = e.lookup
      BY <3>1, <1>5 DEF Document
    <3> QED
      BY <3>1, <3>2 DEF Document
  <2> QED
    BY <1>2, <1>3, <2>1
<1> QED
  BY <1>4, <1>5

-------------------------------------------------------------------------------
(* Facts about the steps of a call *)

(* A copy with the plan of a genuine one is genuine, now and later. *)
LEMMA SamePlanGenuine ==
    ASSUME NEW d, NEW P, NEW A, Genuine(d, P, A),
           NEW e, e.plan = d.plan, NEW Q, P \subseteq Q, NEW B, A \subseteq B
    PROVE  Genuine(e, Q, B)
BY DEF Genuine

(* One slot gets a sound call; the others keep theirs. *)
LEMMA SlotOK ==
    ASSUME CallsOK, approvals \subseteq approvals', answered \subseteq answered',
           NEW h \in Calls, NEW k, CallOK(k, approvals', answered'),
           call' = [call EXCEPT ![h] = k]
    PROVE  CallsOK'
<1>1. call' \in [Calls -> Call]
  BY DEF CallsOK, CallOK
<1>2. ASSUME NEW g \in Calls PROVE CallOK(call'[g], approvals', answered')
  <2>1. call'[g] = k \/ call'[g] = call[g]
    BY DEF CallsOK
  <2>2. CallOK(call[g], approvals', answered')
    <3>1. CallOK(call[g], approvals, answered)
      BY DEF CallsOK
    <3> QED
      BY <3>1 DEF CallOK, Genuine
  <2> QED
    BY <2>1, <2>2
<1> QED
  BY <1>1, <1>2 DEF CallsOK

LEMMA AwaitOK ==
    ASSUME CallsOK, approvals \subseteq approvals', answered \subseteq answered',
           NEW h \in Calls, NEW pc \in ControlPoint, NEW d, WellFormed(d),
           Genuine(d, approvals', answered'),
           pc \in {"select", "batch"} => d.plan.approved # 0,
           NEW at \in 0..NumCandidates + 1, NEW reason \in BOOLEAN,
           NEW sites \in SUBSET Candidates, NEW left \in SUBSET Candidates,
           Await(h, pc, d, at, reason, sites, left)
    PROVE  CallsOK'
<1> DEFINE k == [pc |-> pc, doc |-> d, at |-> at, reason |-> reason,
                 sites |-> sites, left |-> left, out |-> "ok"]
<1>1. k \in Call
  BY DEF Call, WellFormed
<1>2. CallOK(k, approvals', answered')
  BY <1>1 DEF CallOK
<1>3. call' = [call EXCEPT ![h] = k]
  BY DEF Await
<1> HIDE DEF k
<1> QED
  BY <1>2, <1>3, SlotOK

(* The arguments of a call that has nothing to go through yet. *)
LEMMA EmptyArguments ==
    /\ 0 \in 0..NumCandidates + 1 /\ FALSE \in BOOLEAN /\ {} \in SUBSET Candidates
    /\ \A c \in Candidates : c \in 0..NumCandidates + 1
BY EnrichmentAssumption DEF Candidates

LEMMA IdleOK ==
    ASSUME NEW out \in {"ok", "raised"}, NEW P, NEW A
    PROVE  CallOK(Idle(out), P, A)
<1>1. Idle(out).doc.plan.approved = 0
  BY IdleIsCall DEF NoPlan
<1>2. Idle(out).pc = "idle"
  BY DEF Idle
<1> QED
  BY <1>1, <1>2, IdleIsCall DEF CallOK, Genuine

LEMMA ReturnOK ==
    ASSUME CallsOK, approvals \subseteq approvals', answered \subseteq answered',
           NEW h \in Calls, NEW out \in {"ok", "raised"}, Return(h, out)
    PROVE  CallsOK'
BY SlotOK, IdleOK DEF Return

LEMMA SameCallsOK ==
    ASSUME CallsOK, approvals \subseteq approvals', answered \subseteq answered', call' = call
    PROVE  CallsOK'
BY DEF CallsOK, CallOK, Genuine

(* The start of a handler keeps to the bound on overlaps. *)
LEMMA EntersOK ==
    ASSUME CountersOK, Enters
    PROVE  overlaps' \in 0..MaxOverlaps
BY EnrichmentAssumption DEF CountersOK, Enters

(* Lookups are counted up to the cap. *)
LEMMA CountedLookup ==
    ASSUME NEW f \in [Candidates -> 0..LookupCap], NEW c
    PROVE  [f EXCEPT ![c] = BumpTo(LookupCap, @)] \in [Candidates -> 0..LookupCap]
<1>1. LookupCap = 3
  BY DEF LookupCap, RetryLimit
<1>2. \A n \in 0..LookupCap : BumpTo(LookupCap, n) \in 0..LookupCap
  BY <1>1 DEF BumpTo
<1> QED
  BY <1>2

(* Passing candidates by, and starting the next lookup, keep a sound copy. *)
LEMMA ProceedOK ==
    ASSUME IInv, UNCHANGED <<approvals, answered>>,
           NEW h \in Calls, NEW d, WellFormed(d), Genuine(d, approvals, answered),
           NEW i \in Nat, NEW reason \in BOOLEAN, Proceed(h, d, i, reason)
    PROVE  DocumentOK' /\ CallsOK' /\ lookups' \in [Candidates -> 0..LookupCap]
<1> DEFINE rest == {c \in Candidates : c >= i /\ ~PassedBy(d, c, reason)}
           stop == IF rest = {} THEN NumCandidates + 1 ELSE Min(rest)
           cand == [c \in Candidates |-> IF i <= c /\ c < stop THEN AfterPassing(d, c)
                                                             ELSE d.cand[c]]
           e == [d EXCEPT !.cand = cand]
           begun == [e EXCEPT !.lookup[stop] = Begun(@, "EXECUTING")]
<1>1. d \in Document
  BY DEF WellFormed
<1>2. stop \in 0..NumCandidates + 1 /\ (rest # {} => stop \in rest)
  <2>1. rest \subseteq Nat
    BY EnrichmentAssumption DEF Candidates
  <2>2. rest # {} => Min(rest) \in rest
    BY <2>1, MinOfNaturals
  <2> QED
    BY <2>2, EnrichmentAssumption DEF Candidates
<1>3. \A c \in Candidates : i <= c /\ c < stop => PassedBy(d, c, reason)
  <2> SUFFICES ASSUME NEW c \in Candidates, i <= c, c < stop, ~PassedBy(d, c, reason) PROVE FALSE
    OBVIOUS
  <2>1. c \in rest /\ c \in Nat
    BY EnrichmentAssumption DEF Candidates
  <2>2. Min(rest) <= c
    <3>1. rest \subseteq Nat /\ rest # {}
      BY <2>1, EnrichmentAssumption DEF Candidates
    <3> QED
      BY <3>1, <2>1, MinOfNaturals
  <2>3. stop = Min(rest) /\ stop \in Nat
    BY <2>1, <1>2
  <2> QED
    BY <2>1, <2>2, <2>3
<1>4. cand \in [Candidates -> CandidateStatus]
  <2> SUFFICES ASSUME NEW c \in Candidates PROVE cand[c] \in CandidateStatus
    OBVIOUS
  <2>1. d.cand[c] \in CandidateStatus
    BY <1>1 DEF Document
  <2>2. CASE i <= c /\ c < stop
    <3>1. PassedBy(d, c, reason)
      BY <1>3, <2>2
    <3>2. d.lookup[c].status = "SUCCEEDED" => d.lookup[c].result \in {"RESOLVED", "AMBIGUOUS", "NOT_FOUND"}
      BY <1>1 DEF WellFormed, Document, Lookup
    <3>3. AfterPassing(d, c) \in CandidateStatus
      BY <2>1, <3>1, <3>2 DEF PassedBy, AfterPassing, CandidateStatus
    <3> QED
      BY <2>2, <3>3
  <2>3. CASE ~(i <= c /\ c < stop)
    BY <2>1, <2>3
  <2> QED
    BY <2>2, <2>3
<1>5. WellFormed(e) /\ e.plan = d.plan /\ e.lookup = d.lookup
  <2> HIDE DEF cand
  <2> QED
    BY <1>1, <1>4, CandWellFormed DEF Document
<1>6. Genuine(e, approvals', answered') /\ Genuine(d, approvals', answered')
  BY <1>5 DEF Genuine
<1>7. CallsOK /\ DocumentOK /\ CountersOK
  BY DEF IInv
<1>8. ASSUME rest # {}, MayBegin(d.lookup[stop], reason)
      PROVE  WellFormed(begun) /\ Genuine(begun, approvals', answered')
  <2> DEFINE op == Begun(e.lookup[stop], "EXECUTING")
  <2>1. stop \in Candidates
    BY <1>2, <1>8
  <2>2. e.lookup[stop] \in Lookup /\ (e.lookup[stop].status = "NONE" => e.lookup[stop].attempts = 0)
    BY <1>1, <1>5, <2>1 DEF WellFormed, Document
  <2>3. MayBegin(e.lookup[stop], reason)
    BY <1>5, <1>8
  <2>4. op \in Lookup /\ op.status = "EXECUTING"
    <3> HIDE DEF e, stop
    <3> QED
      BY <2>2, <2>3, BegunLookup
  <2>5. begun = [e EXCEPT !.lookup[stop] = op]
    OBVIOUS
  <2>6. WellFormed(begun) /\ begun.plan = e.plan
    <3> HIDE DEF e, op, begun, stop
    <3> QED
      BY <1>5, <2>4, <2>5, LookupWellFormed
  <2> QED
    BY <2>6, <1>6, <1>5 DEF Genuine
<1> HIDE DEF e, begun, stop, cand
<1>9. CASE /\ rest = {} /\ Resolved(e) = {} /\ db' = e /\ Return(h, "ok") /\ UNCHANGED lookups
  BY <1>5, <1>6, <1>7, <1>9, ReturnOK DEF DocumentOK, CountersOK
<1>10. CASE /\ rest = {} /\ Resolved(e) # {} /\ db' = d
            /\ Await(h, "quotes", e, stop, reason, {}, {}) /\ UNCHANGED lookups
  <2>1. CallsOK'
    BY <1>2, <1>5, <1>6, <1>7, <1>10, AwaitOK DEF ControlPoint
  <2> QED
    BY <2>1, <1>6, <1>7, <1>10 DEF DocumentOK, CountersOK
<1>11. CASE /\ rest # {} /\ MayBegin(d.lookup[stop], reason) /\ db' = begun
            /\ Await(h, "lookup", begun, stop, reason, {}, {})
            /\ lookups' = [lookups EXCEPT ![stop] = BumpTo(LookupCap, @)]
  <2>1. WellFormed(begun) /\ Genuine(begun, approvals', answered')
    BY <1>8, <1>11
  <2>2. CallsOK'
    BY <1>2, <1>7, <1>11, <2>1, AwaitOK DEF ControlPoint
  <2>3. lookups' \in [Candidates -> 0..LookupCap]
    BY <1>7, <1>11, CountedLookup DEF CountersOK
  <2> QED
    BY <2>1, <2>2, <2>3, <1>11 DEF DocumentOK
<1>12. CASE rest # {} /\ db' = d /\ Return(h, "raised") /\ UNCHANGED lookups
  BY <1>6, <1>7, <1>12, ReturnOK DEF DocumentOK, CountersOK
<1> QED
  BY <1>9, <1>10, <1>11, <1>12 DEF Proceed, e, begun, stop, cand

-------------------------------------------------------------------------------
(* Each action preserves the invariant: looking up and quoting *)

LEMMA ResolveAndQuoteStep ==
    ASSUME IInv, NEW h \in Calls, NEW reason \in BOOLEAN, ResolveAndQuote(h, reason)
    PROVE  IInv'
<1>1. DocumentOK' /\ DecisionsOK' /\ PaymentsOK'
  BY DEF IInv, ResolveAndQuote, DocumentOK, DecisionsOK, PaymentsOK, FetchOnlyApproved,
         history, answers
<1>2. CallsOK'
  BY AwaitOK, EnrichmentAssumption
     DEF IInv, ResolveAndQuote, DocumentOK, ControlPoint, history, answers
<1>3. CountersOK'
  BY EntersOK DEF IInv, ResolveAndQuote, Starts, CountersOK, history, answers
<1> QED
  BY <1>1, <1>2, <1>3 DEF IInv

LEMMA EvidencePlannedStep ==
    ASSUME IInv, NEW h \in Calls, EvidencePlanned(h)
    PROVE  IInv'
<1>1. /\ call[h].reason \in BOOLEAN
      /\ WellFormed(call[h].doc) /\ Genuine(call[h].doc, approvals, answered)
  BY DEF IInv, CallsOK, CallOK, Call
<1>2. DocumentOK' /\ CallsOK' /\ lookups' \in [Candidates -> 0..LookupCap]
  BY <1>1, ProceedOK DEF EvidencePlanned, answers
<1> QED
  BY <1>2 DEF IInv, EvidencePlanned, DecisionsOK, CountersOK, PaymentsOK, FetchOnlyApproved,
              answers, bounds

LEMMA LookupReturnedStep ==
    ASSUME IInv, NEW h \in Calls, NEW outcome \in Outcomes, LookupReturned(h, outcome)
    PROVE  IInv'
<1> DEFINE d == LookedUp(call[h].doc, call[h].at, outcome)
<1>1. /\ call[h].reason \in BOOLEAN /\ call[h].at + 1 \in Nat
      /\ WellFormed(call[h].doc) /\ Genuine(call[h].doc, approvals, answered)
  BY EnrichmentAssumption DEF IInv, CallsOK, CallOK, Call
<1>2. WellFormed(d) /\ d.plan = call[h].doc.plan
  BY <1>1, LookedUpWellFormed
<1>3. Genuine(d, approvals, answered)
  BY <1>1, <1>2 DEF Genuine
<1>4. Proceed(h, d, call[h].at + 1, call[h].reason)
  BY DEF LookupReturned
<1>5. DocumentOK' /\ CallsOK' /\ lookups' \in [Candidates -> 0..LookupCap]
  <2> HIDE DEF d
  <2> QED
    BY <1>1, <1>2, <1>3, <1>4, ProceedOK DEF LookupReturned, answers
<1> QED
  BY <1>5 DEF IInv, LookupReturned, DecisionsOK, CountersOK, PaymentsOK, FetchOnlyApproved,
              answers, bounds

(* A new quote: its operation is begun unless it stands, its plan is new. *)
FreshQuote(d, id) ==
    [d EXCEPT !.fetch[Resolved(d)] = IF @.status = "QUOTED" THEN @ ELSE Begun(@, "QUOTED"),
              !.plan = [id |-> id, status |-> "QUOTED", approved |-> 0, request |-> Resolved(d)]]

LEMMA FreshQuoteWellFormed ==
    ASSUME NEW d, WellFormed(d), NEW id \in PlanIds, NEW reason,
           d.fetch[Resolved(d)].status = "QUOTED" \/ MayBegin(d.fetch[Resolved(d)], reason)
    PROVE  /\ WellFormed(FreshQuote(d, id))
           /\ FreshQuote(d, id).plan = [id |-> id, status |-> "QUOTED", approved |-> 0,
                                        request |-> Resolved(d)]
<1> DEFINE request == Resolved(d)
           op == d.fetch[request]
           fresh == IF op.status = "QUOTED" THEN op ELSE Begun(op, "QUOTED")
           plan == [id |-> id, status |-> "QUOTED", approved |-> 0, request |-> request]
<1>1. request \in SUBSET Candidates /\ d \in Document
  BY DEF Resolved, InStatus, WellFormed
<1>2. plan \in Plan /\ plan.request = request /\ plan.status = "QUOTED"
  BY <1>1, EnrichmentAssumption DEF Plan, PlanIds
<1>3. fresh \in Fetch /\ fresh.status = "QUOTED"
  <2>1. op \in Fetch /\ (op.status = "NONE" => op.attempts = 0)
    BY <1>1 DEF WellFormed, Document
  <2> HIDE DEF op
  <2> QED
    BY <2>1, BegunFetch DEF op
<1>4. FreshQuote(d, id) = WithFetchAndPlan(d, request, fresh, plan)
  BY <1>1 DEF FreshQuote, Document, WithFetchAndPlan
<1> HIDE DEF fresh, plan, request
<1>5. PlanFits(plan, fresh) /\ fresh.status # "NONE"
  BY <1>2, <1>3 DEF PlanFits
<1>6. /\ WellFormed(WithFetchAndPlan(d, request, fresh, plan))
      /\ WithFetchAndPlan(d, request, fresh, plan).plan = plan
  BY <1>2, <1>3, <1>5, FetchAndPlanWellFormed
<1> QED
  BY <1>4, <1>6 DEF plan, request

LEMMA QuotedStep ==
    ASSUME IInv, NEW h \in Calls, Quoted(h)
    PROVE  IInv'
<1> DEFINE d == call[h].doc
           request == Resolved(d)
           op == d.fetch[request]
           standing == op.status = "QUOTED" /\ d.plan.request = request
           refused == \/ op.status \notin {"QUOTED", "SUCCEEDED"} /\ ~MayBegin(op, call[h].reason)
                      \/ op.status = "QUOTED" /\ d.plan = NoPlan
           plan == [id |-> nextPlan, status |-> "QUOTED", approved |-> 0, request |-> request]
           e == [d EXCEPT !.fetch[request] = IF @.status = "QUOTED" THEN @ ELSE Begun(@, "QUOTED"),
                          !.plan = plan]
           f == Interrupted(e, "confirm_enrichment", nextPlan)
<1>1. WellFormed(d) /\ Genuine(d, approvals, answered) /\ d \in Document
  BY DEF IInv, CallsOK, CallOK, WellFormed
<1>2. DecisionsOK /\ CallsOK /\ CountersOK /\ PaymentsOK
  BY DEF IInv
<1>3. PaymentsOK' /\ UNCHANGED <<approvals, answered, cancelled, expired, crashes, overlaps, lookups>>
  BY <1>2 DEF Quoted, PaymentsOK, FetchOnlyApproved, history, answers, bounds
<1>4. CASE /\ db' = d /\ Return(h, "ok") /\ UNCHANGED <<nextPlan, nextDecision>>
  BY <1>1, <1>2, <1>3, <1>4, ReturnOK DEF IInv, DocumentOK, DecisionsOK, CountersOK
<1>5. CASE /\ Return(h, "raised") /\ UNCHANGED <<db, nextPlan, nextDecision>>
  BY <1>2, <1>3, <1>5, ReturnOK DEF IInv, DocumentOK, DecisionsOK, CountersOK
<1>6. CASE /\ op.status # "SUCCEEDED" /\ ~standing /\ ~refused
           /\ nextPlan <= MaxPlans /\ nextPlan' = nextPlan + 1
           /\ TakesDecisionId(f) /\ db' = f /\ Return(h, "ok")
  <2>1. nextPlan \in PlanIds /\ nextPlan \in Nat /\ nextPlan' \in 1..MaxPlans + 1
    BY <1>2, <1>6, EnrichmentAssumption DEF CountersOK, PlanIds
  <2>2. plan.approved = 0
    OBVIOUS
  <2>3. WellFormed(e) /\ e.plan = plan
    <3>1. e = FreshQuote(d, nextPlan)
      BY DEF FreshQuote
    <3>2. op.status = "QUOTED" \/ MayBegin(op, call[h].reason)
      BY <1>6
    <3>3. WellFormed(FreshQuote(d, nextPlan)) /\ FreshQuote(d, nextPlan).plan = plan
      <4> HIDE DEF d, e
      <4> QED
        BY <1>1, <2>1, <3>2, FreshQuoteWellFormed
    <3> QED
      BY <3>1, <3>3
  <2>4. f.active.id <= MaxDecisions /\ nextDecision' \in 1..MaxDecisions + 1
    <3> HIDE DEF f
    <3> QED
      BY <1>2, <1>6, DecisionIdTaken DEF DecisionsOK
  <2>5. WellFormed(f) /\ f.plan = plan
    <3> HIDE DEF e
    <3> QED
      BY <1>2, <2>1, <2>3, <2>4, InterruptedWellFormed DEF DecisionsOK
  <2>6. DocumentOK'
    <3> HIDE DEF f, plan
    <3> QED
      BY <1>6, <2>2, <2>5 DEF DocumentOK, Genuine
  <2>7. UNCHANGED <<expired, bounds, history>>
    BY DEF Quoted
  <2>8. CallsOK'
    BY <1>2, <1>6, <2>7, ReturnOK DEF history, answers
  <2> QED
    BY <1>2, <2>1, <2>4, <2>6, <2>7, <2>8
       DEF IInv, DecisionsOK, CountersOK, PaymentsOK, FetchOnlyApproved, history, answers, bounds
<1> QED
  <2> HIDE DEF e
  <2> QED
    BY <1>4, <1>5, <1>6 DEF Quoted, d, request, op, standing, refused, plan, e, f

LEMMA AwaitFailsStep ==
    ASSUME IInv, NEW h \in Calls, AwaitFails(h)
    PROVE  IInv'
<1>1. CallsOK'
  BY ReturnOK DEF IInv, AwaitFails, history, answers
<1> QED
  BY <1>1 DEF IInv, AwaitFails, DocumentOK, DecisionsOK, CountersOK, PaymentsOK,
              FetchOnlyApproved, history, answers, bounds

LEMMA SelectResolutionStep ==
    ASSUME IInv, NEW h \in Calls, NEW c \in Candidates, SelectResolution(h, c)
    PROVE  IInv'
<1> DEFINE e == [db EXCEPT !.cand[c] = "RESOLVED"]
           d == [e EXCEPT !.plan = NoPlan]
<1>1. WellFormed(e)
  BY OneCandWellFormed DEF IInv, DocumentOK, CandidateStatus
<1>2. NoPlan \in Plan /\ NoPlan.approved = 0
  BY EnrichmentAssumption DEF NoPlan, Plan
<1>3. WellFormed(d) /\ d.plan = NoPlan
  <2>1. PlanFits(NoPlan, e.fetch[NoPlan.request])
    BY DEF NoPlan, PlanFits
  <2> HIDE DEF e
  <2> QED
    BY <1>1, <1>2, <2>1, PlanWellFormed
<1>4. d = [db EXCEPT !.cand[c] = "RESOLVED", !.plan = NoPlan]
  BY DEF IInv, DocumentOK, WellFormed, Document
<1>5. db' = d /\ Await(h, "evidence", d, 0, FALSE, {}, {})
  BY <1>4 DEF SelectResolution
<1>6. Genuine(d, approvals', answered')
  BY <1>2, <1>3 DEF Genuine
<1>7. UNCHANGED <<nextPlan, nextDecision, expired, crashes, history>> /\ Enters
  BY DEF SelectResolution, Starts
<1> HIDE DEF d
<1>8. CallsOK'
  <2>1. CallsOK /\ approvals \subseteq approvals' /\ answered \subseteq answered'
    BY <1>7 DEF IInv, history, answers
  <2>2. "evidence" \in ControlPoint /\ "evidence" \notin {"select", "batch"}
    BY DEF ControlPoint
  <2> QED
    BY <1>3, <1>5, <1>6, <2>1, <2>2, AwaitOK, EmptyArguments
<1>9. DocumentOK'
  BY <1>3, <1>5, <1>6 DEF DocumentOK
<1>10. CountersOK'
  BY <1>7, EntersOK DEF IInv, CountersOK, history
<1> QED
  BY <1>7, <1>8, <1>9, <1>10 DEF IInv, DecisionsOK, PaymentsOK, FetchOnlyApproved, history, answers

LEMMA ResolveCandidateStep ==
    ASSUME IInv, NEW h \in Calls, NEW c \in Candidates, ResolveCandidate(h, c)
    PROVE  IInv'
<1> DEFINE op == Begun(db.lookup[c], "EXECUTING")
           d == [db EXCEPT !.lookup[c] = op]
<1>1. op \in Lookup /\ op.status = "EXECUTING"
  <2>1. db.lookup[c] \in Lookup /\ (db.lookup[c].status = "NONE" => db.lookup[c].attempts = 0)
    BY DEF IInv, DocumentOK, WellFormed, Document
  <2>2. MayBegin(db.lookup[c], FALSE)
    BY DEF ResolveCandidate
  <2> QED
    BY <2>1, <2>2, BegunLookup
<1>2. WellFormed(d) /\ d.plan = db.plan
  <2> HIDE DEF op
  <2> QED
    BY <1>1, LookupWellFormed DEF IInv, DocumentOK
<1>3. db' = d /\ Await(h, "lookup_one", d, c, FALSE, {}, {})
  BY DEF ResolveCandidate
<1>4. UNCHANGED <<nextPlan, nextDecision, expired, crashes, answers, paid>> /\ Enters
  BY DEF ResolveCandidate, Starts
<1> HIDE DEF d
<1>5. Genuine(d, approvals', answered')
  BY <1>2, <1>4 DEF IInv, DocumentOK, Genuine, answers
<1>6. CallsOK'
  <2>1. CallsOK /\ approvals \subseteq approvals' /\ answered \subseteq answered'
    BY <1>4 DEF IInv, answers
  <2>2. "lookup_one" \in ControlPoint /\ "lookup_one" \notin {"select", "batch"}
    BY DEF ControlPoint
  <2> QED
    BY <1>2, <1>3, <1>5, <2>1, <2>2, AwaitOK, EmptyArguments
<1>7. lookups' \in [Candidates -> 0..LookupCap]
  BY CountedLookup DEF IInv, CountersOK, ResolveCandidate
<1>8. CountersOK'
  BY <1>4, <1>7, EntersOK DEF IInv, CountersOK
<1>9. DocumentOK'
  BY <1>2, <1>3, <1>5 DEF DocumentOK
<1> QED
  BY <1>4, <1>6, <1>8, <1>9 DEF IInv, DecisionsOK, PaymentsOK, FetchOnlyApproved, answers

LEMMA CandidateResolvedStep ==
    ASSUME IInv, NEW h \in Calls, NEW outcome \in Outcomes, CandidateResolved(h, outcome)
    PROVE  IInv'
<1> DEFINE d == call[h].doc
           c == call[h].at
           op == [d.lookup[c] EXCEPT !.status = "FAILED"]
           e == [d EXCEPT !.lookup[c] = op]
<1>1. WellFormed(d) /\ Genuine(d, approvals, answered) /\ d \in Document
  BY DEF IInv, CallsOK, CallOK, WellFormed
<1>2. WellFormed(e) /\ e.plan = d.plan
  <2>1. CASE c \in Candidates
    <3>1. d.lookup[c] \in Lookup
      BY <1>1, <2>1 DEF Document
    <3>2. op \in Lookup /\ op.status = "FAILED"
      BY <3>1 DEF Lookup
    <3> HIDE DEF op, d, c
    <3> QED
      BY <1>1, <3>2, LookupWellFormed
  <2>2. CASE c \notin Candidates
    <3> HIDE DEF op, d, c
    <3>1. [d.lookup EXCEPT ![c] = op] = d.lookup
      BY <1>1, <2>2 DEF Document
    <3>2. e = d
      BY <1>1, <3>1 DEF Document
    <3> QED
      BY <1>1, <3>2
  <2> QED
    BY <2>1, <2>2
<1>3. WellFormed(LookedUp(d, c, outcome)) /\ LookedUp(d, c, outcome).plan = d.plan
  BY <1>1, LookedUpWellFormed
<1>4. /\ db' = e \/ db' = LookedUp(d, c, outcome)
      /\ Return(h, "ok") \/ Return(h, "raised")
      /\ UNCHANGED <<nextPlan, nextDecision, expired, bounds, history>>
  BY DEF CandidateResolved
<1> HIDE DEF e, d, c
<1>5. DocumentOK'
  BY <1>1, <1>2, <1>3, <1>4 DEF DocumentOK, Genuine, history, answers
<1>6. CallsOK'
  BY <1>4, ReturnOK DEF IInv, history, answers
<1> QED
  BY <1>4, <1>5, <1>6 DEF IInv, DecisionsOK, CountersOK, PaymentsOK, FetchOnlyApproved,
                          history, answers, bounds

-------------------------------------------------------------------------------
(* Each action preserves the invariant: answering and fetching *)

(* Only an approved plan passes the gate, and the copy taken is sound. *)
LEMMA ConfirmAndFetchOK ==
    ASSUME IInv, approvals \subseteq approvals', answered \subseteq answered',
           NEW h \in Calls, NEW d, WellFormed(d), Genuine(d, approvals', answered'),
           ConfirmAndFetch(h, d)
    PROVE  DocumentOK' /\ CallsOK'
<1>1. CASE Confirmable(d) /\ db' = Executing(d) /\ Await(h, "select", Executing(d), 0, FALSE, {}, {})
  <2> DEFINE s == d.plan.request
             op == [d.fetch[s] EXCEPT !.status = "EXECUTING"]
  <2>1. op \in Fetch /\ op.status = "EXECUTING"
    BY DEF WellFormed, Document, Plan, Fetch
  <2>2. Executing(d) = [d EXCEPT !.fetch[s] = op]
    BY DEF Executing
  <2>3. WellFormed(Executing(d)) /\ Executing(d).plan = d.plan
    <3>1. d.plan \in Plan /\ d.plan.request = s /\ s \in SUBSET Candidates /\ d \in Document
      BY DEF WellFormed, Document, Plan
    <3>2. PlanFits(d.plan, op)
      <4>1. d.plan.status = "QUOTED"
        BY <1>1 DEF Confirmable
      <4> HIDE DEF op
      <4> QED
        BY <2>1, <4>1 DEF PlanFits
    <3> HIDE DEF op, s
    <3>3. op.status # "NONE"
      BY <2>1
    <3>4. /\ WellFormed(WithFetchAndPlan(d, s, op, d.plan))
          /\ WithFetchAndPlan(d, s, op, d.plan).plan = d.plan
      BY <2>1, <3>1, <3>2, <3>3, FetchAndPlanWellFormed
    <3>5. WithFetchAndPlan(d, s, op, d.plan) = [d EXCEPT !.fetch[s] = op]
      BY <3>1 DEF Document, WithFetchAndPlan
    <3> QED
      BY <2>2, <3>4, <3>5
  <2>4. Genuine(Executing(d), approvals', answered') /\ Executing(d).plan.approved # 0
    BY <1>1, <2>3 DEF Genuine, Confirmable
  <2>5. CallsOK'
    <3>1. CallsOK /\ "select" \in ControlPoint
      BY DEF IInv, ControlPoint
    <3> QED
      BY <1>1, <2>3, <2>4, <3>1, AwaitOK, EmptyArguments
  <2> QED
    BY <1>1, <2>3, <2>4, <2>5 DEF DocumentOK
<1>2. CASE db' = d /\ Return(h, "raised")
  BY <1>2, ReturnOK DEF IInv, DocumentOK
<1> QED
  BY <1>1, <1>2 DEF ConfirmAndFetch

LEMMA ConfirmRequestStep ==
    ASSUME IInv, NEW h \in Calls, ConfirmRequest(h)
    PROVE  IInv'
<1>1. UNCHANGED <<nextPlan, nextDecision, expired, crashes, history>> /\ Enters
  BY DEF ConfirmRequest, Starts
<1>2. DocumentOK' /\ CallsOK'
  BY <1>1, ConfirmAndFetchOK DEF IInv, DocumentOK, ConfirmRequest, history, answers
<1>3. CountersOK'
  BY <1>1, EntersOK DEF IInv, CountersOK, history
<1> QED
  BY <1>1, <1>2, <1>3 DEF IInv, DecisionsOK, PaymentsOK, FetchOnlyApproved, history, answers

(* "continue" approves the plan in front of the user, and records it. *)
LEMMA ApprovalOK ==
    ASSUME IInv, db.active.kind = "confirm_enrichment", db.active.ref = db.plan.id,
           approvals' = approvals \cup {db.plan.id}, answered' = answered \cup {db.active.id},
           UNCHANGED <<nextDecision, cancelled>>
    PROVE  /\ WellFormed(Approval(db)) /\ Genuine(Approval(db), approvals', answered')
           /\ DecisionsOK'
<1> DEFINE d == Answered(db)
           plan == [db.plan EXCEPT !.approved = db.active.id]
<1>1. db \in Document /\ WellFormed(db) /\ DecisionsOK
  BY DEF IInv, DocumentOK, WellFormed
<1>2. db.active.id \in 0..MaxDecisions /\ db.active.id # 0 /\ db.plan.id \in PlanIds
  BY <1>1 DEF WellFormed, Document, Decision
<1>3. WellFormed(d) /\ d.plan = db.plan
  BY <1>1, <1>2, AnsweredWellFormed
<1>4. plan \in Plan /\ plan.id = db.plan.id /\ plan.approved = db.active.id
  BY <1>1, <1>2 DEF Document, Plan
<1>5. WellFormed([d EXCEPT !.plan = plan]) /\ [d EXCEPT !.plan = plan].plan = plan
  <2>1. plan.status = db.plan.status /\ plan.request = db.plan.request
    BY <1>1 DEF Document, Plan
  <2> HIDE DEF d, plan
  <2>2. PlanFits(plan, d.fetch[plan.request])
    BY <1>3, <2>1 DEF WellFormed, PlanFits
  <2> QED
    BY <1>3, <1>4, <2>2, PlanWellFormed
<1>6. Approval(db) = [d EXCEPT !.plan = plan]
  <2>1. Approval(db) = [d EXCEPT !.plan = [d.plan EXCEPT !.approved = db.active.id]]
    BY DEF Approval
  <2> HIDE DEF d
  <2> QED
    BY <2>1, <1>3
<1>7. DecisionsOK'
  <2>1. db.active.id \in DecisionIds
    BY <1>2, EnrichmentAssumption DEF DecisionIds
  <2>2. answered' \subseteq DecisionIds /\ approvals' \subseteq PlanIds
    BY <1>1, <1>2, <2>1 DEF DecisionsOK
  <2> QED
    BY <1>1, <2>2 DEF DecisionsOK
<1> QED
  BY <1>4, <1>5, <1>6, <1>7 DEF Genuine

LEMMA AnswerContinueStep ==
    ASSUME IInv, NEW h \in Calls, AnswerContinue(h)
    PROVE  IInv'
<1>1. /\ UNCHANGED <<nextPlan, nextDecision, expired, crashes, cancelled, paid, lookups>>
      /\ Enters /\ ConfirmAndFetch(h, Approval(db))
      /\ approvals \subseteq approvals' /\ answered \subseteq answered'
  BY DEF AnswerContinue, Starts
<1>2. /\ WellFormed(Approval(db)) /\ Genuine(Approval(db), approvals', answered')
      /\ DecisionsOK'
  BY <1>1, ApprovalOK DEF AnswerContinue
<1>3. DocumentOK' /\ CallsOK'
  BY <1>1, <1>2, ConfirmAndFetchOK
<1>4. CountersOK'
  BY <1>1, EntersOK DEF IInv, CountersOK
<1> QED
  BY <1>1, <1>2, <1>3, <1>4 DEF IInv, PaymentsOK, FetchOnlyApproved

LEMMA DiesOK ==
    ASSUME Dies, MaxCrashes \in Nat, crashes \in 0..MaxCrashes
    PROVE  CallsOK' /\ crashes' \in 0..MaxCrashes
BY IdleOK, IdleIsCall DEF Dies, CallsOK

LEMMA ApprovedThenCrashStep ==
    ASSUME IInv, ApprovedThenCrash
    PROVE  IInv'
<1>1. /\ UNCHANGED <<nextPlan, nextDecision, expired, cancelled, paid, lookups>>
      /\ Enters /\ Dies /\ db' = Approval(db)
      /\ approvals \subseteq approvals'
  BY DEF ApprovedThenCrash
<1>2. /\ WellFormed(Approval(db)) /\ Genuine(Approval(db), approvals', answered')
      /\ DecisionsOK'
  BY <1>1, ApprovalOK DEF ApprovedThenCrash
<1>3. CallsOK' /\ crashes' \in 0..MaxCrashes
  BY <1>1, DiesOK, EnrichmentAssumption DEF IInv, CountersOK
<1>4. overlaps' \in 0..MaxOverlaps
  BY <1>1, EntersOK DEF IInv
<1> QED
  BY <1>1, <1>2, <1>3, <1>4 DEF IInv, DocumentOK, CountersOK, PaymentsOK, FetchOnlyApproved

LEMMA CrashStep ==
    ASSUME IInv, Crash
    PROVE  IInv'
<1>1. CallsOK' /\ crashes' \in 0..MaxCrashes
  BY DiesOK, EnrichmentAssumption DEF IInv, CountersOK, Crash
<1> QED
  BY <1>1 DEF IInv, Crash, DocumentOK, DecisionsOK, CountersOK, PaymentsOK, FetchOnlyApproved,
              history, answers

(* A batch is paid for under the plan the call holds, which is approved. *)
LEMMA SendBatchOK ==
    ASSUME IInv, UNCHANGED <<approvals, answered>>, NEW h \in Calls,
           NEW d, WellFormed(d), Genuine(d, approvals, answered), d.plan.approved # 0,
           NEW sites \in SUBSET Candidates, NEW left \in SUBSET Candidates,
           SendBatch(h, d, sites, left)
    PROVE  CallsOK' /\ PaymentsOK'
<1> DEFINE p == d.plan.id
           batch == FirstBatch(left)
           row == [c \in Candidates |-> IF c \in batch THEN BumpTo(PaidCap, paid[p][c]) ELSE paid[p][c]]
<1>1. p \in approvals /\ p \in PlanIds
  BY DEF Genuine, IInv, DecisionsOK
<1>2. row \in [Candidates -> 0..PaidCap]
  <2>1. paid[p] \in [Candidates -> 0..PaidCap]
    BY <1>1 DEF IInv, PaymentsOK
  <2>2. \A n \in 0..PaidCap : BumpTo(PaidCap, n) \in 0..PaidCap
    BY DEF BumpTo, PaidCap
  <2> HIDE DEF batch, p
  <2> QED
    BY <2>1, <2>2
<1>3. paid' = [paid EXCEPT ![p] = row]
  BY DEF SendBatch, Pays
<1> HIDE DEF row, p
<1>4. PaymentsOK'
  BY <1>1, <1>2, <1>3 DEF IInv, PaymentsOK, FetchOnlyApproved
<1>5. CallsOK'
  <2>1. Await(h, "batch", d, 0, FALSE, sites, left)
    BY DEF SendBatch
  <2>2. CallsOK /\ "batch" \in ControlPoint /\ Genuine(d, approvals', answered')
    BY DEF IInv, ControlPoint
  <2> QED
    BY <2>1, <2>2, AwaitOK, EmptyArguments
<1> QED
  BY <1>4, <1>5

(* Settling closes the operation and the plan of the copy. *)
LEMMA SettleOK ==
    ASSUME IInv, UNCHANGED <<approvals, answered>>, NEW h \in Calls,
           NEW d, WellFormed(d), Genuine(d, approvals, answered),
           NEW sites, Settle(h, d, sites)
    PROVE  DocumentOK' /\ CallsOK'
<1> DEFINE s == d.plan.request
           done == IF sites \cap InStatus(d, "ENRICHMENT_FAILED") = {} THEN "SUCCEEDED" ELSE "PARTIAL"
           op == [d.fetch[s] EXCEPT !.status = done]
           plan == [d.plan EXCEPT !.status = "COMPLETED"]
           f == WithFetchAndPlan(d, s, op, plan)
<1>1. d \in Document
  BY DEF WellFormed
<1>2. done \in {"SUCCEEDED", "PARTIAL"}
  OBVIOUS
<1>3. op \in Fetch /\ op.status = done /\ op.status # "NONE"
  <2>1. d.fetch[s] \in Fetch
    BY <1>1 DEF Document, Plan
  <2> HIDE DEF done
  <2> QED
    BY <2>1, <1>2 DEF Fetch
<1>4. plan \in Plan /\ plan.id = d.plan.id /\ plan.approved = d.plan.approved
  BY <1>1 DEF Document, Plan
<1>5. s \in SUBSET Candidates /\ plan.request = s /\ PlanFits(plan, op)
  <2>1. s \in SUBSET Candidates /\ plan.request = s /\ plan.status = "COMPLETED"
    BY <1>1 DEF Document, Plan
  <2> HIDE DEF op, plan, s, done
  <2> QED
    BY <1>2, <1>3, <2>1 DEF PlanFits
<1>6. WellFormed(f) /\ f.plan = plan
  <2> HIDE DEF op, plan, s
  <2> QED
    BY <1>3, <1>4, <1>5, FetchAndPlanWellFormed
<1>7. db' = f
  <2>1. db' = [d EXCEPT !.fetch[s].status = done, !.plan.status = "COMPLETED"]
    BY DEF Settle
  <2> HIDE DEF done
  <2> QED
    BY <1>1, <2>1 DEF Document, WithFetchAndPlan
<1>8. Genuine(f, approvals', answered')
  <2> HIDE DEF f, plan
  <2> QED
    BY <1>4, <1>6 DEF Genuine
<1>9. CallsOK'
  BY ReturnOK DEF IInv, Settle
<1> HIDE DEF f
<1> QED
  BY <1>6, <1>7, <1>8, <1>9 DEF DocumentOK

LEMMA FieldsSelectedStep ==
    ASSUME IInv, NEW h \in Calls, FieldsSelected(h)
    PROVE  IInv'
<1> DEFINE d == call[h].doc
<1>1. WellFormed(d) /\ Genuine(d, approvals, answered) /\ d.plan.approved # 0
  BY DEF IInv, CallsOK, CallOK, FieldsSelected
<1>2. UNCHANGED <<nextPlan, nextDecision, expired, bounds, answers, lookups>>
  BY DEF FieldsSelected
<1>3. Resolved(d) \in SUBSET Candidates
  BY DEF Resolved, InStatus
<1>4. DecisionsOK' /\ CountersOK'
  BY <1>2 DEF IInv, DecisionsOK, CountersOK, answers, bounds
<1>5. CASE SendBatch(h, d, Resolved(d), Resolved(d)) /\ UNCHANGED db
  <2> HIDE DEF d
  <2>1. CallsOK' /\ PaymentsOK'
    BY <1>1, <1>2, <1>3, <1>5, SendBatchOK DEF answers
  <2>2. DocumentOK'
    BY <1>2, <1>5 DEF IInv, DocumentOK, answers
  <2> QED
    BY <1>4, <2>1, <2>2 DEF IInv
<1>6. CASE Settle(h, d, {}) /\ UNCHANGED paid
  <2> HIDE DEF d
  <2>1. DocumentOK' /\ CallsOK'
    BY <1>1, <1>2, <1>6, SettleOK DEF answers
  <2> QED
    BY <1>2, <1>4, <1>6, <2>1 DEF IInv, PaymentsOK, FetchOnlyApproved, answers
<1> QED
  BY <1>5, <1>6 DEF FieldsSelected

(* e differs from d in its candidates at most. *)
SameButCandidates(e, d) ==
    /\ e.history = d.history /\ e.active = d.active /\ e.plan = d.plan
    /\ e.lookup = d.lookup /\ e.fetch = d.fetch

(* What a batch brought keeps the copy sound and its plan the same. *)
LEMMA BatchKeepsPlan ==
    ASSUME IInv, NEW h \in Calls, BatchReturned(h)
    PROVE  \E f : /\ WellFormed(f) /\ f.plan = call[h].doc.plan
                  /\ nextDecision' \in 1..MaxDecisions + 1 /\ TakesDecisionId(f)
                  /\ \E e \in Document : SameButCandidates(e, call[h].doc)
                                       /\ (f = e \/ f = AddressQueued(e))
                  /\ \/ /\ SendBatch(h, f, call[h].sites, call[h].left \ FirstBatch(call[h].left))
                        /\ UNCHANGED db
                     \/ Settle(h, f, call[h].sites) /\ UNCHANGED paid
<1> DEFINE d == call[h].doc
           batch == FirstBatch(call[h].left)
           left == call[h].left \ batch
           cand(r) == [c \in Candidates |-> IF c \in batch THEN r[c] ELSE d.cand[c]]
           e(r) == [d EXCEPT !.cand = [c \in Candidates |-> IF c \in batch THEN r[c] ELSE @[c]]]
           f(r) == IF \E c \in batch : r[c] = "ADDRESS_CONFIRMATION_REQUIRED"
                   THEN AddressQueued(e(r)) ELSE e(r)
<1>1. /\ WellFormed(d) /\ Genuine(d, approvals, answered) /\ d.plan.approved # 0
      /\ call[h].left \in SUBSET Candidates /\ call[h].sites \in SUBSET Candidates
  BY DEF IInv, CallsOK, CallOK, Call, BatchReturned
<1>2. UNCHANGED <<nextPlan, expired, bounds, answers, lookups>>
  BY DEF BatchReturned
<1>3. PICK r \in BatchResults(batch) :
          /\ TakesDecisionId(f(r))
          /\ \/ SendBatch(h, f(r), call[h].sites, left) /\ UNCHANGED db
             \/ Settle(h, f(r), call[h].sites) /\ UNCHANGED paid
  BY DEF BatchReturned
<1>4. cand(r) \in [Candidates -> CandidateStatus]
  <2>1. \A c \in batch : r[c] \in CandidateStatus
    BY DEF BatchResults
  <2>2. \A c \in Candidates : d.cand[c] \in CandidateStatus
    BY <1>1 DEF WellFormed, Document
  <2> HIDE DEF d, batch
  <2> QED
    BY <2>1, <2>2
<1>5. WellFormed(e(r)) /\ e(r).plan = d.plan
  <2> HIDE DEF cand, d
  <2>1. e(r) = [d EXCEPT !.cand = cand(r)]
    BY DEF cand
  <2> QED
    BY <1>1, <1>4, <2>1, CandWellFormed
<1>6. /\ nextDecision' \in 1..MaxDecisions + 1 /\ f(r).active.id <= MaxDecisions
  <2> HIDE DEF f
  <2> QED
    BY <1>3, DecisionIdTaken DEF IInv, DecisionsOK
<1>7. WellFormed(f(r)) /\ f(r).plan = d.plan
  <2> HIDE DEF e, batch
  <2> QED
    BY <1>5, <1>6, AddressQueuedWellFormed DEF IInv, DecisionsOK
<1>8. /\ e(r) \in Document /\ SameButCandidates(e(r), d)
      /\ f(r) = e(r) \/ f(r) = AddressQueued(e(r))
  <2>1. SameButCandidates(e(r), d)
    BY <1>1 DEF WellFormed, Document, SameButCandidates
  <2> HIDE DEF e, d, batch
  <2> QED
    BY <1>5, <2>1 DEF WellFormed
<1> HIDE DEF f, e
<1> QED
  BY <1>3, <1>6, <1>7, <1>8

LEMMA BatchReturnedStep ==
    ASSUME IInv, NEW h \in Calls, BatchReturned(h)
    PROVE  IInv'
<1> DEFINE d == call[h].doc
           left == call[h].left \ FirstBatch(call[h].left)
<1>1. /\ WellFormed(d) /\ Genuine(d, approvals, answered) /\ d.plan.approved # 0
      /\ call[h].left \in SUBSET Candidates /\ call[h].sites \in SUBSET Candidates
  BY DEF IInv, CallsOK, CallOK, Call, BatchReturned
<1>2. UNCHANGED <<nextPlan, expired, bounds, answers, lookups>>
  BY DEF BatchReturned
<1>3. PICK f : /\ WellFormed(f) /\ f.plan = d.plan
               /\ nextDecision' \in 1..MaxDecisions + 1
               /\ \/ SendBatch(h, f, call[h].sites, left) /\ UNCHANGED db
                  \/ Settle(h, f, call[h].sites) /\ UNCHANGED paid
  BY BatchKeepsPlan
<1> HIDE DEF d
<1>8. Genuine(f, approvals, answered) /\ f.plan.approved # 0
  BY <1>1, <1>3 DEF Genuine
<1>9. DecisionsOK' /\ CountersOK'
  BY <1>2, <1>3 DEF IInv, DecisionsOK, CountersOK, answers, bounds
<1>10. CASE SendBatch(h, f, call[h].sites, left) /\ UNCHANGED db
  <2>1. left \in SUBSET Candidates
    BY <1>1
  <2> HIDE DEF left
  <2>2. CallsOK' /\ PaymentsOK'
    BY <1>1, <1>2, <1>3, <1>8, <1>10, <2>1, SendBatchOK DEF answers
  <2>3. DocumentOK'
    BY <1>2, <1>10 DEF IInv, DocumentOK, answers
  <2> QED
    BY <1>9, <2>2, <2>3 DEF IInv
<1>11. CASE Settle(h, f, call[h].sites) /\ UNCHANGED paid
  <2>1. DocumentOK' /\ CallsOK'
    BY <1>2, <1>3, <1>8, <1>11, SettleOK DEF answers
  <2> QED
    BY <1>2, <1>9, <1>11, <2>1 DEF IInv, PaymentsOK, FetchOnlyApproved, answers
<1> QED
  BY <1>3, <1>10, <1>11

-------------------------------------------------------------------------------
(* Each action preserves the invariant: the handlers that await nothing *)

LEMMA AnswerCancelStep ==
    ASSUME IInv, AnswerCancel
    PROVE  IInv'
<1>1. db \in Document /\ WellFormed(db) /\ Genuine(db, approvals, answered)
  BY DEF IInv, DocumentOK, WellFormed
<1>2. db.active.id \in DecisionIds
  BY <1>1, EnrichmentAssumption DEF AnswerCancel, Document, Decision, DecisionIds
<1>3. WellFormed(Answered(db)) /\ Answered(db).plan = db.plan
  BY <1>1, AnsweredWellFormed DEF AnswerCancel
<1>4. /\ UNCHANGED <<call, nextPlan, nextDecision, expired, crashes, approvals, paid, lookups>>
      /\ Enters /\ db' = Answered(db) /\ answered' = answered \cup {db.active.id}
  BY DEF AnswerCancel
<1>5. DocumentOK'
  BY <1>1, <1>3, <1>4 DEF DocumentOK, Genuine
<1>6. CallsOK'
  BY <1>4, SameCallsOK DEF IInv
<1>7. DecisionsOK'
  <2>1. cancelled' \subseteq PlanIds
    BY <1>1 DEF IInv, DecisionsOK, AnswerCancel, WellFormed
  <2> QED
    BY <1>2, <1>4, <2>1 DEF IInv, DecisionsOK
<1>8. CountersOK'
  BY <1>4, EntersOK DEF IInv, CountersOK
<1> QED
  BY <1>4, <1>5, <1>6, <1>7, <1>8 DEF IInv, PaymentsOK, FetchOnlyApproved

LEMMA AnswerActionStep ==
    ASSUME IInv, AnswerAction
    PROVE  IInv'
<1>1. db \in Document /\ WellFormed(db) /\ Genuine(db, approvals, answered) /\ db.active.id # 0
  BY DEF IInv, DocumentOK, WellFormed, AnswerAction
<1>2. db.active.id \in DecisionIds
  BY <1>1, EnrichmentAssumption DEF Document, Decision, DecisionIds
<1>3. WellFormed(Answered(db)) /\ Answered(db).plan = db.plan
  BY <1>1, AnsweredWellFormed
<1>4. /\ UNCHANGED <<call, nextPlan, nextDecision, expired, crashes, approvals, cancelled, paid, lookups>>
      /\ Enters /\ db' = Answered(db) /\ answered' = answered \cup {db.active.id}
  BY DEF AnswerAction
<1>5. DocumentOK'
  BY <1>1, <1>3, <1>4 DEF DocumentOK, Genuine
<1>6. CallsOK' /\ CountersOK'
  BY <1>4, SameCallsOK, EntersOK DEF IInv, CountersOK
<1>7. DecisionsOK'
  BY <1>2, <1>4 DEF IInv, DecisionsOK
<1> QED
  BY <1>4, <1>5, <1>6, <1>7 DEF IInv, PaymentsOK, FetchOnlyApproved

LEMMA AnswerAddressStep ==
    ASSUME IInv, NEW verdict \in {"ENRICHED", "ADDRESS_MISMATCH_REJECTED"}, AnswerAddress(verdict)
    PROVE  IInv'
<1> DEFINE c == db.active.ref
           d == Answered(db)
           e == [d EXCEPT !.cand[c] = verdict]
           f == AddressQueued(e)
<1>1. db \in Document /\ WellFormed(db) /\ Genuine(db, approvals, answered) /\ db.active.id # 0
  BY DEF IInv, DocumentOK, WellFormed, AnswerAddress
<1>2. db.active.id \in DecisionIds
  BY <1>1, EnrichmentAssumption DEF Document, Decision, DecisionIds
<1>3. WellFormed(d) /\ d.plan = db.plan
  BY <1>1, AnsweredWellFormed
<1>4. WellFormed(e) /\ e.plan = d.plan
  <2>1. verdict \in CandidateStatus
    BY DEF CandidateStatus
  <2> HIDE DEF d, c
  <2> QED
    BY <1>3, <2>1, OneCandWellFormed
<1>5. /\ UNCHANGED <<call, nextPlan, expired, crashes, approvals, cancelled, paid, lookups>>
      /\ Enters /\ answered' = answered \cup {db.active.id}
      /\ \/ TakesDecisionId(f) /\ db' = f
         \/ db' = d /\ UNCHANGED nextDecision
  BY DEF AnswerAddress
<1>6. /\ nextDecision' \in 1..MaxDecisions + 1
      /\ WellFormed(db') /\ db'.plan = db.plan
  <2> HIDE DEF d, e
  <2>1. CASE TakesDecisionId(f) /\ db' = f
    <3>1. nextDecision' \in 1..MaxDecisions + 1 /\ f.active.id <= MaxDecisions
      <4> HIDE DEF f
      <4> QED
        BY <2>1, DecisionIdTaken DEF IInv, DecisionsOK
    <3>2. WellFormed(f) /\ f.plan = e.plan
      BY <1>4, <3>1, AddressQueuedWellFormed DEF IInv, DecisionsOK
    <3> QED
      BY <1>3, <1>4, <2>1, <3>1, <3>2
  <2>2. CASE db' = d /\ UNCHANGED nextDecision
    BY <1>3, <2>2 DEF IInv, DecisionsOK
  <2> QED
    BY <1>5, <2>1, <2>2
<1>7. DocumentOK'
  BY <1>1, <1>5, <1>6 DEF DocumentOK, Genuine
<1>8. CallsOK' /\ CountersOK'
  BY <1>5, SameCallsOK, EntersOK DEF IInv, CountersOK
<1>9. DecisionsOK'
  BY <1>2, <1>5, <1>6 DEF IInv, DecisionsOK
<1> QED
  BY <1>5, <1>7, <1>8, <1>9 DEF IInv, PaymentsOK, FetchOnlyApproved

LEMMA AgentDecisionStep ==
    ASSUME IInv, AgentDecision
    PROVE  IInv'
<1> DEFINE d == Interrupted(db, "project_action", 0)
<1>1. WellFormed(db) /\ Genuine(db, approvals, answered)
  BY DEF IInv, DocumentOK
<1>2. /\ UNCHANGED <<call, nextPlan, expired, crashes, history>>
      /\ Enters /\ TakesDecisionId(d) /\ db' = d
  BY DEF AgentDecision
<1>3. nextDecision' \in 1..MaxDecisions + 1 /\ d.active.id <= MaxDecisions
  <2> HIDE DEF d
  <2> QED
    BY <1>2, DecisionIdTaken DEF IInv, DecisionsOK
<1>4. WellFormed(d) /\ d.plan = db.plan
  BY <1>1, <1>3, InterruptedWellFormed DEF IInv, DecisionsOK
<1> HIDE DEF d
<1>5. DocumentOK'
  BY <1>1, <1>2, <1>4 DEF DocumentOK, Genuine, history, answers
<1>6. CallsOK' /\ CountersOK'
  BY <1>2, SameCallsOK, EntersOK DEF IInv, CountersOK, history, answers
<1> QED
  BY <1>2, <1>3, <1>5, <1>6 DEF IInv, DecisionsOK, PaymentsOK, FetchOnlyApproved, history, answers

LEMMA LinkExistingSnapshotStep ==
    ASSUME IInv, NEW c \in Candidates, NEW result \in CandidateStatus,
           LinkExistingSnapshot(c, result)
    PROVE  IInv'
<1> DEFINE d == [db EXCEPT !.cand[c] = result]
           e == IF result = "ENRICHED" THEN d ELSE AddressQueued(d)
<1>1. WellFormed(db) /\ Genuine(db, approvals, answered)
  BY DEF IInv, DocumentOK
<1>2. WellFormed(d) /\ d.plan = db.plan
  BY <1>1, OneCandWellFormed
<1>3. /\ UNCHANGED <<call, nextPlan, expired, crashes, history>>
      /\ Enters /\ TakesDecisionId(e) /\ db' = e
  BY DEF LinkExistingSnapshot
<1>4. nextDecision' \in 1..MaxDecisions + 1 /\ e.active.id <= MaxDecisions
  <2> HIDE DEF e
  <2> QED
    BY <1>3, DecisionIdTaken DEF IInv, DecisionsOK
<1>5. WellFormed(e) /\ e.plan = db.plan
  <2> HIDE DEF d
  <2> QED
    BY <1>2, <1>4, AddressQueuedWellFormed DEF IInv, DecisionsOK
<1> HIDE DEF e
<1>6. DocumentOK'
  BY <1>1, <1>3, <1>5 DEF DocumentOK, Genuine, history, answers
<1>7. CallsOK' /\ CountersOK'
  BY <1>3, SameCallsOK, EntersOK DEF IInv, CountersOK, history, answers
<1> QED
  BY <1>3, <1>4, <1>6, <1>7 DEF IInv, DecisionsOK, PaymentsOK, FetchOnlyApproved, history, answers

LEMMA HoldCopyStep ==
    ASSUME IInv, NEW h \in Calls, HoldCopy(h)
    PROVE  IInv'
<1>1. /\ UNCHANGED <<db, nextPlan, nextDecision, expired, crashes, history>> /\ Enters
      /\ Await(h, "hold", db, 0, FALSE, {}, {})
  BY DEF HoldCopy, Starts
<1>2. CallsOK'
  <2>1. CallsOK /\ approvals \subseteq approvals' /\ answered \subseteq answered'
    BY <1>1 DEF IInv, history, answers
  <2>2. "hold" \in ControlPoint /\ "hold" \notin {"select", "batch"}
    BY DEF ControlPoint
  <2>3. WellFormed(db) /\ Genuine(db, approvals', answered')
    BY <1>1 DEF IInv, DocumentOK, history, answers
  <2> QED
    BY <1>1, <2>1, <2>2, <2>3, AwaitOK, EmptyArguments
<1>3. CountersOK'
  BY <1>1, EntersOK DEF IInv, CountersOK, history
<1> QED
  BY <1>1, <1>2, <1>3 DEF IInv, DocumentOK, DecisionsOK, PaymentsOK, FetchOnlyApproved,
                          history, answers

(* A stale copy is sound, so writing it back is. *)
LEMMA WriteCopyBackStep ==
    ASSUME IInv, NEW h \in Calls, WriteCopyBack(h)
    PROVE  IInv'
<1>1. WellFormed(call[h].doc) /\ Genuine(call[h].doc, approvals, answered)
  BY DEF IInv, CallsOK, CallOK
<1>2. DocumentOK'
  BY <1>1 DEF WriteCopyBack, DocumentOK, history, answers
<1>3. CallsOK'
  BY ReturnOK DEF IInv, WriteCopyBack, history, answers
<1> QED
  BY <1>2, <1>3 DEF IInv, WriteCopyBack, DecisionsOK, CountersOK, PaymentsOK, FetchOnlyApproved,
                    history, answers, bounds

LEMMA QuoteExpiresStep ==
    ASSUME IInv, NEW p \in PlanIds, QuoteExpires(p)
    PROVE  IInv'
<1>1. CallsOK'
  BY SameCallsOK DEF IInv, QuoteExpires, history, answers
<1> QED
  BY <1>1 DEF IInv, QuoteExpires, DocumentOK, DecisionsOK, CountersOK, PaymentsOK,
              FetchOnlyApproved, history, answers, bounds

-------------------------------------------------------------------------------
(* Theorems *)

LEMMA InitIInv == Init => IInv
<1> SUFFICES ASSUME Init PROVE IInv
  OBVIOUS
<1>1. PICK U : db = NewProject(U)
  BY DEF Init
<1>2. WellFormed(db) /\ db.plan.approved = 0
  BY <1>1, NewProjectWellFormed DEF NoPlan
<1>3. DocumentOK
  BY <1>2 DEF DocumentOK, Genuine
<1>4. CallsOK
  BY IdleOK, IdleIsCall DEF Init, CallsOK
<1>5. DecisionsOK /\ CountersOK
  BY EnrichmentAssumption DEF Init, DecisionsOK, CountersOK, LookupCap, RetryLimit
<1>6. PaymentsOK
  BY DEF Init, PaymentsOK, FetchOnlyApproved, PaidCap
<1> QED
  BY <1>3, <1>4, <1>5, <1>6 DEF IInv

LEMMA NextIInv == IInv /\ [Next]_vars => IInv'
<1> SUFFICES ASSUME IInv, [Next]_vars PROVE IInv'
  OBVIOUS
<1>1. CASE UNCHANGED vars
  <2>1. UNCHANGED <<db, call, nextPlan, nextDecision, expired, crashes, overlaps,
                    approvals, answered, cancelled, paid, lookups>>
    BY <1>1 DEF vars, history, answers, bounds
  <2> QED
    BY <2>1 DEF IInv, DocumentOK, CallsOK, DecisionsOK, CountersOK, PaymentsOK, FetchOnlyApproved
<1>2. ASSUME NEW h \in Calls, Request(h) PROVE IInv'
  BY <1>2, ResolveAndQuoteStep, SelectResolutionStep, ResolveCandidateStep, AnswerContinueStep,
     ConfirmRequestStep, HoldCopyStep DEF Request
<1>3. ASSUME NEW h \in Calls, Step(h) PROVE IInv'
  BY <1>3, EvidencePlannedStep, QuotedStep, LookupReturnedStep, CandidateResolvedStep,
     FieldsSelectedStep, BatchReturnedStep, WriteCopyBackStep, AwaitFailsStep DEF Step
<1>4. CASE AnswerCancel \/ AnswerAction \/ AgentDecision
  BY <1>4, AnswerCancelStep, AnswerActionStep, AgentDecisionStep
<1>5. CASE \E verdict \in {"ENRICHED", "ADDRESS_MISMATCH_REJECTED"} : AnswerAddress(verdict)
  BY <1>5, AnswerAddressStep
<1>6. CASE \E c \in Candidates, result \in CandidateStatus : LinkExistingSnapshot(c, result)
  BY <1>6, LinkExistingSnapshotStep
<1>7. CASE \E p \in PlanIds : QuoteExpires(p)
  BY <1>7, QuoteExpiresStep
<1>8. CASE Crash \/ ApprovedThenCrash
  BY <1>8, CrashStep, ApprovedThenCrashStep
<1> QED
  BY <1>1, <1>2, <1>3, <1>4, <1>5, <1>6, <1>7, <1>8 DEF Next

(* The invariant holds of every reachable state. *)
THEOREM Invariance == Spec => []IInv
BY InitIInv, NextIInv, PTL DEF Spec

(* Every copy of the document, stored or held, keeps its type, and the     *)
(* attempts of a paid operation never pass the retry limit.                *)
THEOREM TypeCorrect == Spec => []TypeOK
<1>1. IInv => TypeOK
  BY DEF IInv, DocumentOK, CallsOK, DecisionsOK, CountersOK, PaymentsOK, WellFormed, TypeOK
<1> QED
  BY <1>1, Invariance, PTL

(* Nothing is paid for under a plan no user approved, whatever copies of   *)
(* the document overwrite each other and wherever the process dies.        *)
THEOREM Gated == Spec => []FetchOnlyApproved
<1>1. IInv => FetchOnlyApproved
  BY DEF IInv, PaymentsOK
<1> QED
  BY <1>1, Invariance, PTL

(* The approval a copy of the document carries was given by a user.        *)
THEOREM GenuineApprovals == Spec => []ApprovalIsGenuine
<1>1. IInv => ApprovalIsGenuine
  BY DEF IInv, DocumentOK, CallsOK, CallOK, Genuine, ApprovalIsGenuine, Documents
<1> QED
  BY <1>1, Invariance, PTL

(* The plan and its operation tell the same story in the stored document,  *)
(* because they do in every copy of one (diligence.py, confirm_and_fetch).  *)
THEOREM PlanAgrees == Spec => []PlanAgreesWithOperation
<1>1. IInv => PlanAgreesWithOperation
  BY DEF IInv, DocumentOK, WellFormed, PlanFits, PlanAgreesWithOperation
<1> QED
  BY <1>1, Invariance, PTL

-------------------------------------------------------------------------------
(* Refinement *)

(* A step that pays, pays under an approved plan for sites of the project. *)
LEMMA SendBatchIsPay ==
    ASSUME NEW d, Genuine(d, approvals, answered), d.plan.approved # 0, approvals \subseteq PlanIds,
           NEW left \in SUBSET Candidates, Pays(d.plan.id, FirstBatch(left)),
           UNCHANGED approvals
    PROVE  Gate!Next
<1> DEFINE p == d.plan.id
           batch == FirstBatch(left)
<1>1. p \in approvals /\ p \in PlanIds
  BY DEF Genuine
<1>2. batch \in SUBSET Candidates
  BY DEF FirstBatch
<1>3. Gate!Pay(p, batch)
  BY <1>1 DEF Gate!Pay, Gate!Bump, Pays, BumpTo
<1> QED
  BY <1>1, <1>2, <1>3 DEF Gate!Next

LEMMA StepRefines ==
    ASSUME IInv, [Next]_vars
    PROVE  [Gate!Next]_<<approvals, paid>>
<1>1. CASE UNCHANGED vars
  BY <1>1 DEF vars, history, answers
<1>2. CASE \E h \in Calls : AnswerContinue(h)
  <2>1. approvals' = approvals \cup {db.plan.id} /\ UNCHANGED paid /\ db.plan.id \in PlanIds
    BY <1>2 DEF AnswerContinue, IInv, DocumentOK, WellFormed
  <2> QED
    BY <2>1 DEF Gate!Next, Gate!Approve
<1>3. CASE ApprovedThenCrash
  <2>1. approvals' = approvals \cup {db.plan.id} /\ UNCHANGED paid /\ db.plan.id \in PlanIds
    BY <1>3 DEF ApprovedThenCrash, IInv, DocumentOK, WellFormed
  <2> QED
    BY <2>1 DEF Gate!Next, Gate!Approve
<1>4. ASSUME NEW h \in Calls, FieldsSelected(h) PROVE [Gate!Next]_<<approvals, paid>>
  <2> DEFINE d == call[h].doc
  <2>1. Genuine(d, approvals, answered) /\ d.plan.approved # 0 /\ approvals \subseteq PlanIds
    BY <1>4 DEF IInv, CallsOK, CallOK, DecisionsOK, FieldsSelected
  <2>2. UNCHANGED approvals /\ (UNCHANGED paid \/ Pays(d.plan.id, FirstBatch(Resolved(d))))
    BY <1>4 DEF FieldsSelected, SendBatch, answers
  <2>3. Resolved(d) \in SUBSET Candidates
    BY DEF Resolved, InStatus
  <2> HIDE DEF d
  <2> QED
    BY <2>1, <2>2, <2>3, SendBatchIsPay
<1>5. ASSUME NEW h \in Calls, BatchReturned(h) PROVE [Gate!Next]_<<approvals, paid>>
  <2> DEFINE d == call[h].doc
             left == call[h].left \ FirstBatch(call[h].left)
  <2>1. /\ Genuine(d, approvals, answered) /\ d.plan.approved # 0 /\ approvals \subseteq PlanIds
        /\ left \in SUBSET Candidates
    BY <1>5 DEF IInv, CallsOK, CallOK, Call, DecisionsOK, BatchReturned
  <2>2. UNCHANGED paid \/ Pays(d.plan.id, FirstBatch(left))
    <3>1. PICK e : /\ e.plan = d.plan
                   /\ \/ SendBatch(h, e, call[h].sites, left)
                      \/ UNCHANGED paid
      BY <1>5, BatchKeepsPlan
    <3> QED
      BY <3>1 DEF SendBatch
  <2>3. UNCHANGED approvals
    BY <1>5 DEF BatchReturned, answers
  <2> HIDE DEF d, left
  <2> QED
    BY <2>1, <2>2, <2>3, SendBatchIsPay
<1>6. ASSUME NEW h \in Calls, Request(h), ~AnswerContinue(h) PROVE UNCHANGED <<approvals, paid>>
  BY <1>6 DEF Request, ResolveAndQuote, SelectResolution, ResolveCandidate, ConfirmRequest,
              HoldCopy, history, answers
<1>7. ASSUME NEW h \in Calls, Step(h), ~FieldsSelected(h), ~BatchReturned(h)
      PROVE  UNCHANGED <<approvals, paid>>
  BY <1>7 DEF Step, EvidencePlanned, Quoted, LookupReturned, CandidateResolved, WriteCopyBack,
              AwaitFails, history, answers
<1>8. ASSUME \/ AnswerCancel \/ AnswerAction \/ AgentDecision \/ Crash
             \/ \E verdict \in {"ENRICHED", "ADDRESS_MISMATCH_REJECTED"} : AnswerAddress(verdict)
             \/ \E c \in Candidates, result \in CandidateStatus : LinkExistingSnapshot(c, result)
             \/ \E p \in PlanIds : QuoteExpires(p)
      PROVE  UNCHANGED <<approvals, paid>>
  BY <1>8 DEF AnswerCancel, AnswerAction, AgentDecision, Crash, AnswerAddress,
              LinkExistingSnapshot, QuoteExpires, history, answers
<1> QED
  BY <1>1, <1>2, <1>3, <1>4, <1>5, <1>6, <1>7, <1>8 DEF Next

(* The service keeps the promise of MeteredSpend: approvals and payments   *)
(* change only by a user's approval or by a payment under an approved plan. *)
THEOREM Refinement == Spec => GatedSpending
<1>1. Init => Gate!Init
  BY DEF Init, Gate!Init
<1>2. IInv /\ [Next]_vars => [Gate!Next]_Gate!spendVars
  BY StepRefines DEF Gate!spendVars
<1> QED
  BY <1>1, <1>2, Invariance, PTL DEF Spec, GatedSpending, Gate!Spec

-------------------------------------------------------------------------------
(* One call at a time: what the user decided about money stands            *)

(* With MaxOverlaps = 0 a handler is only begun when no other is under way. *)
(* The copy it holds is then as good as the stored document, and what       *)
(* follows is an invariant of both: the plans nobody has decided about, the *)
(* decisions nobody has answered and the payments already made are the ones *)
(* the document tells of.                                                   *)

Closed == approvals \cup cancelled
Unspent(id, pd) == \A p \in PlanIds, c \in Candidates : p = id => pd[p][c] = 0

(* The history has every answer, and the pending decision is a new one.     *)
AnswersSafe(d, ans, nd) ==
    ans \subseteq d.history /\ d.active.id \notin ans /\ d.active.id < nd

(* The plan was made before, and a pending cost decision is about a plan    *)
(* that was neither approved nor cancelled.                                 *)
PlansSafe(d, closed, np) ==
    /\ d.active.kind = "confirm_enrichment" => d.active.ref < np /\ d.active.ref \notin closed
    /\ d.plan.id < np

(* Every paid lookup was counted as an attempt.                             *)
LookupsSafe(d, lk) == \A c \in Candidates : lk[c] <= d.lookup[c].attempts

(* A plan that could still be fetched has paid for nothing.                 *)
QuoteSafe(d, pd) ==
    d.plan.status = "QUOTED" /\ d.fetch[d.plan.request].status = "QUOTED" => Unspent(d.plan.id, pd)

Copy(d, ans, closed, nd, np, lk, pd) ==
    AnswersSafe(d, ans, nd) /\ PlansSafe(d, closed, np) /\ LookupsSafe(d, lk) /\ QuoteSafe(d, pd)

(* A fetch is marked in its copy and in the stored document, and has paid   *)
(* for none of the candidates it has yet to send.                           *)
Underway(k, stored, pd) ==
    /\ k.pc \in {"select", "batch"} => /\ k.doc.fetch[k.doc.plan.request].status = "EXECUTING"
                                       /\ stored.fetch[stored.plan.request].status = "EXECUTING"
    /\ k.pc = "select" => Unspent(k.doc.plan.id, pd)
    /\ k.pc = "batch" => \A p \in PlanIds, c \in k.left \ FirstBatch(k.left) :
                            p = k.doc.plan.id => pd[p][c] = 0

(* Decisions asked before the next one. *)
Asked(A, nd) == A \subseteq DecisionIds /\ \A i \in A : i < nd

Books ==
    /\ approvals \cap cancelled = {}
    /\ \A p \in Closed : p < nextPlan
    /\ Asked(answered, nextDecision)
    /\ \A p \in PlanIds, c \in Candidates : paid[p][c] <= 1

StoredSafe == Copy(db, answered, Closed, nextDecision, nextPlan, lookups, paid)
HeldSafe ==
    \A h \in Calls : call[h].pc # "idle" =>
        /\ \A g \in Calls \ {h} : call[g].pc = "idle"
        /\ Copy(call[h].doc, answered, Closed, nextDecision, nextPlan, lookups, paid)
        /\ Underway(call[h], db, paid)

SInv == Books /\ StoredSafe /\ HeldSafe

-------------------------------------------------------------------------------
(* A handler begins only when none is under way. *)
LEMMA EntersAlone ==
    ASSUME IInv, MaxOverlaps = 0, Enters
    PROVE  \A h \in Calls : call[h].pc = "idle"
BY DEF IInv, CountersOK, Enters, InFlight

(* All slots idle: only the stored document is left to speak of. *)
LEMMA AllIdle ==
    ASSUME \A g \in Calls : call'[g].pc = "idle", Books', StoredSafe'
    PROVE  SInv'
BY DEF SInv, HeldSafe

LEMMA SameCallsIdle ==
    ASSUME \A g \in Calls : call[g].pc = "idle", UNCHANGED call, Books', StoredSafe'
    PROVE  SInv'
BY AllIdle

LEMMA DiesIdle ==
    ASSUME Dies, Books', StoredSafe'
    PROVE  SInv'
<1>1. \A g \in Calls : call'[g].pc = "idle"
  BY DEF Dies, Idle
<1> QED
  BY <1>1, AllIdle

(* The slot of the only call under way is freed. *)
LEMMA ReturnIdle ==
    ASSUME CallsOK, NEW h \in Calls, NEW out, Return(h, out),
           \A g \in Calls \ {h} : call[g].pc = "idle", Books', StoredSafe'
    PROVE  SInv'
<1>1. \A g \in Calls : call'[g].pc = "idle"
  BY DEF CallsOK, Return, Idle
<1> QED
  BY <1>1, AllIdle

(* The record of a call that goes on. *)
InHand(pc, d, at, reason, sites, left) ==
    [pc |-> pc, doc |-> d, at |-> at, reason |-> reason, sites |-> sites, left |-> left, out |-> "ok"]

(* It goes on, with a copy that is safe. *)
LEMMA AwaitAlone ==
    ASSUME CallsOK, NEW h \in Calls, \A g \in Calls \ {h} : call[g].pc = "idle",
           NEW pc, NEW d, NEW at, NEW reason, NEW sites, NEW left,
           Await(h, pc, d, at, reason, sites, left),
           Copy(d, answered', Closed', nextDecision', nextPlan', lookups', paid'),
           Underway(InHand(pc, d, at, reason, sites, left), db', paid'), Books', StoredSafe'
    PROVE  SInv'
<1> DEFINE k == InHand(pc, d, at, reason, sites, left)
<1>1. call'[h] = k /\ \A g \in Calls \ {h} : call'[g].pc = "idle"
  BY DEF CallsOK, Await, InHand
<1>2. k.doc = d
  BY DEF InHand
<1> HIDE DEF k
<1>3. HeldSafe'
  BY <1>1, <1>2 DEF HeldSafe, k
<1> QED
  BY <1>3 DEF SInv

LEMMA AwaitQuiet ==
    ASSUME CallsOK, NEW h \in Calls, \A g \in Calls \ {h} : call[g].pc = "idle",
           NEW pc, pc \notin {"select", "batch"},
           NEW d, NEW at, NEW reason, NEW sites, NEW left,
           Await(h, pc, d, at, reason, sites, left),
           Copy(d, answered', Closed', nextDecision', nextPlan', lookups', paid'),
           Books', StoredSafe'
    PROVE  SInv'
<1>1. Underway(InHand(pc, d, at, reason, sites, left), db', paid')
  BY DEF Underway, InHand
<1> QED
  BY <1>1, AwaitAlone

(* A call that goes on is the only one under way, and its copy is safe. *)
LEMMA OnlyOne ==
    ASSUME SInv, NEW h \in Calls, call[h].pc # "idle"
    PROVE  /\ \A g \in Calls \ {h} : call[g].pc = "idle"
           /\ Copy(call[h].doc, answered, Closed, nextDecision, nextPlan, lookups, paid)
           /\ Underway(call[h], db, paid)
BY DEF SInv, HeldSafe

(* A copy that differs in its candidates only is as safe. *)
LEMMA SameCopy ==
    ASSUME NEW A, NEW C, NEW nd, NEW np, NEW lk, NEW pd, NEW d, NEW e, Copy(d, A, C, nd, np, lk, pd),
           e.history = d.history, e.active = d.active, e.plan = d.plan, e.lookup = d.lookup,
           e.fetch = d.fetch
    PROVE  Copy(e, A, C, nd, np, lk, pd)
BY DEF Copy, AnswersSafe, PlansSafe, LookupsSafe, QuoteSafe

LEMMA CandSafe ==
    ASSUME NEW A, NEW C, NEW nd, NEW np, NEW lk, NEW pd, NEW d \in Document, NEW f,
           Copy(d, A, C, nd, np, lk, pd)
    PROVE  Copy([d EXCEPT !.cand = f], A, C, nd, np, lk, pd)
<1> DEFINE e == [d EXCEPT !.cand = f]
<1>1. /\ e.history = d.history /\ e.active = d.active /\ e.plan = d.plan /\ e.lookup = d.lookup
      /\ e.fetch = d.fetch
  BY DEF Document
<1> HIDE DEF e
<1>2. Copy(e, A, C, nd, np, lk, pd)
  BY <1>1, SameCopy
<1> QED
  BY <1>2 DEF e

LEMMA OneCandSafe ==
    ASSUME NEW A, NEW C, NEW nd, NEW np, NEW lk, NEW pd, NEW d \in Document, NEW c, NEW s,
           Copy(d, A, C, nd, np, lk, pd)
    PROVE  Copy([d EXCEPT !.cand[c] = s], A, C, nd, np, lk, pd)
<1>1. [d EXCEPT !.cand[c] = s] = [d EXCEPT !.cand = [d.cand EXCEPT ![c] = s]]
  BY DEF Document
<1> QED
  BY <1>1, CandSafe

(* A fresh decision is asked about an undecided plan only. *)
LEMMA InterruptedSafe ==
    ASSUME NEW A, Asked(A, nextDecision), DecisionsOK,
           NEW C, NEW np, NEW lk, NEW pd, NEW d \in Document, Copy(d, A, C, nextDecision, np, lk, pd),
           NEW kind, NEW ref, kind = "confirm_enrichment" => ref < np /\ ref \notin C,
           TakesDecisionId(Interrupted(d, kind, ref))
    PROVE  /\ Copy(Interrupted(d, kind, ref), A, C, nextDecision', np, lk, pd)
           /\ Asked(A, nextDecision')
<1> DEFINE e == [d EXCEPT !.active = [id |-> nextDecision, kind |-> kind, ref |-> ref]]
<1>0. nextDecision \in Nat /\ A \subseteq Nat /\ d.active.id \in Nat
  BY EnrichmentAssumption DEF DecisionsOK, Document, Decision, DecisionIds, Asked
<1>1. CASE d.active.id # 0
  <2>1. Interrupted(d, kind, ref) = d
    BY <1>1 DEF Interrupted
  <2>2. nextDecision' = nextDecision
    BY <1>0, <2>1 DEF TakesDecisionId, Copy, AnswersSafe
  <2> QED
    BY <2>1, <2>2
<1>2. CASE d.active.id = 0
  <2>1. Interrupted(d, kind, ref) = e
    BY <1>2 DEF Interrupted
  <2>2. /\ e.active.id = nextDecision /\ e.active.kind = kind /\ e.active.ref = ref
        /\ e.plan = d.plan /\ e.lookup = d.lookup /\ e.fetch = d.fetch /\ e.history = d.history
    BY DEF Document
  <2> HIDE DEF e
  <2>3. nextDecision' = nextDecision + 1
    BY <2>1, <2>2 DEF TakesDecisionId
  <2>4. Asked(A, nextDecision') /\ nextDecision \notin A
    BY <1>0, <2>3 DEF Asked
  <2>5. AnswersSafe(e, A, nextDecision')
    BY <1>0, <2>2, <2>3, <2>4 DEF Copy, AnswersSafe
  <2>6. PlansSafe(e, C, np)
    BY <2>2 DEF Copy, PlansSafe
  <2>7. LookupsSafe(e, lk) /\ QuoteSafe(e, pd)
    BY <2>2 DEF Copy, LookupsSafe, QuoteSafe
  <2> QED
    BY <2>1, <2>4, <2>5, <2>6, <2>7 DEF Copy
<1> QED
  BY <1>1, <1>2

LEMMA AddressQueuedSafe ==
    ASSUME NEW A, Asked(A, nextDecision), DecisionsOK,
           NEW C, NEW np, NEW lk, NEW pd, NEW d \in Document, Copy(d, A, C, nextDecision, np, lk, pd),
           TakesDecisionId(AddressQueued(d))
    PROVE  /\ Copy(AddressQueued(d), A, C, nextDecision', np, lk, pd)
           /\ Asked(A, nextDecision')
<1> DEFINE open == InStatus(d, "ADDRESS_CONFIRMATION_REQUIRED")
<1>1. CASE open = {}
  <2>1. AddressQueued(d) = d
    BY <1>1 DEF AddressQueued
  <2>2. nextDecision \in Nat /\ d.active.id \in Nat
    BY EnrichmentAssumption DEF DecisionsOK, Document, Decision
  <2>3. nextDecision' = nextDecision
    BY <2>1, <2>2 DEF TakesDecisionId, Copy, AnswersSafe
  <2> QED
    BY <2>1, <2>3
<1>2. CASE open # {}
  <2>1. AddressQueued(d) = Interrupted(d, "confirm_address", Min(open))
    BY <1>2 DEF AddressQueued
  <2> QED
    BY <2>1, InterruptedSafe
<1> QED
  BY <1>1, <1>2

(* An answered decision is in the history and no longer pending. *)
LEMMA AnsweredSafe ==
    ASSUME NEW A, NEW nd \in Nat \ {0}, Asked(A, nd), NEW C, NEW D, NEW np, NEW lk, NEW pd,
           NEW d \in Document, d.active.id # 0, Copy(d, A, C, nd, np, lk, pd)
    PROVE  /\ Copy(Answered(d), A \cup {d.active.id}, D, nd, np, lk, pd)
           /\ Asked(A \cup {d.active.id}, nd)
<1> DEFINE e == Answered(d)
<1>1. /\ e.active = NoDecision /\ e.history = d.history \cup {d.active.id}
      /\ e.plan = d.plan /\ e.lookup = d.lookup /\ e.fetch = d.fetch
  BY DEF Answered, Document
<1>2. 0 \notin A /\ d.active.id \in DecisionIds /\ d.active.id < nd
  BY EnrichmentAssumption DEF Asked, DecisionIds, Document, Decision, Copy, AnswersSafe
<1> HIDE DEF e
<1>3. AnswersSafe(e, A \cup {d.active.id}, nd)
  BY <1>1, <1>2 DEF Copy, AnswersSafe, NoDecision
<1>4. PlansSafe(e, D, np)
  BY <1>1 DEF Copy, PlansSafe, NoDecision
<1>5. LookupsSafe(e, lk) /\ QuoteSafe(e, pd)
  BY <1>1 DEF Copy, LookupsSafe, QuoteSafe
<1>6. Asked(A \cup {d.active.id}, nd)
  BY <1>2 DEF Asked
<1> QED
  BY <1>3, <1>4, <1>5, <1>6 DEF Copy, e

(* Answers of the provider change no attempts. *)
LEMMA LookedUpSafe ==
    ASSUME NEW A, NEW C, NEW nd, NEW np, NEW lk, NEW pd, NEW d \in Document, NEW c, NEW outcome,
           Copy(d, A, C, nd, np, lk, pd)
    PROVE  Copy(LookedUp(d, c, outcome), A, C, nd, np, lk, pd)
<1> DEFINE op == IF outcome = "ERROR" THEN [d.lookup[c] EXCEPT !.status = "FAILED"]
                 ELSE [d.lookup[c] EXCEPT !.status = "SUCCEEDED", !.result = outcome]
           e == LookedUp(d, c, outcome)
<1>1. /\ e.lookup = [d.lookup EXCEPT ![c] = op] /\ e.history = d.history /\ e.active = d.active
      /\ e.plan = d.plan /\ e.fetch = d.fetch
  BY DEF LookedUp, Document
<1>2. c \in Candidates => op.attempts = d.lookup[c].attempts
  BY DEF Document, Lookup
<1> HIDE DEF e, op
<1>3. \A b \in Candidates : e.lookup[b].attempts = d.lookup[b].attempts
  BY <1>1, <1>2 DEF Document
<1>4. LookupsSafe(e, lk)
  BY <1>3 DEF Copy, LookupsSafe
<1> QED
  BY <1>1, <1>4 DEF Copy, AnswersSafe, PlansSafe, QuoteSafe, e

LEMMA FailedLookupSafe ==
    ASSUME NEW A, NEW C, NEW nd, NEW np, NEW lk, NEW pd, NEW d \in Document, NEW c,
           Copy(d, A, C, nd, np, lk, pd)
    PROVE  Copy([d EXCEPT !.lookup[c].status = "FAILED"], A, C, nd, np, lk, pd)
<1> DEFINE op == [d.lookup[c] EXCEPT !.status = "FAILED"]
           e == [d EXCEPT !.lookup[c].status = "FAILED"]
<1>1. /\ e.lookup = [d.lookup EXCEPT ![c] = op] /\ e.history = d.history /\ e.active = d.active
      /\ e.plan = d.plan /\ e.fetch = d.fetch
  BY DEF Document
<1>2. c \in Candidates => op.attempts = d.lookup[c].attempts
  BY DEF Document, Lookup
<1> HIDE DEF e, op
<1>3. \A b \in Candidates : e.lookup[b].attempts = d.lookup[b].attempts
  BY <1>1, <1>2 DEF Document
<1>4. LookupsSafe(e, lk)
  BY <1>3 DEF Copy, LookupsSafe
<1> QED
  BY <1>1, <1>4 DEF Copy, AnswersSafe, PlansSafe, QuoteSafe, e

(* A lookup is counted as an attempt before it is paid. *)
LEMMA BegunSafe ==
    ASSUME NEW A, NEW C, NEW nd, NEW np, NEW lk \in [Candidates -> 0..LookupCap], NEW pd,
           NEW d \in Document, NEW c \in Candidates, Copy(d, A, C, nd, np, lk, pd)
    PROVE  Copy([d EXCEPT !.lookup[c] = Begun(@, "EXECUTING")], A, C, nd, np,
                [lk EXCEPT ![c] = BumpTo(LookupCap, @)], pd)
<1> DEFINE op == Begun(d.lookup[c], "EXECUTING")
           e == [d EXCEPT !.lookup[c] = op]
           counted == [lk EXCEPT ![c] = BumpTo(LookupCap, @)]
<1>1. /\ e.lookup = [d.lookup EXCEPT ![c] = op] /\ e.history = d.history /\ e.active = d.active
      /\ e.plan = d.plan /\ e.fetch = d.fetch
  BY DEF Document
<1>2. op.attempts = d.lookup[c].attempts + 1 /\ d.lookup[c].attempts \in Nat
  BY DEF Document, Lookup, Begun
<1>3. counted[c] <= lk[c] + 1 /\ lk[c] \in Nat /\ \A b \in Candidates : b # c => counted[b] = lk[b]
  BY DEF BumpTo
<1>4. counted[c] \in Nat
  <2>1. counted[c] = lk[c] \/ counted[c] = lk[c] + 1
    BY DEF BumpTo
  <2> QED
    BY <2>1, <1>3
<1> HIDE DEF e, op, counted
<1>5. LookupsSafe(e, counted)
  <2> SUFFICES ASSUME NEW b \in Candidates PROVE counted[b] <= e.lookup[b].attempts
    BY DEF LookupsSafe
  <2>1. lk[b] <= d.lookup[b].attempts
    BY DEF Copy, LookupsSafe
  <2>2. CASE b = c
    <3>1. e.lookup[b].attempts = d.lookup[b].attempts + 1
      BY <1>1, <1>2, <2>2 DEF Document
    <3>2. counted[b] <= lk[b] + 1 /\ counted[b] \in Nat /\ lk[b] \in Nat /\ d.lookup[b].attempts \in Nat
      BY <1>2, <1>3, <1>4, <2>2
    <3> QED
      BY <2>1, <3>1, <3>2
  <2>3. CASE b # c
    <3>1. e.lookup[b] = d.lookup[b]
      BY <1>1, <2>3 DEF Document
    <3> QED
      BY <2>1, <2>3, <1>3, <3>1
  <2> QED
    BY <2>2, <2>3
<1>6. Copy(e, A, C, nd, np, counted, pd)
  BY <1>1, <1>5 DEF Copy, AnswersSafe, PlansSafe, QuoteSafe
<1> QED
  BY <1>6 DEF e, op, counted

-------------------------------------------------------------------------------
(* Each action keeps the decisions: looking up and quoting *)

(* What the types and the new invariant say of the call that goes on. *)
LEMMA CallInHand ==
    ASSUME IInv, SInv, NEW h \in Calls, call[h].pc # "idle"
    PROVE  /\ CallsOK /\ call[h].doc \in Document /\ WellFormed(call[h].doc) /\ call[h].reason \in BOOLEAN
           /\ call[h].at \in Nat /\ call[h].left \in SUBSET Candidates
           /\ \A g \in Calls \ {h} : call[g].pc = "idle"
           /\ Copy(call[h].doc, answered, Closed, nextDecision, nextPlan, lookups, paid)
           /\ Underway(call[h], db, paid)
<1>1. /\ CallsOK /\ call[h].doc \in Document /\ WellFormed(call[h].doc) /\ call[h].reason \in BOOLEAN
      /\ call[h].at \in Nat /\ call[h].left \in SUBSET Candidates
  BY EnrichmentAssumption DEF IInv, CallsOK, CallOK, Call, WellFormed
<1> QED
  BY <1>1, OnlyOne

LEMMA StoredInHand ==
    ASSUME IInv, SInv
    PROVE  /\ CallsOK /\ DecisionsOK /\ Books /\ db \in Document /\ WellFormed(db)
           /\ Copy(db, answered, Closed, nextDecision, nextPlan, lookups, paid)
           /\ Asked(answered, nextDecision)
BY DEF IInv, SInv, DocumentOK, DecisionsOK, WellFormed, StoredSafe, Books

LEMMA ProceedSafe ==
    ASSUME IInv, SInv, NEW h \in Calls, \A g \in Calls \ {h} : call[g].pc = "idle",
           UNCHANGED <<nextPlan, nextDecision, answers, paid>>,
           NEW d \in Document, Copy(d, answered, Closed, nextDecision, nextPlan, lookups, paid),
           NEW i \in Nat, NEW reason, Proceed(h, d, i, reason)
    PROVE  SInv'
<1> DEFINE rest == {c \in Candidates : c >= i /\ ~PassedBy(d, c, reason)}
           stop == IF rest = {} THEN NumCandidates + 1 ELSE Min(rest)
           cand == [c \in Candidates |-> IF i <= c /\ c < stop THEN AfterPassing(d, c)
                                                             ELSE d.cand[c]]
           e == [d EXCEPT !.cand = cand]
           begun == [e EXCEPT !.lookup[stop] = Begun(@, "EXECUTING")]
<1>1. UNCHANGED <<answered, Closed, nextDecision, nextPlan, paid, approvals, cancelled>>
  BY DEF answers, Closed
<1>2. Books' /\ CallsOK
  BY <1>1 DEF IInv, SInv, Books
<1>3. Copy(e, answered, Closed, nextDecision, nextPlan, lookups, paid)
  <2> HIDE DEF cand
  <2> QED
    BY CandSafe
<1>4. e.lookup = d.lookup
  BY DEF Document
<1>5. rest # {} => stop \in Candidates
  <2>1. rest \subseteq Nat /\ rest \subseteq Candidates
    BY EnrichmentAssumption DEF Candidates
  <2> QED
    BY <2>1, MinOfNaturals
<1>6. CASE /\ rest = {} /\ Resolved(e) = {} /\ db' = e /\ Return(h, "ok") /\ UNCHANGED lookups
  <2> HIDE DEF e
  <2>1. StoredSafe'
    BY <1>1, <1>3, <1>6 DEF StoredSafe
  <2> QED
    BY <1>2, <1>6, <2>1, ReturnIdle
<1>7. CASE /\ rest = {} /\ Resolved(e) # {} /\ db' = d
           /\ Await(h, "quotes", e, stop, reason, {}, {}) /\ UNCHANGED lookups
  <2> HIDE DEF e, stop
  <2>1. StoredSafe' /\ Copy(e, answered', Closed', nextDecision', nextPlan', lookups', paid')
    BY <1>1, <1>3, <1>7 DEF StoredSafe
  <2> QED
    BY <1>2, <1>7, <2>1, AwaitQuiet
<1>8. CASE /\ rest # {} /\ MayBegin(d.lookup[stop], reason) /\ db' = begun
           /\ Await(h, "lookup", begun, stop, reason, {}, {})
           /\ lookups' = [lookups EXCEPT ![stop] = BumpTo(LookupCap, @)]
  <2>1. stop \in Candidates /\ lookups \in [Candidates -> 0..LookupCap]
    BY <1>5, <1>8 DEF IInv, CountersOK
  <2> DEFINE b == [d EXCEPT !.lookup[stop] = Begun(@, "EXECUTING")]
  <2>2. /\ begun.history = b.history /\ begun.active = b.active /\ begun.plan = b.plan
        /\ begun.lookup = b.lookup /\ begun.fetch = b.fetch
    <3> HIDE DEF cand, stop
    <3> QED
      BY DEF Document
  <2> HIDE DEF begun, stop
  <2>3. Copy(b, answered', Closed', nextDecision', nextPlan', lookups', paid')
    BY <1>1, <1>8, <2>1, BegunSafe
  <2> HIDE DEF b
  <2>4. Copy(begun, answered', Closed', nextDecision', nextPlan', lookups', paid')
    BY <2>2, <2>3, SameCopy
  <2>5. StoredSafe'
    BY <2>4, <1>8 DEF StoredSafe
  <2> QED
    BY <1>2, <1>8, <2>4, <2>5, AwaitQuiet
<1>9. CASE rest # {} /\ db' = d /\ Return(h, "raised") /\ UNCHANGED lookups
  <2>1. StoredSafe'
    BY <1>1, <1>9 DEF StoredSafe
  <2> QED
    BY <1>2, <1>9, <2>1, ReturnIdle
<1> HIDE DEF e, stop
<1> QED
  BY <1>6, <1>7, <1>8, <1>9 DEF Proceed, e, begun, stop, cand

LEMMA ResolveAndQuoteSafe ==
    ASSUME IInv, SInv, MaxOverlaps = 0, NEW h \in Calls, NEW reason \in BOOLEAN,
           ResolveAndQuote(h, reason)
    PROVE  SInv'
<1>1. /\ Enters /\ Await(h, "evidence", db, 0, reason, {}, {})
      /\ UNCHANGED <<db, nextPlan, nextDecision, history>>
  BY DEF ResolveAndQuote, Starts
<1>2. Closed' = Closed /\ Books' /\ StoredSafe'
  BY <1>1 DEF history, answers, Closed, SInv, Books, StoredSafe
<1>3. Copy(db, answered', Closed', nextDecision', nextPlan', lookups', paid')
  BY <1>1, <1>2 DEF StoredSafe
<1>4. \A g \in Calls : call[g].pc = "idle"
  BY <1>1, EntersAlone
<1> QED
  BY <1>1, <1>2, <1>3, <1>4, StoredInHand, AwaitQuiet

LEMMA HoldCopySafe ==
    ASSUME IInv, SInv, MaxOverlaps = 0, NEW h \in Calls, HoldCopy(h)
    PROVE  SInv'
<1>1. /\ Enters /\ Await(h, "hold", db, 0, FALSE, {}, {})
      /\ UNCHANGED <<db, nextPlan, nextDecision, history>>
  BY DEF HoldCopy, Starts
<1>2. Closed' = Closed /\ Books' /\ StoredSafe'
  BY <1>1 DEF history, answers, Closed, SInv, Books, StoredSafe
<1>3. Copy(db, answered', Closed', nextDecision', nextPlan', lookups', paid')
  BY <1>1, <1>2 DEF StoredSafe
<1>4. \A g \in Calls : call[g].pc = "idle"
  BY <1>1, EntersAlone
<1> QED
  BY <1>1, <1>2, <1>3, <1>4, StoredInHand, AwaitQuiet

LEMMA EvidencePlannedSafe ==
    ASSUME IInv, SInv, NEW h \in Calls, EvidencePlanned(h)
    PROVE  SInv'
<1>1. /\ call[h].pc # "idle" /\ Proceed(h, call[h].doc, 1, call[h].reason)
      /\ UNCHANGED <<nextPlan, nextDecision, answers, paid>>
  BY DEF EvidencePlanned
<1> QED
  BY <1>1, CallInHand, ProceedSafe

LEMMA LookupReturnedSafe ==
    ASSUME IInv, SInv, NEW h \in Calls, NEW outcome \in Outcomes, LookupReturned(h, outcome)
    PROVE  SInv'
<1> DEFINE d == LookedUp(call[h].doc, call[h].at, outcome)
<1>1. /\ call[h].pc # "idle" /\ Proceed(h, d, call[h].at + 1, call[h].reason)
      /\ UNCHANGED <<nextPlan, nextDecision, answers, paid>>
  BY DEF LookupReturned
<1>2. WellFormed(d)
  BY <1>1, CallInHand, LookedUpWellFormed
<1>3. Copy(d, answered, Closed, nextDecision, nextPlan, lookups, paid)
  BY <1>1, CallInHand, LookedUpSafe
<1>4. call[h].at + 1 \in Nat
  BY <1>1, CallInHand
<1> HIDE DEF d
<1>5. d \in Document
  BY <1>2 DEF WellFormed
<1> QED
  BY <1>1, <1>3, <1>4, <1>5, CallInHand, ProceedSafe

LEMMA SelectResolutionSafe ==
    ASSUME IInv, SInv, MaxOverlaps = 0, NEW h \in Calls, NEW c \in Candidates,
           SelectResolution(h, c)
    PROVE  SInv'
<1> DEFINE d == [db EXCEPT !.cand[c] = "RESOLVED", !.plan = NoPlan]
<1>1. /\ Enters /\ Await(h, "evidence", d, 0, FALSE, {}, {}) /\ db' = d
      /\ UNCHANGED <<nextPlan, nextDecision, history>>
  BY DEF SelectResolution, Starts
<1>2. /\ d.history = db.history /\ d.active = db.active /\ d.lookup = db.lookup
      /\ d.fetch = db.fetch /\ d.plan = NoPlan
  BY StoredInHand DEF Document
<1>3. nextPlan \in Nat /\ 0 < nextPlan
  BY EnrichmentAssumption DEF IInv, CountersOK
<1> HIDE DEF d
<1>4. Copy(d, answered, Closed, nextDecision, nextPlan, lookups, paid)
  BY <1>2, <1>3, StoredInHand DEF Copy, AnswersSafe, PlansSafe, LookupsSafe, QuoteSafe, NoPlan
<1>5. Closed' = Closed /\ Books'
  BY <1>1 DEF history, answers, Closed, SInv, Books
<1>6. Copy(d, answered', Closed', nextDecision', nextPlan', lookups', paid')
  BY <1>1, <1>4, <1>5 DEF history, answers
<1>7. StoredSafe'
  BY <1>1, <1>6 DEF StoredSafe
<1>8. \A g \in Calls : call[g].pc = "idle"
  BY <1>1, EntersAlone
<1> QED
  BY <1>1, <1>5, <1>6, <1>7, <1>8, StoredInHand, AwaitQuiet

LEMMA ResolveCandidateSafe ==
    ASSUME IInv, SInv, MaxOverlaps = 0, NEW h \in Calls, NEW c \in Candidates,
           ResolveCandidate(h, c)
    PROVE  SInv'
<1> DEFINE d == [db EXCEPT !.lookup[c] = Begun(@, "EXECUTING")]
<1>1. /\ Enters /\ Await(h, "lookup_one", d, c, FALSE, {}, {}) /\ db' = d
      /\ lookups' = [lookups EXCEPT ![c] = BumpTo(LookupCap, @)]
      /\ UNCHANGED <<nextPlan, nextDecision, answers, paid>>
  BY DEF ResolveCandidate, Starts
<1>2. Copy(d, answered, Closed, nextDecision, nextPlan, lookups', paid)
  BY <1>1, StoredInHand, BegunSafe DEF IInv, CountersOK
<1> HIDE DEF d
<1>3. Closed' = Closed /\ Books'
  BY <1>1 DEF answers, Closed, SInv, Books
<1>4. Copy(d, answered', Closed', nextDecision', nextPlan', lookups', paid')
  BY <1>1, <1>2, <1>3 DEF answers
<1>5. StoredSafe'
  BY <1>1, <1>4 DEF StoredSafe
<1>6. \A g \in Calls : call[g].pc = "idle"
  BY <1>1, EntersAlone
<1> QED
  BY <1>1, <1>3, <1>4, <1>5, <1>6, StoredInHand, AwaitQuiet

LEMMA CandidateResolvedSafe ==
    ASSUME IInv, SInv, NEW h \in Calls, NEW outcome \in Outcomes, CandidateResolved(h, outcome)
    PROVE  SInv'
<1>1. /\ call[h].pc # "idle" /\ Return(h, IF outcome = "ERROR" THEN "raised" ELSE "ok")
      /\ \/ db' = [call[h].doc EXCEPT !.lookup[call[h].at].status = "FAILED"]
         \/ db' = LookedUp(call[h].doc, call[h].at, outcome)
      /\ UNCHANGED <<nextPlan, nextDecision, history>>
  BY DEF CandidateResolved
<1>2. Copy(db', answered, Closed, nextDecision, nextPlan, lookups, paid)
  <2> DEFINE d == call[h].doc
             c == call[h].at
  <2>1. d \in Document /\ Copy(d, answered, Closed, nextDecision, nextPlan, lookups, paid)
    BY <1>1, CallInHand
  <2>2. db' = [d EXCEPT !.lookup[c].status = "FAILED"] \/ db' = LookedUp(d, c, outcome)
    BY <1>1
  <2> HIDE DEF d, c
  <2>3. CASE db' = [d EXCEPT !.lookup[c].status = "FAILED"]
    BY <2>1, <2>3, FailedLookupSafe
  <2>4. CASE db' = LookedUp(d, c, outcome)
    BY <2>1, <2>4, LookedUpSafe
  <2> QED
    BY <2>2, <2>3, <2>4
<1>3. Closed' = Closed /\ Books'
  BY <1>1 DEF history, answers, Closed, SInv, Books
<1>4. StoredSafe'
  BY <1>1, <1>2, <1>3 DEF StoredSafe, history, answers
<1> QED
  BY <1>1, <1>3, <1>4, CallInHand, ReturnIdle

(* A new plan is undecided, and nothing was ever paid for under it. *)
LEMMA QuotedSafe ==
    ASSUME IInv, SInv, NEW h \in Calls, Quoted(h)
    PROVE  SInv'
<1> DEFINE d == call[h].doc
           request == Resolved(d)
           plan == [id |-> nextPlan, status |-> "QUOTED", approved |-> 0, request |-> request]
           op == d.fetch[request]
           e == FreshQuote(d, nextPlan)
           f == Interrupted(e, "confirm_enrichment", nextPlan)
<1>1. /\ call[h].pc # "idle" /\ UNCHANGED history
      /\ \/ /\ db' = d /\ Return(h, "ok") /\ UNCHANGED <<nextPlan, nextDecision>>
         \/ /\ Return(h, "raised") /\ UNCHANGED <<db, nextPlan, nextDecision>>
         \/ /\ op.status = "QUOTED" \/ MayBegin(op, call[h].reason)
            /\ nextPlan <= MaxPlans /\ nextPlan' = nextPlan + 1
            /\ TakesDecisionId(f) /\ db' = f /\ Return(h, "ok")
  BY DEF Quoted, FreshQuote
<1>2. UNCHANGED <<answered, approvals, cancelled, Closed, lookups, paid>>
  BY <1>1 DEF history, answers, Closed
<1>3. CASE /\ db' = d /\ Return(h, "ok") /\ UNCHANGED <<nextPlan, nextDecision>>
  <2>1. Books' /\ StoredSafe'
    BY <1>1, <1>2, <1>3, CallInHand DEF StoredSafe, SInv, Books
  <2> QED
    BY <1>1, <1>3, <2>1, CallInHand, ReturnIdle
<1>4. CASE Return(h, "raised") /\ UNCHANGED <<db, nextPlan, nextDecision>>
  <2>1. Books' /\ StoredSafe'
    BY <1>1, <1>2, <1>4 DEF StoredSafe, SInv, Books
  <2> QED
    BY <1>1, <1>4, <2>1, CallInHand, ReturnIdle
<1>5. CASE /\ op.status = "QUOTED" \/ MayBegin(op, call[h].reason)
           /\ nextPlan <= MaxPlans /\ nextPlan' = nextPlan + 1
           /\ TakesDecisionId(f) /\ db' = f /\ Return(h, "ok")
  <2>1. nextPlan \in PlanIds /\ nextPlan \in Nat /\ PlanIds \subseteq Nat
    BY <1>5, EnrichmentAssumption DEF IInv, CountersOK, PlanIds
  <2>2. nextPlan \notin Closed /\ (\A p \in Closed : p < nextPlan + 1)
    BY <2>1 DEF SInv, Books, Closed, IInv, DecisionsOK
  <2>3. Unspent(nextPlan, paid)
    <3>1. nextPlan \notin approvals
      BY <2>2 DEF Closed
    <3>2. \A c \in Candidates : paid[nextPlan][c] \in 0..PaidCap /\ ~(paid[nextPlan][c] > 0)
      BY <2>1, <3>1 DEF IInv, PaymentsOK, FetchOnlyApproved
    <3> QED
      BY <3>2 DEF Unspent, PaidCap
  <2>4. /\ e.history = d.history /\ e.active = d.active /\ e.lookup = d.lookup /\ e.plan = plan
    BY <1>1, CallInHand DEF Document, FreshQuote
  <2>5. e \in Document
    BY <1>1, <1>5, <2>1, CallInHand, FreshQuoteWellFormed DEF WellFormed
  <2> HIDE DEF e
  <2>6. Copy(e, answered, Closed, nextDecision, nextPlan + 1, lookups, paid)
    <3>1. Copy(d, answered, Closed, nextDecision, nextPlan, lookups, paid)
      BY <1>1, CallInHand
    <3>2. PlansSafe(e, Closed, nextPlan + 1)
      <4>1. d.active.ref \in Nat
        BY <1>1, CallInHand DEF Document, Decision
      <4>2. plan.id = nextPlan
        OBVIOUS
      <4> HIDE DEF plan, d
      <4> QED
        BY <2>1, <2>4, <3>1, <4>1, <4>2 DEF Copy, PlansSafe
    <3>3. QuoteSafe(e, paid)
      BY <2>3, <2>4 DEF QuoteSafe
    <3> QED
      BY <2>4, <3>1, <3>2, <3>3 DEF Copy, AnswersSafe, LookupsSafe
  <2>7. /\ Copy(f, answered, Closed, nextDecision', nextPlan + 1, lookups, paid)
        /\ Asked(answered, nextDecision')
    BY <1>5, <2>1, <2>2, <2>5, <2>6, StoredInHand, InterruptedSafe
  <2> HIDE DEF f
  <2>8. StoredSafe'
    BY <1>2, <1>5, <2>7 DEF StoredSafe
  <2>9. Books'
    BY <1>2, <1>5, <2>2, <2>7, StoredInHand DEF Books
  <2> QED
    BY <1>1, <1>5, <2>8, <2>9, CallInHand, ReturnIdle
<1> QED
  BY <1>1, <1>3, <1>4, <1>5

LEMMA AwaitFailsSafe ==
    ASSUME IInv, SInv, NEW h \in Calls, AwaitFails(h)
    PROVE  SInv'
<1>1. /\ call[h].pc # "idle" /\ Return(h, "raised")
      /\ UNCHANGED <<db, nextPlan, nextDecision, history>>
  BY DEF AwaitFails
<1>2. Books' /\ StoredSafe'
  BY <1>1 DEF history, answers, Closed, SInv, Books, StoredSafe
<1> QED
  BY <1>1, <1>2, CallInHand, ReturnIdle

LEMMA WriteCopyBackSafe ==
    ASSUME IInv, SInv, NEW h \in Calls, WriteCopyBack(h)
    PROVE  SInv'
<1>1. /\ call[h].pc # "idle" /\ Return(h, "ok") /\ db' = call[h].doc
      /\ UNCHANGED <<nextPlan, nextDecision, history>>
  BY DEF WriteCopyBack
<1>2. Books' /\ Closed' = Closed
  BY <1>1 DEF history, answers, Closed, SInv, Books
<1>3. StoredSafe'
  BY <1>1, <1>2, CallInHand DEF history, answers, StoredSafe
<1> QED
  BY <1>1, <1>2, <1>3, CallInHand, ReturnIdle

-------------------------------------------------------------------------------
(* Each action keeps the decisions: answering and fetching *)

(* The gate lets a plan through that has paid for nothing, and marks it.    *)
LEMMA ConfirmSafe ==
    ASSUME CallsOK, NEW h \in Calls, \A g \in Calls \ {h} : call[g].pc = "idle", Books',
           NEW d \in Document, Copy(d, answered', Closed', nextDecision', nextPlan', lookups', paid'),
           ConfirmAndFetch(h, d)
    PROVE  SInv'
<1>1. CASE Confirmable(d) /\ db' = Executing(d) /\ Await(h, "select", Executing(d), 0, FALSE, {}, {})
  <2> DEFINE e == Executing(d)
  <2>1. /\ e.history = d.history /\ e.active = d.active /\ e.plan = d.plan /\ e.lookup = d.lookup
        /\ e.fetch[e.plan.request].status = "EXECUTING"
    BY DEF Executing, Document, Plan, Fetch
  <2>2. Unspent(d.plan.id, paid')
    BY <1>1 DEF Confirmable, Copy, QuoteSafe
  <2> HIDE DEF e
  <2>3. Copy(e, answered', Closed', nextDecision', nextPlan', lookups', paid')
    BY <2>1 DEF Copy, AnswersSafe, PlansSafe, LookupsSafe, QuoteSafe
  <2>4. StoredSafe'
    BY <1>1, <2>3 DEF StoredSafe, e
  <2>5. db' = e /\ Await(h, "select", e, 0, FALSE, {}, {})
    BY <1>1 DEF e
  <2>6. Underway(InHand("select", e, 0, FALSE, {}, {}), db', paid')
    BY <2>1, <2>2, <2>5 DEF Underway, InHand
  <2> QED
    BY <2>3, <2>4, <2>5, <2>6, AwaitAlone
<1>2. CASE db' = d /\ Return(h, "raised")
  BY <1>2, ReturnIdle DEF StoredSafe
<1> QED
  BY <1>1, <1>2 DEF ConfirmAndFetch

LEMMA ConfirmRequestSafe ==
    ASSUME IInv, SInv, MaxOverlaps = 0, NEW h \in Calls, ConfirmRequest(h)
    PROVE  SInv'
<1>1. /\ Enters /\ ConfirmAndFetch(h, db) /\ UNCHANGED <<nextPlan, nextDecision, history>>
  BY DEF ConfirmRequest, Starts
<1>2. Books' /\ Closed' = Closed
  BY <1>1 DEF history, answers, Closed, SInv, Books
<1>3. Copy(db, answered', Closed', nextDecision', nextPlan', lookups', paid')
  BY <1>1, <1>2, StoredInHand DEF history, answers
<1>4. \A g \in Calls : call[g].pc = "idle"
  BY <1>1, EntersAlone
<1> QED
  BY <1>1, <1>2, <1>3, <1>4, StoredInHand, ConfirmSafe

(* An approval closes a plan that was open. *)
LEMMA ApprovalSafe ==
    ASSUME IInv, SInv, db.active.kind = "confirm_enrichment", db.active.ref = db.plan.id,
           approvals' = approvals \cup {db.plan.id}, answered' = answered \cup {db.active.id},
           UNCHANGED <<nextPlan, nextDecision, cancelled, paid, lookups>>
    PROVE  /\ Approval(db) \in Document /\ Books'
           /\ Copy(Approval(db), answered', Closed', nextDecision', nextPlan', lookups', paid')
<1> DEFINE e == Answered(db)
           d == Approval(db)
<1>1. d \in Document
  BY ApprovalOK DEF WellFormed
<1>2. db.active.id # 0 /\ db.plan.id < nextPlan /\ db.plan.id \notin Closed
  BY StoredInHand DEF WellFormed, Copy, AnswersSafe, PlansSafe
<1>3. nextDecision \in Nat \ {0}
  BY EnrichmentAssumption DEF IInv, DecisionsOK
<1>4. /\ Copy(e, answered', Closed', nextDecision', nextPlan', lookups', paid')
      /\ Asked(answered', nextDecision')
  <2>1. Copy(db, answered, Closed, nextDecision, nextPlan, lookups, paid) /\ db \in Document
    BY StoredInHand
  <2> HIDE DEF e
  <2>2. /\ Copy(Answered(db), answered \cup {db.active.id}, Closed', nextDecision, nextPlan,
                lookups, paid)
        /\ Asked(answered \cup {db.active.id}, nextDecision)
    BY <1>2, <1>3, <2>1, StoredInHand, AnsweredSafe
  <2> QED
    BY <2>2 DEF e
<1>5. /\ d.history = e.history /\ d.active = e.active /\ d.lookup = e.lookup /\ d.fetch = e.fetch
      /\ d.plan.id = e.plan.id /\ d.plan.status = e.plan.status /\ d.plan.request = e.plan.request
  <2>1. e \in Document
    BY <1>2, StoredInHand, AnsweredWellFormed DEF WellFormed
  <2>2. d = [e EXCEPT !.plan = [e.plan EXCEPT !.approved = db.active.id]]
    BY DEF Approval
  <2> HIDE DEF d, e
  <2> QED
    BY <2>1, <2>2 DEF Document, Plan
<1> HIDE DEF d, e
<1>6. Copy(d, answered', Closed', nextDecision', nextPlan', lookups', paid')
  BY <1>4, <1>5 DEF Copy, AnswersSafe, PlansSafe, LookupsSafe, QuoteSafe
<1>7. Books'
  <2>1. approvals' \cap cancelled' = {}
    BY <1>2, StoredInHand DEF Books, Closed
  <2>2. \A p \in Closed' : p < nextPlan'
    BY <1>2, StoredInHand DEF Books, Closed
  <2> QED
    BY <1>4, <2>1, <2>2, StoredInHand DEF Books
<1> QED
  BY <1>1, <1>6, <1>7 DEF d

LEMMA AnswerContinueSafe ==
    ASSUME IInv, SInv, MaxOverlaps = 0, NEW h \in Calls, AnswerContinue(h)
    PROVE  SInv'
<1>1. /\ Enters /\ ConfirmAndFetch(h, Approval(db))
      /\ db.active.kind = "confirm_enrichment" /\ db.active.ref = db.plan.id
      /\ approvals' = approvals \cup {db.plan.id} /\ answered' = answered \cup {db.active.id}
      /\ UNCHANGED <<nextPlan, nextDecision, cancelled, paid, lookups>>
  BY DEF AnswerContinue, Starts
<1>2. /\ Approval(db) \in Document /\ Books'
      /\ Copy(Approval(db), answered', Closed', nextDecision', nextPlan', lookups', paid')
  BY <1>1, ApprovalSafe
<1>3. \A g \in Calls : call[g].pc = "idle"
  BY <1>1, EntersAlone
<1> QED
  BY <1>1, <1>2, <1>3, StoredInHand, ConfirmSafe

LEMMA ApprovedThenCrashSafe ==
    ASSUME IInv, SInv, ApprovedThenCrash
    PROVE  SInv'
<1>1. /\ Dies /\ db' = Approval(db)
      /\ db.active.kind = "confirm_enrichment" /\ db.active.ref = db.plan.id
      /\ approvals' = approvals \cup {db.plan.id} /\ answered' = answered \cup {db.active.id}
      /\ UNCHANGED <<nextPlan, nextDecision, cancelled, paid, lookups>>
  BY DEF ApprovedThenCrash
<1>2. /\ Books'
      /\ Copy(Approval(db), answered', Closed', nextDecision', nextPlan', lookups', paid')
  BY <1>1, ApprovalSafe
<1> QED
  BY <1>1, <1>2, DiesIdle DEF StoredSafe

LEMMA CrashSafe ==
    ASSUME IInv, SInv, Crash
    PROVE  SInv'
<1>1. Dies /\ UNCHANGED <<db, nextPlan, nextDecision, history>>
  BY DEF Crash
<1>2. Books' /\ StoredSafe'
  BY <1>1 DEF history, answers, Closed, SInv, Books, StoredSafe
<1> QED
  BY <1>1, <1>2, DiesIdle

(* A batch that has paid for nothing is paid for once, and nothing else is. *)
LEMMA PaysOnce ==
    ASSUME IInv, Books, NEW id \in PlanIds, NEW left \in SUBSET Candidates,
           \A c \in FirstBatch(left) : paid[id][c] = 0, Pays(id, FirstBatch(left))
    PROVE  /\ \A p \in PlanIds, c \in Candidates : paid'[p][c] <= 1
           /\ \A p \in PlanIds, c \in Candidates : p # id \/ c \notin FirstBatch(left)
                                                     => paid'[p][c] = paid[p][c]
<1> DEFINE row == [c \in Candidates |-> IF c \in FirstBatch(left) THEN BumpTo(PaidCap, paid[id][c])
                                                                  ELSE paid[id][c]]
<1>1. paid' = [paid EXCEPT ![id] = row] /\ paid \in [PlanIds -> [Candidates -> 0..PaidCap]]
  BY DEF Pays, IInv, PaymentsOK
<1>2. \A c \in Candidates : row[c] = IF c \in FirstBatch(left) THEN 1 ELSE paid[id][c]
  BY DEF BumpTo, PaidCap
<1> HIDE DEF row
<1>3. \A p \in PlanIds, c \in Candidates : paid'[p][c] = IF p = id THEN row[c] ELSE paid[p][c]
  BY <1>1
<1>4. \A p \in PlanIds, c \in Candidates : paid[p][c] <= 1
  BY DEF Books
<1> QED
  BY <1>2, <1>3, <1>4

(* Decision ids only grow. *)
LEMMA LaterDecision ==
    ASSUME DecisionsOK, NEW d \in Document, NEW f, TakesDecisionId(f),
           NEW A, Asked(A, nextDecision), NEW C, NEW np, NEW lk, NEW pd,
           Copy(d, A, C, nextDecision, np, lk, pd)
    PROVE  /\ Copy(d, A, C, nextDecision', np, lk, pd)
           /\ Asked(A, nextDecision')
<1>1. nextDecision \in Nat /\ d.active.id \in Nat /\ A \subseteq Nat
  BY EnrichmentAssumption DEF DecisionsOK, Document, Decision, DecisionIds, Asked
<1>2. nextDecision' = nextDecision \/ nextDecision' = nextDecision + 1
  BY DEF TakesDecisionId
<1> QED
  BY <1>1, <1>2 DEF Copy, AnswersSafe, Asked

(* A batch is sent for candidates nothing was paid for, and only for them.  *)
LEMMA SendBatchSafe ==
    ASSUME IInv, SInv, NEW h \in Calls, \A g \in Calls \ {h} : call[g].pc = "idle",
           UNCHANGED <<db, nextPlan, answers, lookups>>,
           NEW d \in Document, d.plan.id \in PlanIds,
           Copy(d, answered, Closed, nextDecision', nextPlan, lookups, paid),
           Copy(db, answered, Closed, nextDecision', nextPlan, lookups, paid),
           Asked(answered, nextDecision'),
           d.fetch[d.plan.request].status = "EXECUTING",
           db.fetch[db.plan.request].status = "EXECUTING",
           NEW sites, NEW left \in SUBSET Candidates, \A c \in left : paid[d.plan.id][c] = 0,
           SendBatch(h, d, sites, left)
    PROVE  SInv'
<1> DEFINE id == d.plan.id
<1>1. Pays(id, FirstBatch(left)) /\ Await(h, "batch", d, 0, FALSE, sites, left)
  BY DEF SendBatch
<1>2. FirstBatch(left) \subseteq left
  BY DEF FirstBatch
<1>3. CallsOK /\ Books
  BY StoredInHand
<1>4. /\ \A p \in PlanIds, c \in Candidates : paid'[p][c] <= 1
      /\ \A p \in PlanIds, c \in Candidates : p # id \/ c \notin FirstBatch(left)
                                                => paid'[p][c] = paid[p][c]
  <2> HIDE DEF id
  <2>1. id \in PlanIds /\ \A c \in left : paid[id][c] = 0
    BY DEF id
  <2> QED
    BY <1>1, <1>2, <1>3, <2>1, PaysOnce
<1>5. UNCHANGED <<answered, approvals, cancelled, Closed>>
  BY DEF answers, Closed
<1>6. Books'
  BY <1>3, <1>4, <1>5 DEF Books
<1>7. Copy(d, answered', Closed', nextDecision', nextPlan', lookups', paid')
  BY <1>5 DEF Copy, QuoteSafe
<1>8. StoredSafe'
  BY <1>5 DEF StoredSafe, Copy, QuoteSafe
<1>9. Underway(InHand("batch", d, 0, FALSE, sites, left), db', paid')
  <2>1. \A p \in PlanIds, c \in left \ FirstBatch(left) : p = id => paid'[p][c] = 0
    BY <1>4
  <2> QED
    BY <2>1 DEF Underway, InHand
<1> QED
  BY <1>1, <1>3, <1>6, <1>7, <1>8, <1>9, AwaitAlone

(* A settled plan is completed: it can no longer be fetched. *)
LEMMA SettleSafe ==
    ASSUME CallsOK, NEW h \in Calls, \A g \in Calls \ {h} : call[g].pc = "idle", Books',
           NEW d \in Document, NEW sites, Settle(h, d, sites),
           Copy(d, answered', Closed', nextDecision', nextPlan', lookups', paid')
    PROVE  SInv'
<1> DEFINE done == IF sites \cap InStatus(d, "ENRICHMENT_FAILED") = {} THEN "SUCCEEDED" ELSE "PARTIAL"
           e == [d EXCEPT !.fetch[d.plan.request].status = done, !.plan.status = "COMPLETED"]
<1>1. db' = e /\ Return(h, "ok")
  BY DEF Settle
<1>2. /\ e.history = d.history /\ e.active = d.active /\ e.lookup = d.lookup
      /\ e.plan.id = d.plan.id /\ e.plan.status = "COMPLETED"
  <2> HIDE DEF done
  <2> QED
    BY DEF Document, Plan
<1> HIDE DEF e
<1>3. StoredSafe'
  BY <1>1, <1>2 DEF StoredSafe, Copy, AnswersSafe, PlansSafe, LookupsSafe, QuoteSafe
<1> QED
  BY <1>1, <1>3, ReturnIdle

LEMMA FieldsSelectedSafe ==
    ASSUME IInv, SInv, NEW h \in Calls, FieldsSelected(h)
    PROVE  SInv'
<1> DEFINE d == call[h].doc
<1>1. /\ call[h].pc = "select" /\ call[h].pc # "idle"
      /\ UNCHANGED <<nextPlan, nextDecision, answers, lookups>>
      /\ \/ SendBatch(h, d, Resolved(d), Resolved(d)) /\ UNCHANGED db
         \/ Settle(h, d, {}) /\ UNCHANGED paid
  BY DEF FieldsSelected
<1>2. /\ d \in Document /\ d.fetch[d.plan.request].status = "EXECUTING"
      /\ db.fetch[db.plan.request].status = "EXECUTING" /\ Unspent(d.plan.id, paid)
      /\ Copy(d, answered, Closed, nextDecision, nextPlan, lookups, paid)
      /\ \A g \in Calls \ {h} : call[g].pc = "idle"
  BY <1>1, CallInHand DEF Underway
<1>3. d.plan.id \in PlanIds
  BY <1>1 DEF IInv, CallsOK, CallOK, Genuine, DecisionsOK
<1>4. Resolved(d) \in SUBSET Candidates /\ \A c \in Resolved(d) : paid[d.plan.id][c] = 0
  BY <1>2, <1>3 DEF Resolved, InStatus, Unspent
<1>5. Asked(answered, nextDecision) /\ nextDecision' = nextDecision
  BY <1>1, StoredInHand DEF Books
<1> HIDE DEF d
<1>6. CASE SendBatch(h, d, Resolved(d), Resolved(d)) /\ UNCHANGED db
  BY <1>1, <1>2, <1>3, <1>4, <1>5, <1>6, StoredInHand, SendBatchSafe
<1>7. CASE Settle(h, d, {}) /\ UNCHANGED paid
  <2>1. Books' /\ Closed' = Closed /\ answered' = answered
    BY <1>1, <1>7, StoredInHand DEF answers, Books, Closed
  <2>2. Copy(d, answered', Closed', nextDecision', nextPlan', lookups', paid')
    BY <1>1, <1>2, <1>7, <2>1
  <2> QED
    BY <1>2, <1>7, <2>1, <2>2, StoredInHand, SettleSafe
<1> QED
  BY <1>1, <1>6, <1>7

LEMMA BatchReturnedSafe ==
    ASSUME IInv, SInv, NEW h \in Calls, BatchReturned(h)
    PROVE  SInv'
<1> DEFINE d == call[h].doc
           left == call[h].left \ FirstBatch(call[h].left)
<1>1. call[h].pc = "batch" /\ call[h].pc # "idle" /\ UNCHANGED <<nextPlan, answers, lookups>>
  BY DEF BatchReturned
<1>2. /\ d \in Document /\ d.fetch[d.plan.request].status = "EXECUTING"
      /\ db.fetch[db.plan.request].status = "EXECUTING"
      /\ \A p \in PlanIds, c \in left : p = d.plan.id => paid[p][c] = 0
      /\ Copy(d, answered, Closed, nextDecision, nextPlan, lookups, paid)
      /\ \A g \in Calls \ {h} : call[g].pc = "idle"
      /\ left \in SUBSET Candidates
  BY <1>1, CallInHand DEF Underway
<1>3. d.plan.id \in PlanIds
  BY <1>1 DEF IInv, CallsOK, CallOK, Genuine, DecisionsOK
<1>4. PICK f : /\ WellFormed(f) /\ f.plan = d.plan /\ TakesDecisionId(f)
               /\ \E e \in Document : SameButCandidates(e, d) /\ (f = e \/ f = AddressQueued(e))
               /\ \/ SendBatch(h, f, call[h].sites, left) /\ UNCHANGED db
                  \/ Settle(h, f, call[h].sites) /\ UNCHANGED paid
  BY BatchKeepsPlan
<1>5. PICK e \in Document : SameButCandidates(e, d) /\ (f = e \/ f = AddressQueued(e))
  BY <1>4
<1> HIDE DEF d, left
<1>6. Copy(e, answered, Closed, nextDecision, nextPlan, lookups, paid)
  BY <1>2, <1>5, SameCopy DEF SameButCandidates
<1>7. /\ Copy(f, answered, Closed, nextDecision', nextPlan, lookups, paid)
      /\ Asked(answered, nextDecision')
  <2>1. CASE f = AddressQueued(e)
    BY <1>4, <1>5, <1>6, <2>1, StoredInHand, AddressQueuedSafe
  <2>2. CASE f = e
    BY <1>4, <1>5, <1>6, <2>2, StoredInHand, LaterDecision
  <2> QED
    BY <1>5, <2>1, <2>2
<1>8. Copy(db, answered, Closed, nextDecision', nextPlan, lookups, paid)
  BY <1>4, StoredInHand, LaterDecision
<1>9. f \in Document /\ f.plan = d.plan /\ f.fetch = d.fetch
  <2>1. AddressQueued(e).fetch = e.fetch
    BY <1>5 DEF AddressQueued, Interrupted, Document
  <2> QED
    BY <1>4, <1>5, <2>1 DEF WellFormed, SameButCandidates
<1>10. CASE SendBatch(h, f, call[h].sites, left) /\ UNCHANGED db
  <2>1. f.plan.id \in PlanIds /\ \A c \in left : paid[f.plan.id][c] = 0
    BY <1>2, <1>3, <1>9
  <2> QED
    BY <1>1, <1>2, <1>7, <1>8, <1>9, <1>10, <2>1, SendBatchSafe
<1>11. CASE Settle(h, f, call[h].sites) /\ UNCHANGED paid
  <2>1. UNCHANGED <<answered, approvals, cancelled, Closed>>
    BY <1>1 DEF answers, Closed
  <2>2. Books'
    BY <1>1, <1>7, <1>11, <2>1, StoredInHand DEF Books
  <2>3. Copy(f, answered', Closed', nextDecision', nextPlan', lookups', paid')
    BY <1>1, <1>7, <1>11, <2>1
  <2> QED
    BY <1>2, <1>9, <1>11, <2>2, <2>3, StoredInHand, SettleSafe
<1> QED
  BY <1>4, <1>10, <1>11

-------------------------------------------------------------------------------
(* Each action keeps the decisions: the handlers that await nothing *)

(* Nobody is under way, and the stored document keeps its books. *)
LEMMA QuietStep ==
    ASSUME IInv, SInv, MaxOverlaps = 0, Enters, UNCHANGED <<call, nextPlan, approvals, paid, lookups>>,
           approvals \cap cancelled' = {}, \A p \in cancelled' : p < nextPlan,
           Asked(answered', nextDecision'),
           Copy(db', answered', Closed', nextDecision', nextPlan, lookups, paid)
    PROVE  SInv'
<1>1. Books'
  BY StoredInHand DEF Books, Closed
<1>2. StoredSafe'
  BY DEF StoredSafe
<1> QED
  BY <1>1, <1>2, EntersAlone, SameCallsIdle

LEMMA AnswerCancelSafe ==
    ASSUME IInv, SInv, MaxOverlaps = 0, AnswerCancel
    PROVE  SInv'
<1>1. /\ Enters /\ db.active.id # 0 /\ db' = Answered(db) /\ answered' = answered \cup {db.active.id}
      /\ cancelled' = IF db.active.kind = "confirm_enrichment" THEN cancelled \cup {db.active.ref}
                                                               ELSE cancelled
      /\ UNCHANGED <<call, nextPlan, nextDecision, approvals, paid, lookups>>
  BY DEF AnswerCancel
<1>2. db.active.kind = "confirm_enrichment" => db.active.ref < nextPlan /\ db.active.ref \notin Closed
  BY StoredInHand DEF Copy, AnswersSafe, PlansSafe
<1>3. nextDecision \in Nat \ {0}
  BY EnrichmentAssumption DEF IInv, DecisionsOK
<1>4. /\ Copy(db', answered', Closed', nextDecision', nextPlan, lookups, paid)
      /\ Asked(answered', nextDecision')
  BY <1>1, <1>3, StoredInHand, AnsweredSafe
<1>5. approvals \cap cancelled' = {} /\ \A p \in cancelled' : p < nextPlan
  BY <1>1, <1>2, StoredInHand DEF Books, Closed
<1> QED
  BY <1>1, <1>4, <1>5, QuietStep

LEMMA AnswerActionSafe ==
    ASSUME IInv, SInv, MaxOverlaps = 0, AnswerAction
    PROVE  SInv'
<1>1. /\ Enters /\ db' = Answered(db) /\ answered' = answered \cup {db.active.id}
      /\ UNCHANGED <<call, nextPlan, nextDecision, approvals, cancelled, paid, lookups>>
  BY DEF AnswerAction
<1>2. db.active.id # 0
  BY StoredInHand DEF WellFormed, AnswerAction
<1>3. nextDecision \in Nat \ {0}
  BY EnrichmentAssumption DEF IInv, DecisionsOK
<1>4. /\ Copy(db', answered', Closed', nextDecision', nextPlan, lookups, paid)
      /\ Asked(answered', nextDecision')
  BY <1>1, <1>2, <1>3, StoredInHand, AnsweredSafe
<1>5. approvals \cap cancelled' = {} /\ \A p \in cancelled' : p < nextPlan
  BY <1>1, StoredInHand DEF Books, Closed
<1> QED
  BY <1>1, <1>4, <1>5, QuietStep

LEMMA AnswerAddressSafe ==
    ASSUME IInv, SInv, MaxOverlaps = 0,
           NEW verdict \in {"ENRICHED", "ADDRESS_MISMATCH_REJECTED"}, AnswerAddress(verdict)
    PROVE  SInv'
<1> DEFINE c == db.active.ref
           A == answered \cup {db.active.id}
           d == Answered(db)
           e == [d EXCEPT !.cand[c] = verdict]
<1>1. /\ Enters /\ db.active.kind = "confirm_address" /\ answered' = A
      /\ \/ TakesDecisionId(AddressQueued(e)) /\ db' = AddressQueued(e)
         \/ db' = d /\ UNCHANGED nextDecision
      /\ UNCHANGED <<call, nextPlan, approvals, cancelled, paid, lookups>>
  BY DEF AnswerAddress
<1>2. db.active.id # 0
  BY <1>1, StoredInHand DEF WellFormed
<1>3. nextDecision \in Nat \ {0}
  BY EnrichmentAssumption DEF IInv, DecisionsOK
<1>4. Copy(d, A, Closed, nextDecision, nextPlan, lookups, paid) /\ Asked(A, nextDecision)
  BY <1>2, <1>3, StoredInHand, AnsweredSafe
<1>6. d \in Document /\ d.active = NoDecision
  <2>1. d \in Document
    BY <1>2, StoredInHand, AnsweredWellFormed DEF WellFormed
  <2> QED
    BY <2>1, StoredInHand DEF Answered, Document
<1>7. e \in Document /\ e.active = NoDecision
  <2>1. WellFormed(d) /\ verdict \in CandidateStatus
    BY <1>2, StoredInHand, AnsweredWellFormed DEF CandidateStatus
  <2> HIDE DEF d, c
  <2>2. e \in Document
    BY <2>1, OneCandWellFormed DEF WellFormed
  <2> QED
    BY <1>6, <2>2 DEF Document
<1>8. Copy(e, A, Closed, nextDecision, nextPlan, lookups, paid)
  <2> HIDE DEF d, c, A
  <2> QED
    BY <1>4, <1>6, OneCandSafe
<1> HIDE DEF c, d, e
<1>9. /\ Copy(db', A, Closed, nextDecision', nextPlan, lookups, paid)
      /\ Asked(A, nextDecision')
  <2> HIDE DEF A
  <2>2. CASE TakesDecisionId(AddressQueued(e)) /\ db' = AddressQueued(e)
    BY <1>4, <1>7, <1>8, <2>2, StoredInHand, AddressQueuedSafe
  <2>3. CASE db' = d /\ UNCHANGED nextDecision
    BY <1>4, <2>3
  <2> QED
    BY <1>1, <2>2, <2>3
<1>10. Closed' = Closed /\ approvals \cap cancelled' = {} /\ \A p \in cancelled' : p < nextPlan
  BY <1>1, StoredInHand DEF Books, Closed
<1> HIDE DEF A
<1> QED
  BY <1>1, <1>9, <1>10, QuietStep

LEMMA AgentDecisionSafe ==
    ASSUME IInv, SInv, MaxOverlaps = 0, AgentDecision
    PROVE  SInv'
<1>1. /\ Enters /\ TakesDecisionId(Interrupted(db, "project_action", 0))
      /\ db' = Interrupted(db, "project_action", 0)
      /\ UNCHANGED <<call, nextPlan, history>>
  BY DEF AgentDecision
<1>2. UNCHANGED <<answered, approvals, cancelled, lookups, paid, Closed>>
  BY <1>1 DEF history, answers, Closed
<1>3. /\ Copy(db', answered, Closed, nextDecision', nextPlan, lookups, paid)
      /\ Asked(answered, nextDecision')
  BY <1>1, StoredInHand, InterruptedSafe
<1>4. approvals \cap cancelled' = {} /\ \A p \in cancelled' : p < nextPlan
  BY <1>2, StoredInHand DEF Books, Closed
<1> QED
  BY <1>1, <1>2, <1>3, <1>4, QuietStep

LEMMA LinkExistingSnapshotSafe ==
    ASSUME IInv, SInv, MaxOverlaps = 0, NEW c \in Candidates, NEW result \in CandidateStatus,
           LinkExistingSnapshot(c, result)
    PROVE  SInv'
<1> DEFINE d == [db EXCEPT !.cand[c] = result]
           e == IF result = "ENRICHED" THEN d ELSE AddressQueued(d)
<1>1. /\ Enters /\ TakesDecisionId(e) /\ db' = e /\ UNCHANGED <<call, nextPlan, history>>
  BY DEF LinkExistingSnapshot
<1>2. UNCHANGED <<answered, approvals, cancelled, lookups, paid, Closed>>
  BY <1>1 DEF history, answers, Closed
<1>3. d \in Document /\ Copy(d, answered, Closed, nextDecision, nextPlan, lookups, paid)
  <2>1. d \in Document
    BY StoredInHand, OneCandWellFormed DEF WellFormed
  <2> QED
    BY <2>1, StoredInHand, OneCandSafe
<1>4. /\ Copy(e, answered, Closed, nextDecision', nextPlan, lookups, paid)
      /\ Asked(answered, nextDecision')
  <2> HIDE DEF d
  <2>1. CASE result = "ENRICHED"
    BY <1>1, <1>3, <2>1, StoredInHand, LaterDecision
  <2>2. CASE result # "ENRICHED"
    BY <1>1, <1>3, <2>2, StoredInHand, AddressQueuedSafe
  <2> QED
    BY <2>1, <2>2
<1>5. approvals \cap cancelled' = {} /\ \A p \in cancelled' : p < nextPlan
  BY <1>2, StoredInHand DEF Books, Closed
<1> HIDE DEF e
<1> QED
  BY <1>1, <1>2, <1>4, <1>5, QuietStep

LEMMA QuoteExpiresSafe ==
    ASSUME SInv, NEW p \in PlanIds, QuoteExpires(p)
    PROVE  SInv'
BY DEF SInv, QuoteExpires, Books, StoredSafe, HeldSafe, Closed, history, answers

-------------------------------------------------------------------------------
(* Theorems for calls of which one is served at a time *)

LEMMA InitSInv == Init => SInv
<1> SUFFICES ASSUME Init PROVE SInv
  OBVIOUS
<1>1. PICK U : db = NewProject(U)
  BY DEF Init
<1>2. /\ db.history = {} /\ db.active = NoDecision /\ db.plan = NoPlan
      /\ \A c \in Candidates : db.lookup[c].attempts = 0
  BY <1>1 DEF NewProject
<1>3. Books
  BY DEF Init, Books, Closed, Asked
<1>4. StoredSafe
  BY <1>2 DEF Init, StoredSafe, Copy, AnswersSafe, PlansSafe, LookupsSafe, QuoteSafe, NoDecision, NoPlan
<1>5. HeldSafe
  BY DEF Init, HeldSafe, Idle
<1> QED
  BY <1>3, <1>4, <1>5 DEF SInv

LEMMA NextSInv == MaxOverlaps = 0 /\ IInv /\ SInv /\ [Next]_vars => SInv'
<1> SUFFICES ASSUME MaxOverlaps = 0, IInv, SInv, [Next]_vars PROVE SInv'
  OBVIOUS
<1>1. CASE UNCHANGED vars
  BY <1>1 DEF vars, history, answers, bounds, SInv, Books, StoredSafe, HeldSafe, Closed
<1>2. ASSUME NEW h \in Calls, Request(h) PROVE SInv'
  BY <1>2, ResolveAndQuoteSafe, SelectResolutionSafe, ResolveCandidateSafe, AnswerContinueSafe,
     ConfirmRequestSafe, HoldCopySafe DEF Request
<1>3. ASSUME NEW h \in Calls, Step(h) PROVE SInv'
  BY <1>3, EvidencePlannedSafe, QuotedSafe, LookupReturnedSafe, CandidateResolvedSafe,
     FieldsSelectedSafe, BatchReturnedSafe, WriteCopyBackSafe, AwaitFailsSafe DEF Step
<1>4. CASE AnswerCancel \/ AnswerAction \/ AgentDecision
  BY <1>4, AnswerCancelSafe, AnswerActionSafe, AgentDecisionSafe
<1>5. CASE \E verdict \in {"ENRICHED", "ADDRESS_MISMATCH_REJECTED"} : AnswerAddress(verdict)
  BY <1>5, AnswerAddressSafe
<1>6. CASE \E c \in Candidates, result \in CandidateStatus : LinkExistingSnapshot(c, result)
  BY <1>6, LinkExistingSnapshotSafe
<1>7. CASE \E p \in PlanIds : QuoteExpires(p)
  BY <1>7, QuoteExpiresSafe
<1>8. CASE Crash \/ ApprovedThenCrash
  BY <1>8, CrashSafe, ApprovedThenCrashSafe
<1> QED
  BY <1>1, <1>2, <1>3, <1>4, <1>5, <1>6, <1>7, <1>8 DEF Next

(* Served one at a time, calls keep the decisions' invariant. *)
THEOREM SequentialInvariance ==
    ASSUME MaxOverlaps = 0
    PROVE  Spec => [](IInv /\ SInv)
<1>1. IInv /\ SInv /\ [Next]_vars => (IInv /\ SInv)'
  BY NextIInv, NextSInv
<1> QED
  BY <1>1, InitIInv, InitSInv, PTL DEF Spec

(* Whatever is refused, retried or cut short by a crash, what the user      *)
(* decided about money stands: an approval pays for a site once, a          *)
(* cancelled plan is never paid for, an answer stays answered, and no       *)
(* candidate is looked up more often than the limit.                        *)
THEOREM SequentialDecisions ==
    ASSUME MaxOverlaps = 0
    PROVE  Spec => []DecisionsStand
<1>1. ASSUME IInv, SInv PROVE DecisionsStand
  <2>1. OnePaymentPerApproval
    BY <1>1 DEF SInv, Books, OnePaymentPerApproval
  <2>2. CancelledNeverPaid
    <3> SUFFICES ASSUME NEW p \in cancelled, NEW c \in Candidates PROVE paid[p][c] = 0
      BY DEF CancelledNeverPaid
    <3>1. p \in PlanIds /\ p \notin approvals
      BY <1>1 DEF IInv, DecisionsOK, SInv, Books
    <3>2. paid[p][c] \in 0..PaidCap /\ ~(paid[p][c] > 0)
      BY <1>1, <3>1 DEF IInv, PaymentsOK, FetchOnlyApproved
    <3> QED
      BY <3>2 DEF PaidCap
  <2>3. AnswersKept
    BY <1>1 DEF SInv, StoredSafe, Copy, AnswersSafe, AnswersKept
  <2>4. LookupsBounded
    <3> SUFFICES ASSUME NEW c \in Candidates PROVE lookups[c] <= RetryLimit
      BY DEF LookupsBounded
    <3>1. lookups[c] <= db.lookup[c].attempts
      BY <1>1 DEF SInv, StoredSafe, Copy, LookupsSafe
    <3>2. db.lookup[c].attempts \in 0..RetryLimit /\ lookups[c] \in Nat
      BY <1>1 DEF IInv, DocumentOK, CountersOK, WellFormed, Document, Lookup
    <3> QED
      BY <3>1, <3>2 DEF RetryLimit
  <2> QED
    BY <2>1, <2>2, <2>3, <2>4 DEF DecisionsStand
<1> QED
  BY <1>1, SequentialInvariance, PTL

(* Where no approval was ever overspent, no payment repeats an earlier one. *)
LEMMA StepSpendsOnce ==
    ASSUME IInv, SInv, SInv', [Gate!Next]_<<approvals, paid>>
    PROVE  [OnceGate!Next]_<<approvals, paid>>
<1>1. ASSUME NEW p \in PlanIds, NEW batch \in SUBSET Candidates, Gate!Pay(p, batch)
      PROVE  OnceGate!Next
  <2>1. ASSUME NEW c \in batch PROVE paid[p][c] = 0
    <3>1. paid'[p][c] = Gate!Bump(paid[p][c]) /\ paid[p][c] \in 0..PaidCap
      BY <1>1 DEF Gate!Pay, IInv, PaymentsOK
    <3>2. paid'[p][c] <= 1
      BY DEF SInv, Books
    <3> QED
      BY <3>1, <3>2 DEF Gate!Bump, PaidCap
  <2>2. OnceGate!Pay(p, batch)
    BY <1>1, <2>1 DEF Gate!Pay, OnceGate!Pay, Gate!Bump, OnceGate!Bump
  <2> QED
    BY <2>2 DEF OnceGate!Next
<1>2. ASSUME NEW p \in PlanIds, Gate!Approve(p) PROVE OnceGate!Next
  BY <1>2 DEF Gate!Approve, OnceGate!Approve, OnceGate!Next
<1> QED
  BY <1>1, <1>2 DEF Gate!Next

(* Served one at a time, the service keeps the stronger promise: a payment  *)
(* is made under an approved plan, for sites not yet paid for under it.     *)
THEOREM SequentialSpending ==
    ASSUME MaxOverlaps = 0
    PROVE  Spec => SpendingOnce
<1>1. Init => OnceGate!Init
  BY DEF Init, OnceGate!Init
<1>2. IInv /\ SInv /\ [Next]_vars => [OnceGate!Next]_OnceGate!spendVars
  BY StepRefines, NextSInv, StepSpendsOnce DEF OnceGate!spendVars
<1> QED
  BY <1>1, <1>2, SequentialInvariance, PTL DEF Spec, SpendingOnce, OnceGate!Spec

===============================================================================
