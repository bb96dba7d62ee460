------------------------------ MODULE Enrichment ------------------------------
(***************************************************************************)
(* The paid part of a diligence project: candidates are looked up, their   *)
(* enrichment is quoted, the user answers a cost decision, and the         *)
(* provider is paid to fetch evidence (app/diligence.py).                  *)
(*                                                                         *)
(* A project is ONE stored document.  Every handler reads the whole        *)
(* document, works on its copy, and writes the whole copy back; nothing    *)
(* checks that the stored document is still the one that was read.  A      *)
(* handler that awaits the provider holds its copy across the await, and   *)
(* other handlers of the same event loop run meanwhile.  So a step of this *)
(* module is what one handler does between two awaits.                     *)
(*                                                                         *)
(* The data is abstracted to what decides control: a candidate is its      *)
(* reconciliation_status, an operation its status and attempts, a request  *)
(* the set of candidates it names, a quote whether it has expired.  The    *)
(* project's status, ranking and intelligence are left out: no handler     *)
(* below reads them.  The requirements are READY throughout (the guard of  *)
(* resolve_and_quote).                                                     *)
(***************************************************************************)
EXTENDS Naturals, FiniteSets, FiniteSetsExt

CONSTANTS NumCandidates,   \* candidates of the project, in list order
          Coordinates,     \* those supplied as coordinates: no address to differ
          Calls,           \* request slots of the server
          MaxOverlaps,     \* bound: calls begun while another is under way
          BatchSize,       \* BATCH_SIZE: sites per paid fetch
          MaxPlans,        \* bound: spend plans ever made
          MaxDecisions,    \* bound: decision requests ever made
          MaxCrashes       \* bound: process crashes

Candidates == 1..NumCandidates
PlanIds == 1..MaxPlans
DecisionIds == 1..MaxDecisions

ASSUME EnrichmentAssumption ==
    /\ NumCandidates \in Nat /\ MaxOverlaps \in Nat /\ MaxCrashes \in Nat
    /\ MaxPlans \in Nat /\ MaxDecisions \in Nat
    /\ BatchSize \in Nat \ {0}
    /\ Coordinates \subseteq Candidates

RetryLimit == 2            \* attempts of one paid operation
PaidCap == 2               \* bound: payments and lookups are counted up to here
LookupCap == RetryLimit + 1

VARIABLES db,              \* the stored project document
          call,            \* the calls in progress, each with its copy
          nextPlan,        \* fresh spend_plan ids (uuid4)
          nextDecision,    \* fresh decision ids (uuid4)
          expired,         \* plans whose quote has expired
          crashes,         \* crashes so far
          overlaps,        \* calls begun so far while another was under way
          approvals,       \* history: plans a user answer has approved
          answered,        \* history: decisions the user has answered
          cancelled,       \* history: plans whose cost decision was cancelled
          paid,            \* history: paid fetches, by plan and candidate
          lookups          \* history: paid lookups, by candidate

answers == <<approvals, answered, cancelled>>
history == <<answers, paid, lookups>>
bounds == <<crashes, overlaps>>
vars == <<db, call, nextPlan, nextDecision, expired, bounds, history>>

-------------------------------------------------------------------------------
(* Types *)

CandidateStatus ==
    {"PENDING", "UNSUPPORTED", "AMBIGUOUS", "RESOLVED", "NOT_FOUND", "ERROR", "ENRICHED",
     "ENRICHMENT_FAILED", "ADDRESS_CONFIRMATION_REQUIRED", "ADDRESS_MISMATCH_REJECTED"}

Plan == [id : 0..MaxPlans, status : {"NONE", "QUOTED", "COMPLETED"},
         approved : 0..MaxDecisions, request : SUBSET Candidates]

Lookup == [status : {"NONE", "EXECUTING", "SUCCEEDED", "FAILED"}, attempts : 0..RetryLimit,
           result : {"NONE", "RESOLVED", "AMBIGUOUS", "NOT_FOUND"}]

Fetch == [status : {"NONE", "QUOTED", "EXECUTING", "SUCCEEDED", "PARTIAL"},
          attempts : 0..RetryLimit]

Decision == [id : 0..MaxDecisions,
             kind : {"none", "confirm_enrichment", "confirm_address", "project_action"},
             ref : Nat]

Document == [cand : [Candidates -> CandidateStatus], plan : Plan,
             lookup : [Candidates -> Lookup], fetch : [SUBSET Candidates -> Fetch],
             active : Decision, history : SUBSET DecisionIds]

ControlPoint ==
    {"idle",       \* no call in this slot
     "hold",       \* awaiting something that leaves this document's copy alone
     "evidence",   \* resolve_and_quote awaits the evidence plan
     "lookup",     \* resolve_and_quote awaits a paid lookup
     "lookup_one", \* resolve_candidate awaits a paid lookup
     "quotes",     \* resolve_and_quote awaits the field catalog, then the quotes
     "select",     \* confirm_and_fetch awaits the field catalog
     "batch"}      \* confirm_and_fetch awaits a paid batch

NoPlan == [id |-> 0, status |-> "NONE", approved |-> 0, request |-> {}]
NoDecision == [id |-> 0, kind |-> "none", ref |-> 0]

(* create_project: every candidate PENDING, or UNSUPPORTED for a listing url. *)
NewProject(unsupported) ==
    [cand |-> [c \in Candidates |-> IF c \in unsupported THEN "UNSUPPORTED" ELSE "PENDING"],
     plan |-> NoPlan,
     lookup |-> [c \in Candidates |-> [status |-> "NONE", attempts |-> 0, result |-> "NONE"]],
     fetch |-> [s \in SUBSET Candidates |-> [status |-> "NONE", attempts |-> 0]],
     active |-> NoDecision, history |-> {}]

Call == [pc : ControlPoint, doc : Document, at : 0..NumCandidates + 1, reason : BOOLEAN,
         sites : SUBSET Candidates, left : SUBSET Candidates, out : {"ok", "raised"}]

Idle(out) == [pc |-> "idle", doc |-> NewProject({}), at |-> 0, reason |-> FALSE,
              sites |-> {}, left |-> {}, out |-> out]

TypeOK ==
    /\ db \in Document
    /\ call \in [Calls -> Call]
    /\ nextPlan \in 1..MaxPlans + 1
    /\ nextDecision \in 1..MaxDecisions + 1
    /\ expired \subseteq PlanIds
    /\ crashes \in 0..MaxCrashes
    /\ overlaps \in 0..MaxOverlaps
    /\ approvals \subseteq PlanIds
    /\ answered \subseteq DecisionIds
    /\ cancelled \subseteq PlanIds
    /\ paid \in [PlanIds -> [Candidates -> 0..PaidCap]]
    /\ lookups \in [Candidates -> 0..LookupCap]

-------------------------------------------------------------------------------
(* Operations on one copy of the document *)

InStatus(d, s) == {c \in Candidates : d.cand[c] = s}
Resolved(d) == InStatus(d, "RESOLVED")

(* Faulty: without the attempts limit. *)
MayBegin_Unlimited(op, reason) == op.status \in {"NONE", "FAILED", "PARTIAL"}

(* _begin_metered_operation: what may be started, and what starting records. *)
MayBegin(op, reason) ==
    \/ op.status = "NONE"
    \/ op.status \in {"FAILED", "PARTIAL"} /\ reason /\ op.attempts < RetryLimit

Begun(op, status) == [op EXCEPT !.status = status, !.attempts = @ + 1]

(* _interrupt: one active decision at a time; an existing one is kept. *)
Interrupted(d, kind, ref) ==
    IF d.active.id # 0 THEN d
    ELSE [d EXCEPT !.active = [id |-> nextDecision, kind |-> kind, ref |-> ref]]

TakesDecisionId(d) ==
    /\ d.active.id <= MaxDecisions
    /\ nextDecision' = IF d.active.id = nextDecision THEN nextDecision + 1 ELSE nextDecision

(* _queue_address_confirmation asks about the first mismatch in list order. *)
AddressQueued(d) ==
    LET open == InStatus(d, "ADDRESS_CONFIRMATION_REQUIRED")
    IN IF open = {} THEN d ELSE Interrupted(d, "confirm_address", Min(open))

(* Faulty forms of the next operator: the decision stays pending, leaves no *)
(* record, or approves the plan whatever it was about.                      *)
Answered_StillActive(d) == [d EXCEPT !.history = @ \cup {d.active.id}]
Answered_Unrecorded(d) == [d EXCEPT !.active = NoDecision]
Answered_Approves(d) ==
    [d EXCEPT !.active = NoDecision, !.history = @ \cup {d.active.id},
              !.plan.approved = d.active.id]

(* answer_decision: the decision leaves active_decision for the history. *)
Answered(d) ==
    [d EXCEPT !.active = NoDecision, !.history = @ \cup {d.active.id}]

(* One lookup's answer, as resolve_and_quote records it. *)
LookedUp(d, c, outcome) ==
    [d EXCEPT !.cand[c] = outcome,
              !.lookup[c] = IF outcome = "ERROR"
                            THEN [@ EXCEPT !.status = "FAILED"]
                            ELSE [@ EXCEPT !.status = "SUCCEEDED", !.result = outcome]]

(* resolve_and_quote passes a candidate by without a paid lookup. *)
PassedBy(d, c, reason) ==
    \/ d.cand[c] \in {"UNSUPPORTED", "AMBIGUOUS", "RESOLVED", "ENRICHED"}
    \/ d.cand[c] = "ENRICHMENT_FAILED" /\ reason
    \/ d.cand[c] # "ENRICHMENT_FAILED" /\ d.lookup[c].status = "SUCCEEDED"

AfterPassing(d, c) ==
    IF d.cand[c] = "ENRICHMENT_FAILED" THEN "RESOLVED"
    ELSE IF d.cand[c] \in {"UNSUPPORTED", "AMBIGUOUS", "RESOLVED", "ENRICHED"} THEN d.cand[c]
    ELSE d.lookup[c].result

(* Faulty forms of the next operator: one check of the three is missing. *)
Confirmable_Unapproved(d) ==
    d.plan.status = "QUOTED" /\ d.plan.id \notin expired /\ d.fetch[d.plan.request].status = "QUOTED"
Confirmable_AnyOperation(d) ==
    d.plan.status = "QUOTED" /\ d.plan.approved # 0 /\ d.plan.id \notin expired

(* confirm_and_fetch's checks on the document it has just read. *)
Confirmable(d) ==
    /\ d.plan.status = "QUOTED" /\ d.plan.approved # 0
    /\ d.plan.id \notin expired
    /\ d.fetch[d.plan.request].status = "QUOTED"

(* Faulty: the operation is marked only once it is over. *)
Executing_Unmarked(d) == d

Executing(d) == [d EXCEPT !.fetch[d.plan.request].status = "EXECUTING"]

(* Faulty: off by one. *)
FirstBatch_Short(S) == {c \in S : Cardinality({b \in S : b <= c}) < BatchSize}

(* The batches of a fetch take the candidates in list order. *)
FirstBatch(S) == {c \in S : Cardinality({b \in S : b <= c}) <= BatchSize}

BumpTo(cap, n) == IF n < cap THEN n + 1 ELSE n

-------------------------------------------------------------------------------
(* Calls *)

InFlight == {h \in Calls : call[h].pc # "idle"}

(* A handler's first step.  It may run while others await, up to the bound. *)
Enters ==
    /\ InFlight = {} \/ overlaps < MaxOverlaps
    /\ overlaps' = IF InFlight = {} THEN overlaps ELSE overlaps + 1

Await(h, pc, d, at, reason, sites, left) ==
    call' = [call EXCEPT ![h] = [pc |-> pc, doc |-> d, at |-> at, reason |-> reason,
                                 sites |-> sites, left |-> left, out |-> "ok"]]
Return(h, out) == call' = [call EXCEPT ![h] = Idle(out)]

Starts(h) == call[h].pc = "idle" /\ Enters

Pays(p, batch) ==
    paid' = [paid EXCEPT ![p] = [c \in Candidates |-> IF c \in batch
                                                      THEN BumpTo(PaidCap, paid[p][c])
                                                      ELSE paid[p][c]]]

Init ==
    /\ \E unsupported \in SUBSET (Candidates \ Coordinates) : db = NewProject(unsupported)
    /\ call = [h \in Calls |-> Idle("ok")]
    /\ nextPlan = 1 /\ nextDecision = 1
    /\ expired = {} /\ crashes = 0 /\ overlaps = 0
    /\ approvals = {} /\ answered = {} /\ cancelled = {}
    /\ paid = [p \in PlanIds |-> [c \in Candidates |-> 0]]
    /\ lookups = [c \in Candidates |-> 0]

-------------------------------------------------------------------------------
(* resolve_and_quote *)

(* The loop over the candidates from position i on, up to the next await.  *)
(* d is the document just saved; what passing by changes stays in the copy *)
(* until the next save.                                                    *)
Proceed(h, d, i, reason) ==
    LET rest == {c \in Candidates : c >= i /\ ~PassedBy(d, c, reason)}
        stop == IF rest = {} THEN NumCandidates + 1 ELSE Min(rest)
        e == [d EXCEPT !.cand = [c \in Candidates |-> IF i <= c /\ c < stop
                                                      THEN AfterPassing(d, c) ELSE d.cand[c]]]
        begun == [e EXCEPT !.lookup[stop] = Begun(@, "EXECUTING")]
    IN \/ /\ rest = {} /\ Resolved(e) = {}
          /\ db' = e
          /\ Return(h, "ok")
          /\ UNCHANGED lookups
       \/ /\ rest = {} /\ Resolved(e) # {}
          /\ db' = d
          /\ Await(h, "quotes", e, stop, reason, {}, {})
          /\ UNCHANGED lookups
       \/ /\ rest # {}
          /\ d.cand[stop] # "ENRICHMENT_FAILED" /\ MayBegin(d.lookup[stop], reason)
          /\ db' = begun
          /\ Await(h, "lookup", begun, stop, reason, {}, {})
          /\ lookups' = [lookups EXCEPT ![stop] = BumpTo(LookupCap, @)]
       \/ /\ rest # {}
          /\ d.cand[stop] = "ENRICHMENT_FAILED" \/ ~MayBegin(d.lookup[stop], reason)
          /\ db' = d
          /\ Return(h, "raised")
          /\ UNCHANGED lookups

ResolveAndQuote(h, reason) ==
    /\ Starts(h)
    /\ Await(h, "evidence", db, 0, reason, {}, {})
    /\ UNCHANGED <<db, nextPlan, nextDecision, expired, crashes, history>>

(* plan_project_evidence saves its copy, plan_fields and resolve_and_quote  *)
(* read it back.                                                            *)
EvidencePlanned(h) ==
    /\ call[h].pc = "evidence"
    /\ Proceed(h, call[h].doc, 1, call[h].reason)
    /\ UNCHANGED <<nextPlan, nextDecision, expired, bounds, answers, paid>>

LookupReturned(h, outcome) ==
    /\ call[h].pc = "lookup"
    /\ Proceed(h, LookedUp(call[h].doc, call[h].at, outcome), call[h].at + 1, call[h].reason)
    /\ UNCHANGED <<nextPlan, nextDecision, expired, bounds, answers, paid>>

(* The field catalog and the provider's quotes are awaited one after the     *)
(* other; nothing shared is read or written between, so they are one step.   *)
(* An operation for the same request decides whether there is a new quote.   *)
Quoted(h) ==
    LET d == call[h].doc
        request == Resolved(d)
        op == d.fetch[request]
        standing == op.status = "QUOTED" /\ d.plan.request = request
        refused == \/ op.status \notin {"QUOTED", "SUCCEEDED"} /\ ~MayBegin(op, call[h].reason)
                   \/ op.status = "QUOTED" /\ d.plan = NoPlan   \* None has no operation_id
        e == [d EXCEPT !.fetch[request] = IF @.status = "QUOTED" THEN @ ELSE Begun(@, "QUOTED"),
                       !.plan = [id |-> nextPlan, status |-> "QUOTED", approved |-> 0,
                                 request |-> request]]
        f == Interrupted(e, "confirm_enrichment", nextPlan)
    IN /\ call[h].pc = "quotes"
       /\ \/ /\ op.status = "SUCCEEDED" \/ standing
             /\ db' = d
             /\ Return(h, "ok")
             /\ UNCHANGED <<nextPlan, nextDecision>>
          \/ /\ refused
             /\ Return(h, "raised")
             /\ UNCHANGED <<db, nextPlan, nextDecision>>
          \/ /\ op.status # "SUCCEEDED" /\ ~standing /\ ~refused
             /\ nextPlan <= MaxPlans
             /\ nextPlan' = nextPlan + 1
             /\ TakesDecisionId(f)
             /\ db' = f
             /\ Return(h, "ok")
       /\ UNCHANGED <<expired, bounds, history>>

(* An awaited call raises where nothing catches it: the copy is dropped. *)
AwaitFails(h) ==
    /\ call[h].pc \in {"hold", "evidence", "quotes", "select"}
    /\ Return(h, "raised")
    /\ UNCHANGED <<db, nextPlan, nextDecision, expired, bounds, history>>

(* select_resolution, up to the first await of the quote it ends with. *)
SelectResolution(h, c) ==
    LET d == [db EXCEPT !.cand[c] = "RESOLVED", !.plan = NoPlan]
    IN /\ Starts(h)
       /\ db.cand[c] = "AMBIGUOUS"
       /\ db' = d
       /\ Await(h, "evidence", d, 0, FALSE, {}, {})
       /\ UNCHANGED <<nextPlan, nextDecision, expired, crashes, history>>

(* resolve_candidate: a lookup outside the quote, never a retry. *)
ResolveCandidate(h, c) ==
    LET d == [db EXCEPT !.lookup[c] = Begun(@, "EXECUTING")]
    IN /\ Starts(h)
       /\ db.cand[c] # "UNSUPPORTED" /\ MayBegin(db.lookup[c], FALSE)
       /\ db' = d
       /\ Await(h, "lookup_one", d, c, FALSE, {}, {})
       /\ lookups' = [lookups EXCEPT ![c] = BumpTo(LookupCap, @)]
       /\ UNCHANGED <<nextPlan, nextDecision, expired, crashes, answers, paid>>

CandidateResolved(h, outcome) ==
    LET d == call[h].doc
    IN /\ call[h].pc = "lookup_one"
       /\ db' = IF outcome = "ERROR" THEN [d EXCEPT !.lookup[call[h].at].status = "FAILED"]
                ELSE LookedUp(d, call[h].at, outcome)
       /\ Return(h, IF outcome = "ERROR" THEN "raised" ELSE "ok")
       /\ UNCHANGED <<nextPlan, nextDecision, expired, bounds, history>>

-------------------------------------------------------------------------------
(* answer_decision and confirm_and_fetch *)

(* confirm_and_fetch on the document d, just read: the operation is marked  *)
(* before anything is awaited, or the call is refused and d stays.          *)
ConfirmAndFetch(h, d) ==
    \/ /\ Confirmable(d)
       /\ db' = Executing(d)
       /\ Await(h, "select", Executing(d), 0, FALSE, {}, {})
    \/ /\ ~Confirmable(d)
       /\ db' = d
       /\ Return(h, "raised")

(* POST /enrich names the plan itself; it must have been approved before. *)
ConfirmRequest(h) ==
    /\ Starts(h)
    /\ db.plan.id # 0
    /\ ConfirmAndFetch(h, db)
    /\ UNCHANGED <<nextPlan, nextDecision, expired, crashes, history>>

Approval(d) == [Answered(d) EXCEPT !.plan.approved = d.active.id]

(* "continue" on the cost decision: approve, save, and fetch at once. *)
AnswerContinue(h) ==
    /\ Starts(h)
    /\ db.active.kind = "confirm_enrichment" /\ db.active.ref = db.plan.id
    /\ ConfirmAndFetch(h, Approval(db))
    /\ approvals' = approvals \cup {db.plan.id}
    /\ answered' = answered \cup {db.active.id}
    /\ UNCHANGED <<nextPlan, nextDecision, expired, crashes, cancelled, paid, lookups>>

(* The process dies after a save of a call that would have gone on. *)
Dies ==
    /\ crashes < MaxCrashes
    /\ crashes' = crashes + 1
    /\ call' = [h \in Calls |-> Idle("raised")]

ApprovedThenCrash ==
    /\ Enters /\ Dies
    /\ db.active.kind = "confirm_enrichment" /\ db.active.ref = db.plan.id
    /\ db' = Approval(db)
    /\ approvals' = approvals \cup {db.plan.id}
    /\ answered' = answered \cup {db.active.id}
    /\ UNCHANGED <<nextPlan, nextDecision, expired, cancelled, paid, lookups>>

(* Batches are awaited one by one; each one is paid when it is sent. *)
SendBatch(h, d, sites, left) ==
    /\ Pays(d.plan.id, FirstBatch(left))
    /\ Await(h, "batch", d, 0, FALSE, sites, left)

(* Faulty: the plan is left as it was. *)
Settle_PlanOpen(h, d, sites) ==
    /\ db' = [d EXCEPT !.fetch[d.plan.request].status = "SUCCEEDED"]
    /\ Return(h, "ok")

(* The end of confirm_and_fetch: operation, plan and project are settled. *)
Settle(h, d, sites) ==
    /\ db' = [d EXCEPT
                !.fetch[d.plan.request].status =
                    IF sites \cap InStatus(d, "ENRICHMENT_FAILED") = {} THEN "SUCCEEDED"
                                                                       ELSE "PARTIAL",
                !.plan.status = "COMPLETED"]
    /\ Return(h, "ok")

FieldsSelected(h) ==
    LET d == call[h].doc
    IN /\ call[h].pc = "select"
       /\ \/ Resolved(d) # {} /\ SendBatch(h, d, Resolved(d), Resolved(d)) /\ UNCHANGED db
          \/ Resolved(d) = {} /\ Settle(h, d, {}) /\ UNCHANGED paid
       /\ UNCHANGED <<nextPlan, nextDecision, expired, bounds, answers, lookups>>

(* What persisting a dossier makes of a candidate; a failed batch fails     *)
(* every candidate of it.                                                   *)
Enriched(c) ==
    {"ENRICHED", "ENRICHMENT_FAILED"}
        \cup (IF c \in Coordinates THEN {} ELSE {"ADDRESS_CONFIRMATION_REQUIRED"})

BatchResults(batch) ==
    {r \in [batch -> CandidateStatus] : \A c \in batch : r[c] \in Enriched(c)}

BatchReturned(h) ==
    LET d == call[h].doc
        batch == FirstBatch(call[h].left)
        left == call[h].left \ batch
    IN /\ call[h].pc = "batch"
       /\ \E r \in BatchResults(batch) :
             LET e == [d EXCEPT !.cand = [c \in Candidates |-> IF c \in batch THEN r[c] ELSE @[c]]]
                 f == IF \E c \in batch : r[c] = "ADDRESS_CONFIRMATION_REQUIRED"
                      THEN AddressQueued(e) ELSE e
             IN /\ TakesDecisionId(f)
                /\ \/ left # {} /\ SendBatch(h, f, call[h].sites, left) /\ UNCHANGED db
                   \/ left = {} /\ Settle(h, f, call[h].sites) /\ UNCHANGED paid
       /\ UNCHANGED <<nextPlan, expired, bounds, answers, lookups>>

(* Cancelling any decision, or the "cancel" option of the cost decision. *)
AnswerCancel ==
    /\ Enters
    /\ db.active.id # 0
    /\ db' = Answered(db)
    /\ answered' = answered \cup {db.active.id}
    /\ cancelled' = IF db.active.kind = "confirm_enrichment" THEN cancelled \cup {db.active.ref}
                                                             ELSE cancelled
    /\ UNCHANGED <<call, nextPlan, nextDecision, expired, crashes, approvals, paid, lookups>>

(* confirm_canonical_address on the document the answer was saved in. *)
AnswerAddress(verdict) ==
    LET c == db.active.ref
        d == Answered(db)
        e == [d EXCEPT !.cand[c] = verdict]
        f == AddressQueued(e)
    IN /\ Enters
       /\ db.active.kind = "confirm_address"
       /\ \/ /\ d.cand[c] = "ADDRESS_CONFIRMATION_REQUIRED"
             /\ TakesDecisionId(f)
             /\ db' = f
          \/ /\ d.cand[c] # "ADDRESS_CONFIRMATION_REQUIRED"
             /\ db' = d
             /\ UNCHANGED nextDecision
       /\ answered' = answered \cup {db.active.id}
       /\ UNCHANGED <<call, nextPlan, expired, crashes, approvals, cancelled, paid, lookups>>

(* agent_decision asks about a canonical action; its answer is recorded. *)
AgentDecision ==
    LET d == Interrupted(db, "project_action", 0)
    IN /\ Enters
       /\ db.active.id = 0
       /\ TakesDecisionId(d)
       /\ db' = d
       /\ UNCHANGED <<call, nextPlan, expired, crashes, history>>

AnswerAction ==
    /\ Enters
    /\ db.active.kind = "project_action"
    /\ db' = Answered(db)
    /\ answered' = answered \cup {db.active.id}
    /\ UNCHANGED <<call, nextPlan, nextDecision, expired, crashes, approvals, cancelled, paid,
                   lookups>>

-------------------------------------------------------------------------------
(* Other writers of the document *)

(* plan_project_evidence, refresh_authoritative_sources, ask_mireye_site and *)
(* build_world_snapshot read the document, await, and write it all back.     *)
HoldCopy(h) ==
    /\ Starts(h)
    /\ Await(h, "hold", db, 0, FALSE, {}, {})
    /\ UNCHANGED <<db, nextPlan, nextDecision, expired, crashes, history>>

WriteCopyBack(h) ==
    /\ call[h].pc = "hold"
    /\ db' = call[h].doc
    /\ Return(h, "ok")
    /\ UNCHANGED <<nextPlan, nextDecision, expired, bounds, history>>

(* link_existing_snapshot: evidence at hand for a candidate with a location. *)
HasLocation(d, c) ==
    c \in Coordinates \/ d.cand[c] \in {"RESOLVED", "ENRICHED", "ENRICHMENT_FAILED",
                                        "ADDRESS_CONFIRMATION_REQUIRED",
                                        "ADDRESS_MISMATCH_REJECTED"}

LinkExistingSnapshot(c, result) ==
    LET d == [db EXCEPT !.cand[c] = result]
        e == IF result = "ENRICHED" THEN d ELSE AddressQueued(d)
    IN /\ Enters
       /\ HasLocation(db, c)
       /\ result \in Enriched(c) \ {"ENRICHMENT_FAILED"}
       /\ TakesDecisionId(e)
       /\ db' = e
       /\ UNCHANGED <<call, nextPlan, expired, crashes, history>>

(* QUOTE_TTL_SECONDS, or the provider's own expiry, passes. *)
QuoteExpires(p) ==
    /\ p < nextPlan /\ p \notin expired
    /\ expired' = expired \cup {p}
    /\ UNCHANGED <<db, call, nextPlan, nextDecision, bounds, history>>

(* The server process dies: the stored document survives, the calls do not. *)
Crash ==
    /\ InFlight # {} /\ Dies
    /\ UNCHANGED <<db, nextPlan, nextDecision, expired, overlaps, history>>

-------------------------------------------------------------------------------

Outcomes == {"RESOLVED", "AMBIGUOUS", "NOT_FOUND", "ERROR"}

(* What a server goes on with once a call is under way. *)
Step(h) ==
    \/ EvidencePlanned(h) \/ Quoted(h)
    \/ \E outcome \in Outcomes : LookupReturned(h, outcome) \/ CandidateResolved(h, outcome)
    \/ FieldsSelected(h) \/ BatchReturned(h)
    \/ WriteCopyBack(h) \/ AwaitFails(h)

(* What a client asks for. *)
Request(h) ==
    \/ \E reason \in BOOLEAN : ResolveAndQuote(h, reason)
    \/ \E c \in Candidates : SelectResolution(h, c) \/ ResolveCandidate(h, c)
    \/ AnswerContinue(h) \/ ConfirmRequest(h) \/ HoldCopy(h)

Next ==
    \/ \E h \in Calls : Request(h) \/ Step(h)
    \/ AnswerCancel \/ AnswerAction \/ AgentDecision
    \/ \E verdict \in {"ENRICHED", "ADDRESS_MISMATCH_REJECTED"} : AnswerAddress(verdict)
    \/ \E c \in Candidates, result \in CandidateStatus : LinkExistingSnapshot(c, result)
    \/ \E p \in PlanIds : QuoteExpires(p)
    \/ Crash \/ ApprovedThenCrash

Spec == Init /\ [][Next]_vars

(* Provider calls answer or fail (the clients have timeouts), so a call     *)
(* under way goes on; nobody has to ask for anything.                       *)
Fairness == \A h \in Calls : WF_vars(Step(h))

FairSpec == Spec /\ Fairness
-------------------------------------------------------------------------------
(* Safety *)

Documents == {db} \cup {call[h].doc : h \in Calls}

(* Paid provider operations are confirmation-gated (README.md:83): whatever  *)
(* copies are written back over each other, a site is paid for under a plan  *)
(* only after a user answered that plan's cost decision with "continue".     *)
FetchOnlyApproved ==
    \A p \in PlanIds, c \in Candidates : paid[p][c] > 0 => p \in approvals

(* approved_decision_id, the flag the gate reads, is never forged: in every  *)
(* copy of the document it names a decision the user answered, on a plan the *)
(* user approved.                                                            *)
ApprovalIsGenuine ==
    \A d \in Documents : d.plan.approved # 0 => /\ d.plan.approved \in answered
                                                /\ d.plan.id \in approvals

(* One approval pays for each site at most once ("An equivalent paid         *)
(* operation is already executing; duplicate execution was blocked.",        *)
(* diligence.py:1130), through retries, refusals and crashes.                *)
OnePaymentPerApproval ==
    \A p \in PlanIds, c \in Candidates : paid[p][c] <= 1

(* A plan whose cost decision was cancelled is never paid for ("Do not spend *)
(* credits or fetch candidate evidence.", diligence.py:1273).                *)
CancelledNeverPaid ==
    \A p \in cancelled, c \in Candidates : paid[p][c] = 0

(* "The paid operation retry limit has been reached" (diligence.py:1134):    *)
(* however resolve_and_quote and resolve_candidate alternate, crash and are  *)
(* retried, one candidate is looked up at most twice.                        *)
LookupsBounded == \A c \in Candidates : lookups[c] <= RetryLimit

(* An answered decision stays answered: it is in the history that "survives  *)
(* restarts" (docs/architecture-current.md:51) and is not pending again.     *)
AnswersKept == answered \subseteq db.history /\ db.active.id \notin answered

(* The plan and its operation tell the same story: a completed plan has a    *)
(* finished operation, an approved plan one that has been quoted.            *)
PlanAgreesWithOperation ==
    LET op == db.fetch[db.plan.request]
    IN /\ db.plan.status = "COMPLETED" => op.status \in {"SUCCEEDED", "PARTIAL"}
       /\ db.plan.status = "QUOTED" => op.status \in {"QUOTED", "EXECUTING"}

(* All this together, for calls of which one is served at a time: what the   *)
(* user decided about money stands.                                          *)
DecisionsStand ==
    /\ OnePaymentPerApproval
    /\ CancelledNeverPaid
    /\ AnswersKept
    /\ LookupsBounded

(* Every call the server accepted comes to an end, whatever the provider     *)
(* answers and whoever else writes the document.                             *)
CallsReturn == \A h \in Calls : call[h].pc # "idle" ~> call[h].pc = "idle"

-------------------------------------------------------------------------------
(* What the code's own words say, and a run refutes *)

(* The existing quote is what "continue" runs (diligence.py:1272, "Run the   *)
(* confirmed MIREYE enrichment using the existing quote."): a fetch covers   *)
(* the candidates that were quoted, no others.                               *)
FetchStaysWithinQuote ==
    \A h \in Calls : call[h].pc = "batch" => call[h].sites \subseteq call[h].doc.plan.request

-------------------------------------------------------------------------------
(* Refinement *)

(* Every history of approvals and payments is one the promise allows.        *)
Gate == INSTANCE MeteredSpend WITH Sites <- Candidates, Once <- FALSE
GatedSpending == Gate!Spec

(* One call at a time, it is even one where an approval is spent once.       *)
OnceGate == INSTANCE MeteredSpend WITH Sites <- Candidates, Once <- TRUE
SpendingOnce == OnceGate!Spec
===============================================================================
